----------------------------- MODULE InstanceGuard -----------------------------
(***************************************************************************)
(* The single-instance guard of runtime_distribution.py where it is a file  *)
(* (every system but Windows): created exclusively, then written; a record  *)
(* of a dead process, or one that cannot be read, is moved aside.           *)
(* A process that cannot write its record removes the file and ends.        *)
(***************************************************************************)
EXTENDS Integers, FiniteSets

CONSTANTS
  Processes,   \* process ids; an id may be used again
  MaxStarts    \* processes started in all: the start token of each

VARIABLES
  lock,        \* the lock file: absent, unwritten, or the record of a process
  born,        \* the start token of the process that has this id, 0 when none
  pc,
  read,        \* the record a process has read
  tries,
  starts,
  raced        \* two processes were acquiring at the same time

vars == <<lock, born, pc, read, tries, starts, raced>>

Absent    == [pid |-> "absent", token |-> 0]
Unwritten == [pid |-> "unwritten", token |-> 0]
Record(p) == [pid |-> p, token |-> born[p]]
Live(r)   == r.pid \in Processes /\ born[r.pid] = r.token

Acquiring == {p \in Processes : pc[p] \in {"open", "write", "found", "judge"}}
Owners    == {p \in Processes : pc[p] = "owner"}

Init ==
  /\ lock = Absent /\ born = [p \in Processes |-> 0]
  /\ pc = [p \in Processes |-> "none"]
  /\ read = [p \in Processes |-> Absent] /\ tries = [p \in Processes |-> 0]
  /\ starts = 0 /\ raced = FALSE

Start(p) ==
  /\ pc[p] = "none" /\ starts < MaxStarts
  /\ starts' = starts + 1
  /\ born' = [born EXCEPT ![p] = starts + 1]
  /\ pc' = [pc EXCEPT ![p] = "open"] /\ tries' = [tries EXCEPT ![p] = 3]
  /\ raced' = (raced \/ Acquiring # {})
  /\ UNCHANGED <<lock, read>>

Create(p) ==
  /\ pc[p] = "open" /\ tries[p] > 0 /\ lock = Absent
  /\ lock' = Unwritten
  /\ pc' = [pc EXCEPT ![p] = "write"]
  /\ UNCHANGED <<born, read, tries, starts, raced>>

\* The file that was created is written, unless it has been moved aside meanwhile.
Write(p) ==
  /\ pc[p] = "write"
  /\ lock' \in IF lock = Unwritten THEN {Record(p)} ELSE {lock}
  /\ pc' = [pc EXCEPT ![p] = "owner"]
  /\ UNCHANGED <<born, read, tries, starts, raced>>

\* The failing write removes what is at the path, and the program does not start.
WriteFails(p) ==
  /\ pc[p] = "write"
  /\ lock' = Absent
  /\ pc' = [pc EXCEPT ![p] = "none"] /\ born' = [born EXCEPT ![p] = 0]
  /\ UNCHANGED <<read, tries, starts, raced>>

Find(p) ==
  /\ pc[p] = "open" /\ tries[p] > 0 /\ lock # Absent
  /\ pc' = [pc EXCEPT ![p] = "found"]
  /\ UNCHANGED <<lock, born, read, tries, starts, raced>>

\* A file that is gone by now reads like a record of nobody.
Read(p) ==
  /\ pc[p] = "found"
  /\ read' = [read EXCEPT ![p] = lock]
  /\ pc' = [pc EXCEPT ![p] = "judge"]
  /\ UNCHANGED <<lock, born, tries, starts, raced>>

Refuse(p) ==
  /\ \/ pc[p] = "judge" /\ Live(read[p])
     \/ pc[p] = "open" /\ tries[p] = 0
  /\ pc' = [pc EXCEPT ![p] = "refused"]
  /\ UNCHANGED <<lock, born, read, tries, starts, raced>>

\* Mutant: a live owner's lock is moved aside like a dead one's.
MoveAsideAny(p) ==
  /\ pc[p] = "judge"
  /\ lock' = Absent
  /\ tries' = [tries EXCEPT ![p] = @ - 1]
  /\ pc' = [pc EXCEPT ![p] = "open"]
  /\ UNCHANGED <<born, read, starts, raced>>

\* The record that was judged need not be the one that is moved; a missing one costs a try as well.
MoveAside(p) ==
  /\ pc[p] = "judge" /\ ~Live(read[p])
  /\ lock' = Absent
  /\ tries' = [tries EXCEPT ![p] = @ - 1]
  /\ pc' = [pc EXCEPT ![p] = "open"]
  /\ UNCHANGED <<born, read, starts, raced>>

Release(p) ==
  /\ pc[p] = "owner"
  /\ lock' = IF lock = Record(p) THEN Absent ELSE lock
  /\ pc' = [pc EXCEPT ![p] = "none"] /\ born' = [born EXCEPT ![p] = 0]
  /\ UNCHANGED <<read, tries, starts, raced>>

\* A process that is killed, or was refused, ends without releasing anything.
Die(p) ==
  /\ pc[p] # "none"
  /\ pc' = [pc EXCEPT ![p] = "none"] /\ born' = [born EXCEPT ![p] = 0]
  /\ UNCHANGED <<lock, read, tries, starts, raced>>

Moves(p) ==
  \/ Start(p) \/ Create(p) \/ Write(p) \/ WriteFails(p) \/ Find(p) \/ Read(p)
  \/ Refuse(p) \/ MoveAside(p) \/ Release(p) \/ Die(p)
Next == \E p \in Processes : Moves(p)

Spec == Init /\ [][Next]_vars

TypeOK ==
  /\ lock.pid \in Processes \cup {"absent", "unwritten"} /\ lock.token \in 0..MaxStarts
  /\ born \in [Processes -> 0..MaxStarts]
  /\ pc \in [Processes -> {"none", "open", "write", "found", "judge", "owner", "refused"}]
  /\ tries \in [Processes -> 0..3] /\ raced \in BOOLEAN

\* "Single-instance guard with explicit ownership on every platform."
\* (runtime_distribution.py:74): two processes never run at once.
SingleInstance == Cardinality(Owners) <= 1

\* So it is as long as no two processes are acquiring at the same time, however many
\* died with the lock in any state and whoever has their process ids now.
SingleUnlessRaced == raced \/ SingleInstance

\* And then no process is refused for a lock that a dead one left: another was there.
Refused(p) == pc'[p] = "refused" /\ pc[p] # "refused"
RefusedOnlyByOwner == \A p \in Processes : Refused(p) /\ ~raced => Owners # {}
RefusedByTheLiving == [][RefusedOnlyByOwner]_vars

(* The inductive invariant (ComponentProofs): the record of a process that lives is  *)
(* that of an owner, and until two processes race, who owns has the lock, who is     *)
(* writing found none, and who judges has read the lock that is still there.         *)
Recorded(r) ==
  r.pid \in Processes => /\ r.token \in 1..starts
                         /\ Live(r) => pc[r.pid] = "owner"
Calm ==
  /\ \A p, q \in Acquiring : p = q
  /\ \A p \in Owners : lock = Record(p)
  /\ \A p \in Processes :
       /\ pc[p] = "write" => lock = Unwritten
       /\ pc[p] = "open" => tries[p] = 3 \/ (tries[p] = 2 /\ lock = Absent)
       /\ pc[p] = "found" => tries[p] = 3
       /\ pc[p] = "judge" => tries[p] = 3 /\ \A q \in Owners : read[p] = lock
Locks == [pid : Processes \cup {"absent", "unwritten"}, token : Nat]
Shape ==
  /\ TypeOK /\ starts \in Nat /\ lock \in Locks /\ read \in [Processes -> Locks]
  /\ \A p \in Processes : born[p] <= starts /\ (pc[p] = "none" <=> born[p] = 0)
  /\ \A p \in Processes : pc[p] \in {"found", "judge"} => tries[p] > 0
Records == Recorded(lock) /\ \A p \in Processes : pc[p] = "judge" => Recorded(read[p])
Quiet == raced \/ Calm
Inv == Shape /\ Records /\ Quiet
===============================================================================
