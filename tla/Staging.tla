-------------------------------- MODULE Staging --------------------------------
(***************************************************************************)
(* Resumable copies (staging.py, ResumableStager.copy, with the space guard *)
(* of storage_resilience.py): blocks are appended to a partial file, a      *)
(* checkpoint is saved after each, and the complete partial is promoted.    *)
(* A file is the sequence of its blocks; a block is the version of the      *)
(* source it was read from.                                                 *)
(***************************************************************************)
EXTENDS Integers, Sequences, FiniteSets

CONSTANTS
  Lengths,     \* blocks the source may have, all positive
  MaxEdits,    \* times the source is edited
  MaxCrashes,
  Faults       \* a subset of {"space", "tamper"}

VARIABLES
  source,      \* [content, mtime]
  partial,     \* << >> also when there is no partial file
  destination, \* << >> when there is none
  state,       \* the checkpoint file
  pc,          \* where the running call is
  call,        \* what it read when it began, and how the last one ended
  causes,      \* what has happened that may justify a refusal
  crashes

vars  == <<source, partial, destination, state, pc, call, causes, crashes>>
files == <<partial, destination>>
world == <<source, causes, crashes>>

Version(v, n) == [b \in 1..n |-> v]
NoState == [size |-> 0, mtime |-> 0, copied |-> 0, completed |-> FALSE, checksum |-> << >>]
Results == {"none", "returned", "refused", "blocked", "crashed"}

Init ==
  /\ \E n \in Lengths : source = [content |-> Version(0, n), mtime |-> 0]
  /\ partial = << >> /\ destination = << >> /\ state = NoState
  /\ pc = "idle"
  /\ call = [verify |-> FALSE, size |-> 0, mtime |-> 0, touched |-> FALSE, result |-> "none"]
  /\ causes = {} /\ crashes = 0

End(result) == pc' = "idle" /\ call' = [call EXCEPT !.result = result]
Goto(step)  == pc' = step /\ UNCHANGED call

Saved(copied, completed, checksum) ==
  [size |-> call.size, mtime |-> call.mtime, copied |-> copied, completed |-> completed,
   checksum |-> checksum]

(***************************************************************************)
(* One call of copy().                                                     *)
(***************************************************************************)
Call ==
  /\ pc = "idle"
  /\ \E verify \in BOOLEAN :
       call' = [verify |-> verify, size |-> Len(source.content), mtime |-> source.mtime,
                touched |-> FALSE, result |-> "none"]
  /\ pc' = "opened"
  /\ UNCHANGED <<files, state, world>>

Matches  == state.size = call.size /\ state.mtime = call.mtime
Finished == state.completed \/ (state.copied = call.size /\ partial = << >> /\ destination # << >>)

\* Is the promoted file the one that was promised?  Right after a promotion its
\* content is always compared; later only if a checksum is known or asked for.
Expected == IF state.checksum # << >> THEN state.checksum ELSE source.content
Compared == ~state.completed \/ state.checksum # << >> \/ call.verify
Accepted ==
  /\ state.completed => partial = << >>
  /\ Len(destination) = call.size
  /\ Compared => destination = Expected

\* Nothing is left to copy: the call before had completed, or had died between the
\* promotion and the last checkpoint.
Reconcile ==
  /\ pc = "opened" /\ state # NoState /\ Matches /\ Finished /\ Accepted
  /\ state' = Saved(call.size, TRUE, IF Compared THEN destination ELSE state.checksum)
  /\ End("returned")
  /\ UNCHANGED <<files, world>>

Resumable == IF state = NoState THEN partial = << >>
             ELSE Matches /\ ~Finished /\ Len(partial) = state.copied

Resume ==
  /\ pc = "opened" /\ Resumable
  /\ state' = Saved(Len(partial), FALSE, << >>)
  /\ Goto("copy")
  /\ UNCHANGED <<files, world>>

\* Another source or contract, an orphan or diverging partial, a diverging result.
RefuseToTouch ==
  /\ pc = "opened" /\ ~Resumable
  /\ ~(state # NoState /\ Matches /\ Finished /\ Accepted)
  /\ End("refused")
  /\ UNCHANGED <<files, state, world>>

CopyBlock ==
  /\ pc = "copy" /\ Len(partial) < call.size /\ Len(partial) < Len(source.content)
  /\ partial' = Append(partial, source.content[Len(partial) + 1])
  /\ Goto("checkpoint")
  /\ UNCHANGED <<destination, state, world>>

Checkpoint ==
  /\ pc = "checkpoint"
  /\ state' = Saved(Len(partial), FALSE, << >>)
  /\ Goto("copy")
  /\ UNCHANGED <<files, world>>

SourceEnded ==
  /\ pc = "copy" /\ Len(partial) < call.size /\ Len(partial) >= Len(source.content)
  /\ End("refused")
  /\ UNCHANGED <<files, state, world>>

\* StorageGuard.require before the copy, monitor before every block.
Blocked ==
  /\ "space" \in Faults
  /\ (pc = "opened" /\ Resumable) \/ (pc = "copy" /\ Len(partial) < call.size)
  /\ End("blocked")
  /\ UNCHANGED <<files, state, world>>

Copied == pc = "copy" /\ Len(partial) = call.size
Checked == call.verify => partial = source.content

Verify ==
  /\ Copied /\ Checked
  /\ state' = Saved(call.size, FALSE, IF call.verify THEN partial ELSE << >>)
  /\ Goto("promote")
  /\ UNCHANGED <<files, world>>

WrongChecksum ==
  /\ Copied /\ ~Checked
  /\ End("refused")
  /\ UNCHANGED <<files, state, world>>

Promote ==
  /\ pc = "promote"
  /\ destination' = partial /\ partial' = << >>
  /\ Goto("complete")
  /\ UNCHANGED <<state, world>>

Complete ==
  /\ pc = "complete"
  /\ state' = [state EXCEPT !.completed = TRUE]
  /\ End("returned")
  /\ UNCHANGED <<files, world>>

(***************************************************************************)
(* The world around it.                                                    *)
(***************************************************************************)
\* Between the write of a block and its checkpoint the two disagree.
Torn == pc = "checkpoint"

Crash ==
  /\ pc # "idle" /\ crashes < MaxCrashes
  /\ End("crashed")
  /\ crashes' = crashes + 1
  /\ causes' = causes \cup (IF Torn THEN {"torn"} ELSE {})
  /\ UNCHANGED <<source, files, state>>

Edit ==
  /\ source.mtime < MaxEdits
  /\ \E n \in Lengths : source' = [content |-> Version(source.mtime + 1, n), mtime |-> source.mtime + 1]
  /\ call' = [call EXCEPT !.touched = TRUE]
  /\ causes' = causes \cup {"edit"}
  /\ UNCHANGED <<files, state, pc, crashes>>

\* Somebody deletes or alters the promoted file.
Tamper ==
  /\ "tamper" \in Faults /\ pc = "idle" /\ destination # << >>
  /\ destination' \in {<< >>, Version(-1, Len(destination))}
  /\ causes' = causes \cup {"tamper"}
  /\ call' = [call EXCEPT !.touched = TRUE]
  /\ UNCHANGED <<source, partial, state, pc, crashes>>

Step ==
  \/ Call \/ Reconcile \/ Resume \/ RefuseToTouch \/ CopyBlock \/ Checkpoint \/ SourceEnded
  \/ Verify \/ WrongChecksum \/ Promote \/ Complete
Next == Step \/ Blocked \/ Crash \/ Edit \/ Tamper

Spec == Init /\ [][Next]_vars /\ WF_vars(Step)

(***************************************************************************)
(* Properties.                                                             *)
(***************************************************************************)
Files == Seq(-1..MaxEdits)
TypeOK ==
  /\ source.content \in Files /\ source.mtime \in 0..MaxEdits
  /\ partial \in Files /\ destination \in Files
  /\ state.copied \in Nat /\ state.checksum \in Files /\ state.completed \in BOOLEAN
  /\ pc \in {"idle", "opened", "copy", "checkpoint", "promote", "complete"}
  /\ call.result \in Results
  /\ causes \subseteq {"torn", "edit", "tamper"} /\ crashes \in 0..MaxCrashes

\* A call that returns has left the source itself at the destination, block by
\* block, however many calls were killed on the way and whatever versions they
\* copied, if the source was not edited during this last call; a result spoiled
\* since is only accepted by a call that was not asked for a checksum and finds none.
FaithfulCopy ==
  call.result = "returned" /\ ~call.touched =>
    destination = source.content \/ ("tamper" \in causes /\ ~call.verify)

\* "staging interrompido retoma" (docs/RECOVERY_PHASE5_STORAGE_RESILIENCE.md:47): a
\* call refuses only because the source was edited, the result was altered, or a call
\* died between a block and its checkpoint.
RefusedForCause == call.result = "refused" => causes # {}

\* What has been copied is kept: a partial only grows, or becomes the destination.
PartialKept ==
  partial' # partial =>
    \/ \E b \in -1..MaxEdits : partial' = Append(partial, b)
    \/ destination' = partial
NothingLost == [][PartialKept]_vars

\* With nothing to justify a refusal and space on the volume, the copy is made.
Arrived == call.result \in {"returned", "blocked"} \/ causes # {}
Arrives == <>Arrived

(* The inductive invariant (ComponentProofs).  A modification time stands for one content, and   *)
(* only grows: a checkpoint with the time the source has now was saved by calls that read this   *)
(* content only, whatever was edited, promoted or killed between them.                           *)
Shape ==
  /\ TypeOK /\ source \in [content: Files, mtime: Nat]
  /\ state \in [size: Nat, mtime: Nat, copied: Nat, completed: BOOLEAN, checksum: Files]
  /\ call \in [verify: BOOLEAN, size: Nat, mtime: Nat, touched: BOOLEAN, result: Results]
Running == pc # "idle"
Current == call.mtime = source.mtime
Fresh   == state # NoState /\ state.mtime = source.mtime
Times ==
  /\ source.content = Version(source.mtime, Len(source.content)) /\ Len(source.content) > 0
  /\ state.mtime <= source.mtime /\ call.mtime <= source.mtime
  /\ state = NoState => partial = << >>
  /\ Fresh => state.size = Len(source.content)
Calls ==
  /\ Running => call.size > 0 /\ call.result = "none"
  /\ Running /\ ~call.touched => Current
  /\ Running /\ Current => call.size = Len(source.content)
  /\ pc \notin {"idle", "opened"} => state # NoState /\ Matches /\ ~state.completed
  /\ pc = "promote" => Len(partial) = call.size
Pure ==
  Fresh => /\ partial = Version(source.mtime, Len(partial))
           /\ state.checksum \in {<< >>, source.content}
           /\ pc = "complete" => destination = source.content
           /\ state.completed => destination = source.content \/ "tamper" \in causes
Inv == Shape /\ Times /\ Calls /\ Pure /\ FaithfulCopy
===============================================================================
