----------------------------- MODULE StageAdapter -----------------------------
(***************************************************************************)
(* The unit commit protocol of long stages: AtomicStageAdapter over a       *)
(* StageCheckpointStore (stage_adapter.py, stage_checkpoint.py).  A stage   *)
(* is a set of units; a unit is produced into a partial file, validated,    *)
(* renamed to its final name and recorded as committed, and an owner that   *)
(* comes later picks up from whatever a crash has left.                     *)
(*                                                                          *)
(* Every record() is one step: the checkpoint file is rewritten atomically  *)
(* inside the path transaction.  A step that fails, a producer that yields  *)
(* a bad file or none, a crash and a deletion from outside all count as     *)
(* faults; MaxFaults bounds how many of them a run meets.                   *)
(***************************************************************************)
EXTENDS Naturals, FiniteSets

CONSTANTS Owners, Units,
          Exclusive,  \* does the job lease keep a second owner out
          MaxFaults

ASSUME StageAssumption == /\ Exclusive \in BOOLEAN
                          /\ MaxFaults \in Nat

VARIABLES owners,   \* who holds, or believes to hold, the job
          state,    \* the recorded state of every unit
          final,    \* what is at the final path of every unit
          cleaned,  \* the units whose inputs have been cleaned up
          pc, unit, \* where an owner is in execute_unit, and of which unit
          partial,  \* what is at its partial path
          faults,
          deleted   \* history: the units whose final file somebody has deleted

vars == <<owners, state, final, cleaned, pc, unit, partial, faults, deleted>>

UnitStates == {"planned", "producing", "validating", "committed", "rejected",
               "quarantined", "interrupted"}
Contents == {"absent", "good", "bad"}
Locations == {"idle", "reconcile", "adopt", "announce", "produce", "examine",
              "validate", "promote", "commit", "cleanup", "unwind"}

(* Mutant: a unit a crash has left in producing cannot be announced again.   *)
RecordableNoRestart(s) ==
    {t \in UnitStates : <<s, t>> \in UNION {
        {"none"} \X {"planned", "producing", "committed"},
        {"producing"} \X {"validating", "interrupted", "rejected"},
        {"validating"} \X {"producing", "committed", "rejected", "interrupted"},
        {"interrupted"} \X {"planned", "producing", "quarantined", "committed"},
        {"committed"} \X {"committed"}}}

(* The table of StageCheckpointStore.record; "none" is a unit not recorded.  *)
Recordable(s) ==
    {t \in UnitStates : <<s, t>> \in UNION {
        {"none"} \X {"planned", "producing", "committed"},
        {"planned"} \X {"producing", "interrupted", "quarantined"},
        {"producing"} \X {"producing", "validating", "interrupted", "rejected"},
        {"validating"} \X {"producing", "committed", "rejected", "interrupted"},
        {"interrupted"} \X {"planned", "producing", "quarantined", "committed"},
        {"rejected"} \X {"quarantined", "producing"},
        {"quarantined"} \X {"producing"},
        {"committed"} \X {"committed"}}}

At(o, loc) == pc[o] = loc
Goto(o, loc) == pc' = [pc EXCEPT ![o] = loc]
Goes == UNCHANGED faults
Fails == faults < MaxFaults /\ faults' = faults + 1

(* record(): on to ok when the table allows the transition, else or when the *)
(* write fails on to the location that handles the exception.                *)
Record(o, s, ok, raised) ==
    LET u == unit[o] IN
    \/ /\ s \in Recordable(state[u])
       /\ state' = [state EXCEPT ![u] = s]
       /\ Goto(o, ok) /\ Goes
    \/ /\ s \notin Recordable(state[u])
       /\ Goto(o, raised) /\ Goes
       /\ UNCHANGED state
    \/ /\ s \in Recordable(state[u])
       /\ Goto(o, raised) /\ Fails
       /\ UNCHANGED state

-----------------------------------------------------------------------------
Init == /\ owners = {}
        /\ state = [u \in Units |-> "none"]
        /\ final = [u \in Units |-> "absent"]
        /\ cleaned = {}
        /\ pc = [o \in Owners |-> "idle"]
        /\ unit \in [Owners -> Units]
        /\ partial = [o \in Owners |-> "absent"]
        /\ faults = 0
        /\ deleted = {}

(* The lease is taken before and released after any unit is executed.        *)
Take(o) == /\ o \notin owners
           /\ Exclusive => owners = {}
           /\ owners' = owners \cup {o}
           /\ UNCHANGED <<state, final, cleaned, pc, unit, partial, faults, deleted>>

Drop(o) == /\ o \in owners /\ At(o, "idle")
           /\ owners' = owners \ {o}
           /\ UNCHANGED <<state, final, cleaned, pc, unit, partial, faults, deleted>>

Crash(o) == /\ o \in owners /\ Fails
            /\ owners' = owners \ {o}
            /\ Goto(o, "idle")
            /\ partial' = [partial EXCEPT ![o] = "absent"]
            /\ UNCHANGED <<state, final, cleaned, unit, deleted>>

Delete(u) == /\ final[u] # "absent" /\ Fails
             /\ final' = [final EXCEPT ![u] = "absent"]
             /\ deleted' = deleted \cup {u}
             /\ UNCHANGED <<owners, state, cleaned, pc, unit, partial>>

-----------------------------------------------------------------------------
(* The executor calls execute_unit on its units, committed ones included;     *)
(* every call has a partial name of its own.                                 *)
Begin(o, u) ==
    /\ o \in owners /\ At(o, "idle")
    /\ unit' = [unit EXCEPT ![o] = u]
    /\ partial' = [partial EXCEPT ![o] = "absent"]
    /\ Goto(o, "reconcile")
    /\ UNCHANGED <<owners, state, final, cleaned, faults, deleted>>

(* A committed unit is done if its artifact is there and valid, and raises   *)
(* otherwise; a final nobody committed is adopted if it is valid.            *)
Reconcile(o) ==
    LET u == unit[o] IN
    /\ At(o, "reconcile")
    /\ \/ /\ state[u] # "committed" /\ final[u] = "absent"
          /\ Goto(o, "announce") /\ Goes
       \/ /\ state[u] # "committed" /\ final[u] = "good"
          /\ Goto(o, "adopt") /\ Goes
       \/ /\ state[u] = "committed" \/ final[u] = "bad"
          /\ Goto(o, "idle") /\ Goes
       \/ /\ final[u] = "good"  \* the validator itself fails
          /\ Goto(o, "idle") /\ Fails
    /\ UNCHANGED <<owners, state, final, cleaned, unit, partial, deleted>>

Adopt(o) == /\ At(o, "adopt")
            /\ Record(o, "committed", "idle", "idle")
            /\ UNCHANGED <<owners, final, cleaned, unit, partial, deleted>>

Announce(o) == /\ At(o, "announce")
               /\ Record(o, "producing", "produce", "idle")
               /\ UNCHANGED <<owners, final, cleaned, unit, partial, deleted>>

(* The producer is a program of its own: it may write anything, or nothing.  *)
Produce(o) ==
    /\ At(o, "produce")
    /\ \E c \in Contents : /\ partial' = [partial EXCEPT ![o] = c]
                           /\ IF c = "good" THEN Goes ELSE Fails
    /\ Goto(o, "examine")
    /\ UNCHANGED <<owners, state, final, cleaned, unit, deleted>>

(* Mutant: the unit is not recorded as validating.                           *)
ExamineSilently(o) ==
    /\ At(o, "examine")
    /\ Goto(o, IF partial[o] = "absent" THEN "unwind" ELSE "validate")
    /\ UNCHANGED <<owners, state, final, cleaned, unit, partial, faults, deleted>>

Examine(o) ==
    /\ At(o, "examine")
    /\ IF partial[o] = "absent"
       THEN Goto(o, "unwind") /\ Goes /\ UNCHANGED state
       ELSE Record(o, "validating", "validate", "unwind")
    /\ UNCHANGED <<owners, final, cleaned, unit, partial, deleted>>

(* Mutant: what was produced is promoted unseen.                             *)
ValidateNothing(o) ==
    /\ At(o, "validate")
    /\ Goto(o, "promote")
    /\ UNCHANGED <<owners, state, final, cleaned, unit, partial, faults, deleted>>

Validate(o) ==
    /\ At(o, "validate")
    /\ \/ /\ partial[o] = "good"
          /\ Goto(o, "promote") /\ Goes
       \/ /\ partial[o] # "good"
          /\ Goto(o, "unwind") /\ Goes
       \/ /\ partial[o] = "good"
          /\ Goto(o, "unwind") /\ Fails
    /\ UNCHANGED <<owners, state, final, cleaned, unit, partial, deleted>>

(* os.replace(partial, final)                                                *)
Promote(o) ==
    /\ At(o, "promote")
    /\ \/ /\ final' = [final EXCEPT ![unit[o]] = partial[o]]
          /\ partial' = [partial EXCEPT ![o] = "absent"]
          /\ Goto(o, "commit") /\ Goes
       \/ /\ Goto(o, "unwind") /\ Fails
          /\ UNCHANGED <<final, partial>>
    /\ UNCHANGED <<owners, state, cleaned, unit, deleted>>

Commit(o) == /\ At(o, "commit")
             /\ Record(o, "committed", "cleanup", "unwind")
             /\ UNCHANGED <<owners, final, cleaned, unit, partial, deleted>>

(* Mutant: the cleanup takes the promoted file along.                        *)
CleanupEverything(o) ==
    /\ At(o, "cleanup")
    /\ cleaned' = cleaned \cup {unit[o]}
    /\ final' = [final EXCEPT ![unit[o]] = "absent"]
    /\ Goto(o, "idle")
    /\ UNCHANGED <<owners, state, unit, partial, faults, deleted>>

Cleanup(o) ==
    /\ At(o, "cleanup")
    /\ \/ /\ cleaned' = cleaned \cup {unit[o]}
          /\ Goto(o, "idle") /\ Goes
       \/ /\ Goto(o, "unwind") /\ Fails
          /\ UNCHANGED cleaned
    /\ UNCHANGED <<owners, state, final, unit, partial, deleted>>

(* The exception handler: a unit without a final file is marked interrupted, *)
(* if that can be written; the exception goes on to the caller.              *)
Unwind(o) ==
    LET u == unit[o] IN
    /\ At(o, "unwind")
    /\ IF final[u] = "absent" /\ state[u] \in {"producing", "validating"}
       THEN Record(o, "interrupted", "idle", "idle")
       ELSE Goto(o, "idle") /\ Goes /\ UNCHANGED state
    /\ UNCHANGED <<owners, final, cleaned, unit, partial, deleted>>

-----------------------------------------------------------------------------
Run(o) == \/ Reconcile(o) \/ Adopt(o) \/ Announce(o) \/ Produce(o) \/ Examine(o)
          \/ Validate(o) \/ Promote(o) \/ Commit(o) \/ Cleanup(o) \/ Unwind(o)

Next == \/ \E o \in Owners : Run(o) \/ Take(o) \/ Drop(o) \/ Crash(o)
        \/ \E o \in Owners, u \in Units : Begin(o, u)
        \/ \E u \in Units : Delete(u)

Spec == Init /\ [][Next]_vars

(* An owner goes on with the unit it executes; as long as a unit is not      *)
(* committed, somebody asks for the job again and the executor gets to it.   *)
FairSpec == /\ Spec
            /\ \A o \in Owners : WF_vars(Run(o))
            /\ WF_vars(\E o \in Owners : Take(o))
            /\ \A u \in Units : SF_vars(\E o \in Owners :
                                            state[u] # "committed" /\ Begin(o, u))

-----------------------------------------------------------------------------
TypeOK ==
    /\ owners \subseteq Owners
    /\ state \in [Units -> UnitStates \cup {"none"}]
    /\ final \in [Units -> Contents]
    /\ cleaned \subseteq Units
    /\ pc \in [Owners -> Locations]
    /\ unit \in [Owners -> Units]
    /\ partial \in [Owners -> Contents]
    /\ faults \in 0 .. MaxFaults
    /\ deleted \subseteq Units

(* A partial file never counts as done: a committed unit has a final file    *)
(* that passed validation, unless somebody has deleted it, even while two    *)
(* owners work on it.                                                        *)
CommittedIsGood == \A u \in Units \ deleted :
    state[u] = "committed" => final[u] = "good"

(* "committed work is never invalidated" (record's comment)                  *)
CommittedForever == [][\A u \in Units :
    state[u] = "committed" => /\ state'[u] = "committed"
                              /\ u \in deleted' \/ final'[u] = "good"]_vars

(* Inputs are cleaned up only once the unit is recorded as committed.        *)
CleanedIsCommitted == \A u \in cleaned : state[u] = "committed"

(* The expensive producer never runs for a unit that is already promoted, or *)
(* committed and its artifact gone.                                          *)
ProduceOnlyMissing == [][\A o \in Owners : Produce(o)
    => final[unit[o]] = "absent" /\ state[unit[o]] # "committed"]_vars

(* "If failure happened after os.replace but before the checkpoint, next     *)
(* resume validates/reconciles it" (execute_unit's handler): the table lets  *)
(* a final file be adopted whatever state its unit was left in.              *)
Adoptable == \A u \in Units :
    final[u] = "good" => "committed" \in Recordable(state[u])

(* "Todos os caminhos devem convergir para o mesmo resultado final           *)
(* committed": whatever fails, once nothing fails any more.                  *)
Converges == <>[](\A u \in Units : /\ state[u] = "committed"
                                   /\ u \in deleted \/ final[u] = "good")
=============================================================================
