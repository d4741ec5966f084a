-------------------------- MODULE StageAdapterProofs --------------------------
(* Theorems about StageAdapter, for any units, owners and number of faults.  *)
EXTENDS StageAdapter, TLAPS

(* What may be recorded after each state; nothing follows a commit.          *)
LEMMA RecordableStates ==
    /\ \A s : Recordable(s) \subseteq UnitStates
    /\ Recordable("committed") = {"committed"}
    /\ "committed" \in Recordable("validating")
BY DEF Recordable, UnitStates

(* Recording a state, or failing to, keeps the shape of the units.           *)
LEMMA RecordTypes ==
    ASSUME TypeOK, NEW o \in Owners, NEW s, NEW ok \in Locations,
           NEW raised \in Locations, Record(o, s, ok, raised)
    PROVE  /\ state' \in [Units -> UnitStates \cup {"none"}]
           /\ pc' \in [Owners -> Locations]
           /\ faults' \in 0 .. MaxFaults
<1>1. s \in Recordable(state[unit[o]]) => s \in UnitStates
  BY RecordableStates
<1>2. QED
  BY <1>1, StageAssumption DEF Record, TypeOK, Goto, Goes, Fails

(* The variables keep their types and the faults their bound.                *)
THEOREM StageTyping == Spec => []TypeOK
<1>1. Init => TypeOK
  BY StageAssumption DEF Init, TypeOK, Contents, Locations
<1>2. TypeOK /\ [Next]_vars => TypeOK'
  <2> SUFFICES ASSUME TypeOK, [Next]_vars PROVE TypeOK'
    OBVIOUS
  <2> USE StageAssumption DEF Goto, Goes, Fails, Locations, Contents
  <2>1. ASSUME NEW o \in Owners, Run(o) PROVE TypeOK'
    <3>1. CASE Reconcile(o) BY <3>1 DEF Reconcile, TypeOK
    <3>2. CASE Adopt(o)     BY <3>2, RecordTypes DEF Adopt, TypeOK
    <3>3. CASE Announce(o)  BY <3>3, RecordTypes DEF Announce, TypeOK
    <3>4. CASE Produce(o)   BY <3>4 DEF Produce, TypeOK
    <3>5. CASE Examine(o)
      <4>1. CASE partial[o] = "absent" BY <3>5, <4>1 DEF Examine, TypeOK
      <4>2. CASE partial[o] # "absent" BY <3>5, <4>2, RecordTypes DEF Examine, TypeOK
      <4>3. QED BY <4>1, <4>2
    <3>6. CASE Validate(o)  BY <3>6 DEF Validate, TypeOK
    <3>7. CASE Promote(o)   BY <3>7 DEF Promote, TypeOK
    <3>8. CASE Commit(o)    BY <3>8, RecordTypes DEF Commit, TypeOK
    <3>9. CASE Cleanup(o)   BY <3>9 DEF Cleanup, TypeOK
    <3>10. CASE Unwind(o)
      <4>1. CASE Record(o, "interrupted", "idle", "idle")
        BY <3>10, <4>1, RecordTypes DEF Unwind, TypeOK
      <4>2. CASE ~Record(o, "interrupted", "idle", "idle")
        BY <3>10, <4>2 DEF Unwind, TypeOK
      <4>3. QED BY <4>1, <4>2
    <3>11. QED
      BY <2>1, <3>1, <3>2, <3>3, <3>4, <3>5, <3>6, <3>7, <3>8, <3>9, <3>10 DEF Run
  <2>2. ASSUME NEW o \in Owners, Take(o) \/ Drop(o) \/ Crash(o) PROVE TypeOK'
    BY <2>2 DEF Take, Drop, Crash, TypeOK
  <2>3. ASSUME NEW o \in Owners, NEW u \in Units, Begin(o, u) PROVE TypeOK'
    BY <2>3 DEF Begin, TypeOK
  <2>4. ASSUME NEW u \in Units, Delete(u) PROVE TypeOK'
    BY <2>4 DEF Delete, TypeOK
  <2>5. CASE UNCHANGED vars BY <2>5 DEF vars, TypeOK
  <2>6. QED BY <2>1, <2>2, <2>3, <2>4, <2>5 DEF Next
<1>3. QED
  BY <1>1, <1>2, PTL DEF Spec

-----------------------------------------------------------------------------
(* What is promoted passed validation, and stays in place unless somebody    *)
(* deletes it.  No exclusion among owners is needed.                         *)
GoodInv ==
    /\ CommittedIsGood
    /\ \A u \in Units : final[u] # "bad"
    /\ \A o \in Owners : /\ At(o, "promote") => partial[o] = "good"
                         /\ pc[o] \in {"adopt", "commit"}
                            => final[unit[o]] = "good" \/ unit[o] \in deleted

(* What is promoted has passed validation, and a committed unit stays        *)
(* committed, its file good unless somebody deletes it.                      *)
LEMMA GoodStep ==
    ASSUME TypeOK, GoodInv, [Next]_vars
    PROVE  /\ GoodInv'
           /\ \A u \in Units : state[u] = "committed"
                  => state'[u] = "committed" /\ (u \in deleted' \/ final'[u] = "good")
<1> DEFINE Kept == /\ \A u \in Units : final[u] = "good" => final'[u] = "good" \/ u \in deleted'
                   /\ deleted \subseteq deleted'
                   /\ \A u \in Units : state[u] = "committed" => state'[u] = "committed"
<1> USE DEF Goto, At
<1>1. GoodInv' /\ Kept
  <2>1. ASSUME NEW o \in Owners, NEW s, NEW ok \in {"idle", "produce", "validate", "cleanup"},
               Record(o, s, ok, "idle") \/ Record(o, s, ok, "unwind"),
               s = "committed" => final[unit[o]] = "good" \/ unit[o] \in deleted,
               UNCHANGED <<final, unit, partial, deleted>>
        PROVE  GoodInv' /\ Kept
    <3>1. Kept
      BY <2>1, RecordableStates DEF Record, TypeOK
    <3>2. CommittedIsGood'
      BY <2>1 DEF Record, TypeOK, GoodInv, CommittedIsGood
    <3>3. ASSUME NEW q \in Owners PROVE /\ pc'[q] = "promote" => partial'[q] = "good"
                                        /\ pc'[q] \in {"adopt", "commit"} => final'[unit'[q]] = "good" \/ unit'[q] \in deleted'
      BY <2>1, <3>3 DEF Record, TypeOK, GoodInv
    <3>4. QED BY <2>1, <3>1, <3>2, <3>3 DEF GoodInv
  <2>2. ASSUME NEW o \in Owners, Run(o) PROVE GoodInv' /\ Kept
    <3>1. CASE Reconcile(o)
      BY <3>1 DEF Reconcile, TypeOK, GoodInv, CommittedIsGood
    <3>2. CASE Adopt(o)    BY <2>1, <3>2 DEF Adopt, GoodInv
    <3>3. CASE Announce(o) BY <2>1, <3>3 DEF Announce
    <3>4. CASE Produce(o)
      BY <3>4 DEF Produce, TypeOK, GoodInv, CommittedIsGood
    <3>5. CASE Examine(o)
      <4>1. CASE partial[o] = "absent"
        BY <3>5, <4>1 DEF Examine, TypeOK, GoodInv, CommittedIsGood
      <4>2. CASE partial[o] # "absent" BY <2>1, <3>5, <4>2 DEF Examine
      <4>3. QED BY <4>1, <4>2
    <3>6. CASE Validate(o)
      BY <3>6 DEF Validate, TypeOK, GoodInv, CommittedIsGood
    <3>7. CASE Promote(o)
      BY <3>7 DEF Promote, TypeOK, GoodInv, CommittedIsGood
    <3>8. CASE Commit(o)   BY <2>1, <3>8 DEF Commit, GoodInv
    <3>9. CASE Cleanup(o)
      BY <3>9 DEF Cleanup, TypeOK, GoodInv, CommittedIsGood
    <3>10. CASE Unwind(o)
      <4>1. CASE Record(o, "interrupted", "idle", "idle")
        BY <2>1, <3>10, <4>1 DEF Unwind
      <4>2. CASE ~Record(o, "interrupted", "idle", "idle")
        BY <3>10, <4>2 DEF Unwind, TypeOK, GoodInv, CommittedIsGood
      <4>3. QED BY <4>1, <4>2
    <3>11. QED
      BY <2>2, <3>1, <3>2, <3>3, <3>4, <3>5, <3>6, <3>7, <3>8, <3>9, <3>10 DEF Run
  <2>3. ASSUME NEW o \in Owners, Take(o) \/ Drop(o) \/ Crash(o) PROVE GoodInv' /\ Kept
    BY <2>3 DEF Take, Drop, Crash, TypeOK, GoodInv, CommittedIsGood
  <2>4. ASSUME NEW o \in Owners, NEW u \in Units, Begin(o, u) PROVE GoodInv' /\ Kept
    BY <2>4 DEF Begin, TypeOK, GoodInv, CommittedIsGood
  <2>5. ASSUME NEW u \in Units, Delete(u) PROVE GoodInv' /\ Kept
    BY <2>5 DEF Delete, TypeOK, GoodInv, CommittedIsGood
  <2>6. CASE UNCHANGED vars
    BY <2>6 DEF vars, GoodInv, CommittedIsGood
  <2>7. QED BY <2>2, <2>3, <2>4, <2>5, <2>6 DEF Next
<1>2. QED
  BY <1>1 DEF GoodInv, CommittedIsGood

(* In every behaviour what is promoted has passed validation.                *)
LEMMA GoodInvariant == Spec => []GoodInv
<1>1. Init => GoodInv
  BY DEF Init, GoodInv, CommittedIsGood, At
<1>2. TypeOK /\ GoodInv /\ [Next]_vars => GoodInv'
  BY GoodStep
<1>3. QED
  BY <1>1, <1>2, StageTyping, PTL DEF Spec

(* Even with several owners at work, a committed unit has a valid artifact.  *)
THEOREM CommittedIsGoodHolds == Spec => []CommittedIsGood
<1>1. GoodInv => CommittedIsGood
  BY DEF GoodInv
<1>2. QED
  BY <1>1, GoodInvariant, PTL

(* Committed work is never invalidated.                                      *)
THEOREM CommittedForeverHolds == Spec => CommittedForever
<1>1. TypeOK /\ GoodInv /\ [Next]_vars
      => [\A u \in Units : state[u] = "committed"
              => /\ state'[u] = "committed"
                 /\ u \in deleted' \/ final'[u] = "good"]_vars
  BY GoodStep
<1>2. QED
  BY <1>1, GoodInvariant, StageTyping, PTL DEF Spec, CommittedForever

(* Whoever is about to clean up works on a unit that is committed; what is   *)
(* committed stays so, whoever else works on it, crashes or deletes.         *)
CleanInv ==
    /\ CleanedIsCommitted
    /\ \A o \in Owners : At(o, "cleanup") => state[unit[o]] = "committed"

(* No step breaks it, given that a committed unit stays committed.           *)
LEMMA CleanStep ==
    ASSUME TypeOK, GoodInv, CleanInv, [Next]_vars
    PROVE  CleanInv'
<1> DEFINE committed == {u \in Units : state[u] = "committed"}
<1>1. committed \subseteq committed'
  BY GoodStep
<1> USE DEF Goto, At, Goes, Fails
<1> DEFINE Works(o) ==
      /\ \A q \in Owners : q # o => pc'[q] = pc[q] /\ unit'[q] = unit[q]
      /\ pc'[o] = "cleanup" => state'[unit'[o]] = "committed"
      /\ \A u \in cleaned' : u \in cleaned \/ (pc[o] = "cleanup" /\ u = unit[o])
<1>2. ASSUME NEW o \in Owners, Works(o) PROVE CleanInv'
  <2>1. \A u \in cleaned' : u \in committed
    <3>1. \A u \in cleaned : u \in committed
      BY DEF CleanInv, CleanedIsCommitted, TypeOK
    <3>2. pc[o] = "cleanup" => unit[o] \in committed
      BY DEF CleanInv, TypeOK
    <3>3. QED BY <1>2, <3>1, <3>2
  <2>2. ASSUME NEW q \in Owners, pc'[q] = "cleanup" PROVE state'[unit'[q]] = "committed"
    <3>1. CASE q = o
      BY <1>2, <2>2, <3>1
    <3>2. CASE q # o
      <4>1. unit'[q] = unit[q] /\ pc[q] = "cleanup"
        BY <1>2, <2>2, <3>2
      <4>2. unit[q] \in committed
        BY <4>1 DEF CleanInv, TypeOK
      <4>3. QED BY <1>1, <4>1, <4>2
    <3>3. QED BY <3>1, <3>2
  <2>3. QED BY <1>1, <2>1, <2>2 DEF CleanInv, CleanedIsCommitted
<1>3. ASSUME NEW o \in Owners, Run(o) PROVE CleanInv'
  <2>1. CASE Commit(o)
    <3>1. Works(o)
      BY <2>1 DEF Commit, Record, TypeOK
    <3>2. QED BY <1>2, <3>1
  <2>2. CASE Cleanup(o)
    <3>1. Works(o)
      BY <2>2 DEF Cleanup, TypeOK
    <3>2. QED BY <1>2, <3>1
  <2>3. CASE \/ Reconcile(o) \/ Adopt(o) \/ Announce(o) \/ Produce(o) \/ Examine(o)
             \/ Validate(o) \/ Promote(o) \/ Unwind(o)
    <3>1. Works(o)
      BY <2>3 DEF Reconcile, Adopt, Announce, Produce, Examine, Validate, Promote,
                  Unwind, Record, TypeOK
    <3>2. QED BY <1>2, <3>1
  <2>4. QED BY <1>3, <2>1, <2>2, <2>3 DEF Run
<1>4. ASSUME NEW o \in Owners, Take(o) \/ Drop(o) \/ Crash(o) PROVE CleanInv'
  <2>1. /\ unit' = unit /\ cleaned' = cleaned
        /\ \A q \in Owners : pc'[q] = pc[q] \/ pc'[q] = "idle"
    BY <1>4 DEF Take, Drop, Crash, TypeOK
  <2>2. \A u \in cleaned' : u \in committed
    BY <2>1 DEF CleanInv, CleanedIsCommitted, TypeOK
  <2>3. \A q \in Owners : pc'[q] = "cleanup" => unit'[q] \in committed
    BY <2>1 DEF CleanInv, TypeOK
  <2>4. QED BY <1>1, <2>2, <2>3 DEF CleanInv, CleanedIsCommitted
<1>5. ASSUME NEW o \in Owners, NEW u \in Units, Begin(o, u) PROVE CleanInv'
  <2>1. Works(o)
    BY <1>5 DEF Begin, TypeOK
  <2>2. QED BY <1>2, <2>1
<1>6. ASSUME NEW u \in Units, Delete(u) PROVE CleanInv'
  BY <1>6 DEF Delete, CleanInv, CleanedIsCommitted
<1>7. CASE UNCHANGED vars
  BY <1>7 DEF vars, CleanInv, CleanedIsCommitted
<1>8. QED
  BY <1>3, <1>4, <1>5, <1>6, <1>7 DEF Next

(* Inputs are cleaned up only once the unit is recorded as committed, and it *)
(* is never taken back afterwards, not even by a second owner.               *)
THEOREM CleanedIsCommittedHolds == Spec => []CleanedIsCommitted
<1>1. Init => CleanInv
  BY DEF Init, CleanInv, CleanedIsCommitted, At
<1>2. TypeOK /\ GoodInv /\ CleanInv /\ [Next]_vars => CleanInv'
  BY CleanStep
<1>3. CleanInv => CleanedIsCommitted
  BY DEF CleanInv
<1>4. QED
  BY <1>1, <1>2, <1>3, StageTyping, GoodInvariant, PTL DEF Spec

-----------------------------------------------------------------------------
(* With one owner at a time, whatever is deleted: a unit on its way to its   *)
(* final name has none yet, and a final file belongs to a unit that was last *)
(* recorded as validating or committed.                                      *)
OnTheWay == {"announce", "produce", "examine", "validate", "promote"}

AloneInv ==
    /\ \A o, q \in owners : o = q
    /\ \A o \in Owners : ~At(o, "idle") => o \in owners
    /\ \A u \in Units : final[u] # "absent" => state[u] \in {"validating", "committed"}
    /\ \A o \in Owners :
           /\ pc[o] \in OnTheWay => final[unit[o]] = "absent" /\ state[unit[o]] # "committed"
           /\ pc[o] \in {"validate", "promote"} => state[unit[o]] = "validating"

(* Among exclusive owners one is at work, on a unit that has no final file yet.*)
LEMMA AloneStep ==
    ASSUME Exclusive, TypeOK, AloneInv, [Next]_vars
    PROVE  AloneInv'
<1> USE DEF Goto, At, OnTheWay
<1>1. ASSUME NEW o \in Owners, ~At(o, "idle"), NEW q \in Owners \ {o}
      PROVE  At(q, "idle")
  BY <1>1 DEF AloneInv
<1>2. ASSUME NEW o \in Owners, ~At(o, "idle"), UNCHANGED <<owners, unit>>,
             NEW l, Goto(o, l),
             \A u \in Units : final'[u] # "absent" => state'[u] \in {"validating", "committed"},
             l \in OnTheWay => final'[unit[o]] = "absent" /\ state'[unit[o]] # "committed",
             l \in {"validate", "promote"} => state'[unit[o]] = "validating"
      PROVE  AloneInv'
  BY <1>1, <1>2 DEF AloneInv, TypeOK
<1>3. ASSUME NEW o \in Owners, Run(o) PROVE AloneInv'
  <2>1. CASE Reconcile(o)
    <3>1. PICK l \in {"announce", "adopt", "idle"} :
              Goto(o, l) /\ (l = "announce" => final[unit[o]] = "absent" /\ state[unit[o]] # "committed")
      BY <2>1 DEF Reconcile
    <3>2. QED BY <1>2, <2>1, <3>1 DEF Reconcile, AloneInv
  <2>2. ASSUME NEW l, NEW r, Record(o, "committed", l, r), ~At(o, "idle"),
               {l, r} \cap OnTheWay = {}, UNCHANGED <<owners, final, unit>>
        PROVE  AloneInv'
    <3>1. \A u \in Units : final'[u] # "absent" => state'[u] \in {"validating", "committed"}
      BY <2>2 DEF Record, AloneInv, TypeOK
    <3>2. Goto(o, l) \/ Goto(o, r)
      BY <2>2 DEF Record
    <3>3. QED BY <1>2, <2>2, <3>1, <3>2
  <2>3. ASSUME NEW s, NEW l, NEW r, Record(o, s, l, r), ~At(o, "idle"), s # "committed",
               l \notin {"validate", "promote"} \/ s = "validating", r \notin OnTheWay,
               final[unit[o]] = "absent", state[unit[o]] # "committed",
               UNCHANGED <<owners, final, unit>>
        PROVE  AloneInv'
    <3>1. \A u \in Units : final'[u] # "absent" => state'[u] \in {"validating", "committed"}
      BY <2>3 DEF Record, AloneInv, TypeOK
    <3>2. (Goto(o, l) /\ state'[unit[o]] = s) \/ Goto(o, r)
      BY <2>3 DEF Record, TypeOK
    <3>3. final'[unit[o]] = "absent" /\ (state'[unit[o]] # "committed")
      BY <2>3 DEF Record, TypeOK
    <3>4. CASE Goto(o, l) /\ state'[unit[o]] = s
      BY <1>2, <2>3, <3>1, <3>3, <3>4
    <3>5. CASE Goto(o, r)
      BY <1>2, <2>3, <3>1, <3>5
    <3>6. QED BY <3>2, <3>4, <3>5
  <2>4. CASE Adopt(o)
    BY <2>2, <2>4 DEF Adopt
  <2>5. CASE Announce(o)
    BY <2>3, <2>5 DEF Announce, AloneInv
  <2>6. CASE Produce(o)
    BY <1>2, <2>6 DEF Produce, AloneInv
  <2>7. CASE Examine(o)
    <3>1. CASE partial[o] = "absent"
      BY <1>2, <2>7, <3>1 DEF Examine, AloneInv
    <3>2. CASE partial[o] # "absent"
      BY <2>3, <2>7, <3>2 DEF Examine, AloneInv
    <3>3. QED BY <3>1, <3>2
  <2>8. CASE Validate(o)
    <3>1. PICK l \in {"promote", "unwind"} : Goto(o, l)
      BY <2>8 DEF Validate
    <3>2. QED BY <1>2, <2>8, <3>1 DEF Validate, AloneInv
  <2>9. CASE Promote(o)
    <3>1. PICK l \in {"commit", "unwind"} : Goto(o, l)
      BY <2>9 DEF Promote
    <3>2. \A u \in Units : final'[u] # "absent" => state'[u] \in {"validating", "committed"}
      BY <2>9 DEF Promote, AloneInv, TypeOK
    <3>3. QED BY <1>2, <2>9, <3>1, <3>2 DEF Promote
  <2>10. CASE Commit(o)
    BY <2>2, <2>10 DEF Commit
  <2>11. CASE Cleanup(o)
    <3>1. PICK l \in {"idle", "unwind"} : Goto(o, l)
      BY <2>11 DEF Cleanup
    <3>2. QED BY <1>2, <2>11, <3>1 DEF Cleanup, AloneInv
  <2>12. CASE Unwind(o)
    <3>1. CASE final[unit[o]] = "absent" /\ state[unit[o]] \in {"producing", "validating"}
      BY <2>3, <2>12, <3>1 DEF Unwind
    <3>2. CASE ~(final[unit[o]] = "absent" /\ state[unit[o]] \in {"producing", "validating"})
      BY <1>2, <2>12, <3>2 DEF Unwind, AloneInv
    <3>3. QED BY <3>1, <3>2
  <2>13. QED
    BY <1>3, <2>1, <2>4, <2>5, <2>6, <2>7, <2>8, <2>9, <2>10, <2>11, <2>12 DEF Run
<1>4. ASSUME NEW o \in Owners, Take(o) \/ Drop(o) \/ Crash(o) PROVE AloneInv'
  BY <1>4 DEF Take, Drop, Crash, AloneInv, TypeOK
<1>5. ASSUME NEW o \in Owners, NEW u \in Units, Begin(o, u) PROVE AloneInv'
  BY <1>5 DEF Begin, AloneInv, TypeOK
<1>6. ASSUME NEW u \in Units, Delete(u) PROVE AloneInv'
  BY <1>6 DEF Delete, AloneInv, TypeOK
<1>7. CASE UNCHANGED vars
  BY <1>7 DEF vars, AloneInv
<1>8. QED BY <1>3, <1>4, <1>5, <1>6, <1>7 DEF Next

(* Among exclusive owners, in every behaviour one is at work, on a unit      *)
(* without a final file.                                                     *)
LEMMA AloneInvariant == ASSUME Exclusive PROVE Spec => []AloneInv
<1>1. Init => AloneInv
  BY DEF Init, AloneInv, At, OnTheWay
<1>2. TypeOK /\ AloneInv /\ [Next]_vars => AloneInv'
  BY AloneStep
<1>3. QED
  BY <1>1, <1>2, StageTyping, PTL DEF Spec

(* A final file that no checkpoint covers can always be adopted.             *)
THEOREM AdoptableHolds == ASSUME Exclusive PROVE Spec => []Adoptable
<1>1. AloneInv => Adoptable
  <2>1. "committed" \in Recordable("validating") /\ "committed" \in Recordable("committed")
    BY RecordableStates
  <2>2. QED BY <2>1 DEF AloneInv, Adoptable
<1>2. QED
  BY <1>1, AloneInvariant, PTL

(* The producer never runs for a unit that is promoted or committed.         *)
THEOREM ProduceOnlyMissingHolds == ASSUME Exclusive PROVE Spec => ProduceOnlyMissing
<1>1. AloneInv /\ [Next]_vars
      => [\A o \in Owners : Produce(o)
              => final[unit[o]] = "absent" /\ state[unit[o]] # "committed"]_vars
  BY DEF AloneInv, Produce, At, OnTheWay
<1>2. QED
  BY <1>1, AloneInvariant, PTL DEF Spec, ProduceOnlyMissing
=============================================================================
