---------------------------- MODULE JobLeaseProofs ----------------------------
(* Theorems about JobLease, for any set of processes.                        *)
EXTENDS JobLease, TLAPS

(* Every file and every program counter keeps its shape, whatever crashes,   *)
(* ages or is stolen.                                                        *)
THEOREM Typing == Spec => []TypeOK
<1> USE LeaseAssumption DEF Goto
<1>1. Init => TypeOK
  BY DEF Init, TypeOK, Ops, GuardFile, LeaseFile
<1>2. TypeOK /\ [Next]_vars => TypeOK'
  <2> SUFFICES ASSUME TypeOK, [Next]_vars PROVE TypeOK'
    OBVIOUS
  <2> USE DEF TypeOK, Entering, Critical, Body, Leaving
  <2>1. ASSUME NEW w \in Workers, Enter(w) PROVE TypeOK'
    <3>1. CASE OpenGuard(w)
      <4>1. [by |-> w, written |-> FALSE, fresh |-> TRUE] \in GuardFile
        BY DEF GuardFile
      <4>2. QED BY <3>1, <4>1 DEF OpenGuard
    <3>2. CASE WriteGuard(w)
      <4>1. CASE guard # NoFile /\ guard.by = w
        <5>1. guard' = [guard EXCEPT !.written = TRUE] /\ guard \in GuardFile
          BY <3>2, <4>1 DEF WriteGuard
        <5>2. guard' \in GuardFile
          BY <5>1 DEF GuardFile
        <5>3. QED BY <3>2, <5>2 DEF WriteGuard
      <4>2. CASE ~(guard # NoFile /\ guard.by = w)
        BY <3>2, <4>2 DEF WriteGuard
      <4>3. QED BY <4>1, <4>2
    <3>3. CASE WriteGuardFails(w) BY <3>3 DEF WriteGuardFails
    <3>4. CASE JudgeGuard(w)      BY <3>4 DEF JudgeGuard
    <3>5. CASE GuardBusy(w)       BY <3>5 DEF GuardBusy
    <3>6. CASE StealGuard(w)      BY <3>6 DEF StealGuard
    <3>7. CASE StealGuardFails(w) BY <3>7 DEF StealGuardFails
    <3>8. QED BY <2>1, <3>1, <3>2, <3>3, <3>4, <3>5, <3>6, <3>7 DEF Enter
  <2>2. ASSUME NEW w \in Workers, Acquire(w) PROVE TypeOK'
    <3>1. CASE ReadForAcquire(w) BY <3>1 DEF ReadForAcquire
    <3>2. CASE EvictLease(w)     BY <3>2 DEF EvictLease
    <3>3. CASE CreateLease(w)
      <4>1. [by |-> w, written |-> FALSE, fresh |-> TRUE, kids |-> FALSE] \in LeaseFile
        BY DEF LeaseFile
      <4>2. QED BY <3>3, <4>1 DEF CreateLease
    <3>4. CASE FillLease(w)
      <4>1. CASE lease # NoFile /\ lease.by = w
        <5>1. lease' = [lease EXCEPT !.written = TRUE] /\ lease \in LeaseFile
          BY <3>4, <4>1 DEF FillLease
        <5>2. lease' \in LeaseFile
          BY <5>1 DEF LeaseFile
        <5>3. QED BY <3>4, <5>2 DEF FillLease
      <4>2. CASE ~(lease # NoFile /\ lease.by = w)
        BY <3>4, <4>2 DEF FillLease
      <4>3. QED BY <4>1, <4>2
    <3>5. CASE FillLeaseFails(w) BY <3>5 DEF FillLeaseFails
    <3>6. QED BY <2>2, <3>1, <3>2, <3>3, <3>4, <3>5 DEF Acquire
  <2>3. ASSUME NEW w \in Workers, Maintain(w) PROVE TypeOK'
    <3>1. CASE CheckOwned(w)
      <4>1. holds' \in [Workers -> BOOLEAN]
        BY <3>1, Zenon DEF CheckOwned
      <4>2. pc' \in [Workers -> {"idle"} \cup Entering \cup Critical]
        BY <3>1 DEF CheckOwned
      <4>3. QED BY <3>1, <4>1, <4>2 DEF CheckOwned
    <3>2. CASE RenewLease(w)
      <4>1. \A k \in BOOLEAN :
                [by |-> w, written |-> TRUE, fresh |-> TRUE, kids |-> k] \in LeaseFile
        BY DEF LeaseFile
      <4>2. child[w] \in BOOLEAN
        OBVIOUS
      <4>3. QED BY <3>2, <4>1, <4>2 DEF RenewLease
    <3>3. CASE RetireLease(w) BY <3>3 DEF RetireLease
    <3>4. QED BY <2>3, <3>1, <3>2, <3>3 DEF Maintain
  <2>4. ASSUME NEW w \in Workers, Leave(w) PROVE TypeOK'
    BY <2>4 DEF Leave, CheckGuard, UnlinkGuard, UnlinkGuardFails
  <2>5. ASSUME NEW w \in Workers, NEW o \in Ops, Call(w, o) PROVE TypeOK'
    BY <2>5 DEF Call
  <2>6. CASE Environment
    <3>1. ASSUME NEW w \in Workers, Start(w)      PROVE TypeOK' BY <3>1 DEF Start
    <3>2. ASSUME NEW w \in Workers, SpawnChild(w) PROVE TypeOK' BY <3>2 DEF SpawnChild
    <3>3. ASSUME NEW w \in Workers, ChildExits(w) PROVE TypeOK'
      BY <3>3 DEF ChildExits, LeaseFile
    <3>4. ASSUME NEW w \in Workers, Crash(w)      PROVE TypeOK' BY <3>4 DEF Crash
    <3>5. CASE GuardAges BY <3>5 DEF GuardAges, GuardFile
    <3>6. CASE LeaseAges BY <3>6 DEF LeaseAges, LeaseFile
    <3>7. QED BY <2>6, <3>1, <3>2, <3>3, <3>4, <3>5, <3>6 DEF Environment
  <2>7. ASSUME NEW w \in Workers, ChangeLeaseFails(w) PROVE TypeOK'
    BY <2>7 DEF ChangeLeaseFails
  <2>8. CASE UNCHANGED vars
    BY <2>8 DEF vars
  <2>9. QED
    BY <2>1, <2>2, <2>3, <2>4, <2>5, <2>6, <2>7, <2>8 DEF Next, Step
<1>3. QED
  BY <1>1, <1>2, PTL DEF Spec

-----------------------------------------------------------------------------
(* The fault model under which a lease is exclusive: nobody crashes, all     *)
(* processes share a host and can read each other's start token.  Disks may  *)
(* fail, processes be slow and guards be stolen or left behind.              *)
Calm == /\ MayCrash = {}
        /\ Tokened = Workers
        /\ \A v, w \in Workers : SameHost(v, w)

(* Why: a lease then always belongs to a running process, so it is never     *)
(* judged stale and nobody gets to evict it; and a process between its check *)
(* and its write of the lease has it, guard or no guard.                     *)
CalmInv ==
    /\ OwnerHasLease
    /\ \A w \in Workers : status[w] # "dead" /\ pc[w] # "evict"
    /\ lease # NoFile => Up(lease.by)
    /\ \A w \in Workers : pc[w] = "fill" => lease # NoFile /\ lease.by = w /\ ~lease.written
    /\ \A w \in Workers : pc[w] \in {"renew", "retire"} => Owned(w)

(* What a worker writes is a lease.                                          *)
LEMMA LeaseRecord ==
    ASSUME NEW w \in Workers, NEW x \in BOOLEAN, NEW y \in BOOLEAN, NEW z \in BOOLEAN
    PROVE  [by |-> w, written |-> x, fresh |-> y, kids |-> z] \in LeaseFile
BY DEF LeaseFile

(* A lease is not the absence of one.                                        *)
LEMMA LeaseIsAFile == ASSUME NEW r \in LeaseFile PROVE r # NoFile
BY LeaseAssumption DEF LeaseFile

(* Writing one field of a lease leaves it a lease of the same worker.        *)
LEMMA LeaseEdit ==
    ASSUME NEW r \in LeaseFile, NEW x \in BOOLEAN
    PROVE  /\ [r EXCEPT !.written = x] \in LeaseFile
           /\ [r EXCEPT !.written = x].by = r.by
           /\ [r EXCEPT !.written = x].written = x
           /\ [r EXCEPT !.fresh = x] \in LeaseFile
           /\ [r EXCEPT !.fresh = x].by = r.by
           /\ [r EXCEPT !.fresh = x].written = r.written
           /\ [r EXCEPT !.kids = x] \in LeaseFile
           /\ [r EXCEPT !.kids = x].by = r.by
           /\ [r EXCEPT !.kids = x].written = r.written
BY DEF LeaseFile

(* The lease of a running process is not stale for anybody.                  *)
LEMMA LiveNotStale ==
    ASSUME Calm, TypeOK, lease # NoFile, Up(lease.by), NEW w \in Workers
    PROVE  ~LeaseStale(w)
<1>1. lease.by \in Workers
  BY DEF TypeOK, LeaseFile
<1>2. lease.by \in RunningAs(lease.by)
  BY <1>1 DEF RunningAs, SameHost
<1>3. SameProcess(w, lease.by)
  BY <1>1, <1>2 DEF SameProcess, Calm
<1>4. SameHost(lease.by, w)
  BY <1>1 DEF Calm
<1>5. QED
  BY <1>3, <1>4 DEF LeaseStale

(* The step changes neither whose the lease is nor whether it is readable.   *)
SameLease == /\ lease' = NoFile <=> lease = NoFile
             /\ lease # NoFile => lease'.by = lease.by /\ lease'.written = lease.written

(* The invariant of a calm host is inductive: no owner is judged dead, so no *)
(* lease is taken away.                                                      *)
LEMMA CalmStep ==
    ASSUME Calm, TypeOK, TypeOK', CalmInv, [Next]_vars
    PROVE  CalmInv'
<1> USE DEF CalmInv, OwnerHasLease, Goto, At, Up, Owned
<1>1. ASSUME NEW w \in Workers, Enter(w) PROVE CalmInv'
  BY <1>1 DEF Enter, OpenGuard, WriteGuard, WriteGuardFails, JudgeGuard, GuardBusy,
              StealGuard, StealGuardFails, TypeOK
<1>2. ASSUME NEW w \in Workers, Acquire(w) PROVE CalmInv'
  <2>1. CASE ReadForAcquire(w)
    <3>1. lease # NoFile => ~LeaseStale(w)
      BY LiveNotStale
    <3>2. pc' = [pc EXCEPT ![w] = "create"] \/ pc' = [pc EXCEPT ![w] = "check"]
      BY <2>1, <3>1 DEF ReadForAcquire
    <3>3. QED BY <2>1, <3>2 DEF ReadForAcquire, TypeOK
  <2>2. CASE EvictLease(w)
    BY <2>2 DEF EvictLease
  <2>3. CASE CreateLease(w)
    <3>1. CASE lease = NoFile
      <4>1. lease' = [by |-> w, written |-> FALSE, fresh |-> TRUE, kids |-> FALSE]
            /\ pc' = [pc EXCEPT ![w] = "fill"]
        BY <2>3, <3>1 DEF CreateLease
      <4>2. lease' # NoFile
        BY <4>1, LeaseRecord, LeaseIsAFile
      <4>3. lease'.by = w /\ ~lease'.written
        BY <4>1
      <4>4. \A v \in Workers : pc'[v] = IF v = w THEN "fill" ELSE pc[v]
        BY <4>1 DEF TypeOK
      <4>5. \A v \in Workers : ~holds[v] /\ pc[v] \notin {"fill", "renew", "retire"}
        BY <3>1
      <4>6. status[w] = "up" /\ status' = status /\ holds' = holds
        BY <2>3 DEF CreateLease
      <4>7. QED BY <4>2, <4>3, <4>4, <4>5, <4>6
    <3>2. CASE lease # NoFile
      BY <2>3, <3>2 DEF CreateLease, TypeOK
    <3>3. QED BY <3>1, <3>2
  <2>4. CASE FillLease(w)
    <3>1. lease # NoFile /\ lease.by = w /\ ~lease.written /\ lease \in LeaseFile
      BY <2>4 DEF FillLease, TypeOK
    <3>2. lease' = [lease EXCEPT !.written = TRUE]
      BY <2>4, <3>1 DEF FillLease
    <3>3. lease' # NoFile /\ lease'.by = w /\ lease'.written
      BY <3>1, <3>2, LeaseEdit, LeaseIsAFile
    <3>4. \A v \in Workers : ~holds[v]
      BY <3>1
    <3>5. \A v \in Workers : pc[v] \notin {"renew", "retire"} /\ (pc[v] = "fill" => v = w)
      BY <3>1
    <3>6. QED BY <2>4, <3>1, <3>3, <3>4, <3>5 DEF FillLease, TypeOK
  <2>5. CASE FillLeaseFails(w)
    BY <2>5 DEF FillLeaseFails, TypeOK
  <2>6. QED BY <1>2, <2>1, <2>2, <2>3, <2>4, <2>5 DEF Acquire
<1>3. ASSUME NEW w \in Workers, Maintain(w) PROVE CalmInv'
  <2>1. CASE CheckOwned(w)
    <3>1. \A v \in Workers : holds'[v] => holds[v]
      BY <2>1, Zenon DEF CheckOwned, TypeOK
    <3>2. \/ pc' = [pc EXCEPT ![w] = "check"]
          \/ Owned(w) /\ pc' = [pc EXCEPT ![w] = "renew"]
          \/ Owned(w) /\ pc' = [pc EXCEPT ![w] = "retire"]
      BY <2>1 DEF CheckOwned
    <3>3. status' = status /\ lease' = lease
      BY <2>1 DEF CheckOwned
    <3>4. QED BY <3>1, <3>2, <3>3 DEF TypeOK
  <2>2. CASE RenewLease(w)
    <3>1. PICK k \in {FALSE, child[w]} :
              lease' = [by |-> w, written |-> TRUE, fresh |-> TRUE, kids |-> k]
      BY <2>2, Zenon DEF RenewLease
    <3>2. lease' # NoFile /\ lease'.by = w /\ lease'.written
      <4>1. k \in BOOLEAN
        BY DEF TypeOK
      <4>2. QED BY <3>1, <4>1, LeaseRecord, LeaseIsAFile
    <3>3. QED BY <2>2, <3>2 DEF RenewLease, TypeOK
  <2>3. CASE RetireLease(w)
    BY <2>3 DEF RetireLease, TypeOK
  <2>4. QED BY <1>3, <2>1, <2>2, <2>3 DEF Maintain
<1>4. ASSUME NEW w \in Workers, Leave(w) PROVE CalmInv'
  BY <1>4 DEF Leave, CheckGuard, UnlinkGuard, UnlinkGuardFails, TypeOK
<1>5. ASSUME NEW w \in Workers, NEW o \in Ops, Call(w, o) PROVE CalmInv'
  BY <1>5 DEF Call, TypeOK
<1>6. CASE Environment
  <2>1. ASSUME NEW w \in Workers, Start(w) PROVE CalmInv'
    BY <2>1 DEF Start, TypeOK, LeaseFile
  <2>2. ASSUME NEW w \in Workers, SpawnChild(w) PROVE CalmInv'
    BY <2>2 DEF SpawnChild
  <2>3. ASSUME NEW w \in Workers, ChildExits(w) PROVE CalmInv'
    <3>1. SameLease
      BY <2>3, LeaseEdit, LeaseIsAFile DEF ChildExits, TypeOK, SameLease
    <3>2. QED BY <2>3, <3>1 DEF ChildExits, SameLease
  <2>4. ASSUME NEW w \in Workers, Crash(w) PROVE CalmInv'
    BY <2>4 DEF Crash, Calm
  <2>5. CASE GuardAges
    BY <2>5 DEF GuardAges
  <2>6. CASE LeaseAges
    <3>1. SameLease
      BY <2>6, LeaseEdit, LeaseIsAFile DEF LeaseAges, TypeOK, SameLease
    <3>2. QED BY <2>6, <3>1 DEF LeaseAges, SameLease
  <2>7. QED BY <1>6, <2>1, <2>2, <2>3, <2>4, <2>5, <2>6 DEF Environment
<1>7. ASSUME NEW w \in Workers, ChangeLeaseFails(w) PROVE CalmInv'
  BY <1>7 DEF ChangeLeaseFails, TypeOK
<1>8. CASE UNCHANGED vars
  BY <1>8 DEF vars
<1>9. QED
  BY <1>1, <1>2, <1>3, <1>4, <1>5, <1>6, <1>7, <1>8 DEF Next, Step

(* On a calm host no owner is judged dead, in any behaviour.                 *)
THEOREM CalmInvariant == ASSUME Calm PROVE Spec => []CalmInv
<1>1. Init => CalmInv
  BY DEF Init, CalmInv, OwnerHasLease
<1>2. TypeOK /\ TypeOK' /\ CalmInv /\ [Next]_vars => CalmInv'
  BY CalmStep
<1>3. QED
  BY <1>1, <1>2, Typing, PTL DEF Spec

(* In a calm world whoever believes it owns the job is the one lease.json    *)
(* names, even when two processes get past the guard at once.                *)
THEOREM OwnerHasLeaseHolds == ASSUME Calm PROVE Spec => []OwnerHasLease
<1>1. CalmInv => OwnerHasLease
  BY DEF CalmInv
<1>2. QED
  BY <1>1, CalmInvariant, PTL

(* In a calm world the lease keeps its promise: one owner at a time, and a   *)
(* moment without any between two.                                           *)
THEOREM LeaseImplementsOwnership == ASSUME Calm PROVE Spec => OwnershipHolds
<1> DEFINE owners == {w \in Workers : holds[w]}
<1>1. Init => Promise!Init
  BY DEF Init, Promise!Init
<1>2. TypeOK /\ CalmInv /\ [Next]_vars => [Promise!Next]_owners
  <2> SUFFICES ASSUME TypeOK, CalmInv, [Next]_vars
               PROVE  owners' = owners \/ Promise!Next
    OBVIOUS
  <2>1. ASSUME holds' = holds PROVE owners' = owners
    BY <2>1
  <2>2. ASSUME NEW w \in Workers, FillLease(w) PROVE Promise!Next
    <3>1. \A v \in Workers : ~holds[v]
      BY <2>2 DEF FillLease, At, CalmInv, OwnerHasLease
    <3>2. holds' = [holds EXCEPT ![w] = TRUE]
      BY <2>2 DEF FillLease
    <3>3. owners = {} /\ owners' = {w}
      BY <3>1, <3>2, Zenon DEF TypeOK
    <3>4. QED BY <3>3 DEF Promise!Next, Promise!Take
  <2>3. ASSUME NEW w \in Workers, CheckOwned(w) PROVE owners' = owners
    <3>1. CASE Owned(w)
      BY <2>3, <3>1 DEF CheckOwned
    <3>2. CASE ~Owned(w)
      <4>1. ~holds[w]
        BY <3>2 DEF CalmInv, OwnerHasLease, Owned
      <4>2. holds' = [holds EXCEPT ![w] = FALSE]
        BY <2>3, <3>2, <4>1, Zenon DEF CheckOwned
      <4>3. QED BY <4>1, <4>2, Zenon DEF TypeOK
    <3>3. QED BY <3>1, <3>2
  <2>4. ASSUME NEW w \in Workers, RetireLease(w) PROVE owners' = owners \/ Promise!Next
    <3>1. holds' = [holds EXCEPT ![w] = FALSE]
      BY <2>4 DEF RetireLease
    <3>2. \A v \in Workers : holds[v] => v = w
      BY <2>4 DEF RetireLease, At, CalmInv, OwnerHasLease, Owned
    <3>3. owners' = {}
      BY <3>1, <3>2, Zenon DEF TypeOK
    <3>4. QED BY <3>3 DEF Promise!Next, Promise!Drop
  <2>5. ASSUME NEW w \in Workers, Crash(w) PROVE owners' = owners
    BY <2>5 DEF Crash, Calm
  <2>6. ASSUME NEW w \in Workers,
               \/ Enter(w) \/ Leave(w) \/ RenewLease(w) \/ ChangeLeaseFails(w)
               \/ ReadForAcquire(w) \/ EvictLease(w) \/ CreateLease(w) \/ FillLeaseFails(w)
        PROVE  holds' = holds
    BY <2>6 DEF Enter, OpenGuard, WriteGuard, WriteGuardFails, JudgeGuard, GuardBusy,
                StealGuard, StealGuardFails, ChangeLeaseFails, Leave, CheckGuard, UnlinkGuard,
                UnlinkGuardFails,
                RenewLease, ReadForAcquire, EvictLease, CreateLease, FillLeaseFails
  <2>7. ASSUME NEW w \in Workers, \/ Start(w) \/ SpawnChild(w) \/ ChildExits(w)
                                  \/ \E o \in Ops : Call(w, o)
        PROVE  holds' = holds
    BY <2>7 DEF Start, SpawnChild, ChildExits, Call
  <2>8. ASSUME GuardAges \/ LeaseAges \/ UNCHANGED vars PROVE holds' = holds
    BY <2>8 DEF GuardAges, LeaseAges, vars
  <2>9. QED
    BY <2>1, <2>2, <2>3, <2>4, <2>5, <2>6, <2>7, <2>8
       DEF Next, Step, Acquire, Maintain, Environment
<1>3. QED
  BY <1>1, <1>2, Typing, CalmInvariant, PTL DEF Spec, OwnershipHolds, Promise!Spec
-----------------------------------------------------------------------------
(* The one way in which crashes break the exclusion on one host: a guard is  *)
(* renamed away although the process that made it runs (job_lease.py:296).   *)
StolenFromTheDead ==
    [][\A w \in Workers : StealGuard(w) /\ guard # NoFile => ~Up(guard.by)]_vars

OneMachine == Tokened = Workers /\ \A v, w \in Workers : SameHost(v, w)

(* Why: then a process inside the guard is the one the guard names, so no    *)
(* other changes the lease between its judgement and its write.              *)
GuardedInv ==
    /\ \A w \in Workers : ~Up(w) => pc[w] = "idle" /\ ~holds[w]
    /\ \A w \in Workers : pc[w] \in Critical \cup {"write"} => guard # NoFile /\ guard.by = w
    /\ OwnerHasLease
    /\ lease # NoFile => status[lease.by] # "new"
    /\ \A w \in Workers : pc[w] = "fill" => lease # NoFile /\ lease.by = w /\ ~lease.written
    /\ \A w \in Workers : pc[w] \in {"renew", "retire"} => Owned(w)
    /\ \A w \in Workers : pc[w] = "evict" =>
          lease # NoFile /\ ~Up(lease.by) /\ ~lease.fresh /\ ~lease.kids

(* A guard is not the absence of one, and editing it leaves it its maker's.  *)
LEMMA GuardIsAFile == ASSUME NEW r \in GuardFile PROVE r # NoFile
BY LeaseAssumption DEF GuardFile

(* Writing one field of a guard leaves it a guard of the same process.       *)
LEMMA GuardEdit ==
    ASSUME NEW r \in GuardFile, NEW x \in BOOLEAN
    PROVE  /\ [r EXCEPT !.written = x] \in GuardFile /\ [r EXCEPT !.written = x].by = r.by
           /\ [r EXCEPT !.fresh = x] \in GuardFile /\ [r EXCEPT !.fresh = x].by = r.by
BY DEF GuardFile

(* A lease judged stale is one of a process that does not run.               *)
LEMMA DeadIfStale ==
    ASSUME OneMachine, TypeOK, lease # NoFile, NEW w \in Workers, LeaseStale(w)
    PROVE  ~Up(lease.by)
<1> SUFFICES ASSUME Up(lease.by) PROVE FALSE
  OBVIOUS
<1>1. lease.by \in Workers
  BY DEF TypeOK, LeaseFile
<1>2. lease.by \in RunningAs(lease.by)
  BY <1>1 DEF RunningAs, SameHost
<1>3. SameProcess(w, lease.by)
  BY <1>1, <1>2 DEF SameProcess, OneMachine
<1>4. SameHost(lease.by, w)
  BY <1>1 DEF OneMachine
<1>5. QED
  BY <1>3, <1>4 DEF LeaseStale

(* No step breaks it, provided that a guard it steals is a dead process's.   *)
LEMMA GuardedStep ==
    ASSUME OneMachine, TypeOK, TypeOK', GuardedInv, [Next]_vars,
           \A w \in Workers : StealGuard(w) /\ guard # NoFile => ~Up(guard.by)
    PROVE  GuardedInv'
<1> USE DEF GuardedInv, OwnerHasLease, Goto, At, Up, Owned, Critical, Body, Leaving
<1>1. ASSUME NEW w \in Workers, Enter(w) PROVE GuardedInv'
  <2>1. CASE OpenGuard(w)
    <3>1. CASE guard = NoFile
      <4>1. guard' = [by |-> w, written |-> FALSE, fresh |-> TRUE] /\ guard' # NoFile
        <5>1. guard' = [by |-> w, written |-> FALSE, fresh |-> TRUE]
          BY <2>1, <3>1 DEF OpenGuard
        <5>2. guard' \in GuardFile
          BY <5>1 DEF GuardFile
        <5>3. QED BY <5>1, <5>2, GuardIsAFile
      <4>2. QED BY <2>1, <3>1, <4>1 DEF OpenGuard, TypeOK
    <3>2. CASE guard # NoFile
      BY <2>1, <3>2 DEF OpenGuard, TypeOK
    <3>3. QED BY <3>1, <3>2
  <2>2. CASE WriteGuard(w)
    <3>1. guard # NoFile /\ guard.by = w /\ guard \in GuardFile
      BY <2>2 DEF WriteGuard, TypeOK
    <3>2. guard' = [guard EXCEPT !.written = TRUE]
      BY <2>2, <3>1 DEF WriteGuard
    <3>3. guard' # NoFile /\ guard'.by = w
      BY <3>1, <3>2, GuardEdit, GuardIsAFile
    <3>4. QED BY <2>2, <3>3 DEF WriteGuard, TypeOK
  <2>3. CASE WriteGuardFails(w)
    BY <2>3 DEF WriteGuardFails, TypeOK
  <2>4. CASE JudgeGuard(w) \/ GuardBusy(w) \/ StealGuardFails(w)
    BY <2>4 DEF JudgeGuard, GuardBusy, StealGuardFails, TypeOK
  <2>5. CASE StealGuard(w)
    <3>1. \A v \in Workers : pc[v] \notin Critical \cup {"write"}
      BY <2>5
    <3>2. QED BY <2>5, <3>1 DEF StealGuard, TypeOK
  <2>6. QED BY <1>1, <2>1, <2>2, <2>3, <2>4, <2>5 DEF Enter
<1>2. ASSUME NEW w \in Workers, Acquire(w) PROVE GuardedInv'
  <2>0. pc[w] \in Critical /\ Up(w) /\ guard' = guard /\ status' = status
        /\ \A v \in Workers : v # w => pc[v] \notin Critical \cup {"write"}
    BY <1>2 DEF Acquire, ReadForAcquire, EvictLease, CreateLease, FillLease, FillLeaseFails
  <2>1. CASE ReadForAcquire(w)
    <3>1. CASE pc' = [pc EXCEPT ![w] = "evict"]
      <4>1. lease # NoFile /\ lease.written /\ LeaseStale(w)
        BY <2>0, <2>1, <3>1 DEF ReadForAcquire, TypeOK
      <4>2. lease.by \in Workers /\ ~Up(lease.by)
        <5>1. lease.by \in Workers
          BY <4>1 DEF TypeOK, LeaseFile
        <5>2. QED BY <4>1, <5>1, DeadIfStale
      <4>3. ~lease.fresh /\ ~lease.kids
        BY <4>1, <4>2 DEF LeaseStale, OneMachine
      <4>4. QED BY <2>0, <2>1, <3>1, <4>1, <4>2, <4>3 DEF ReadForAcquire, TypeOK
    <3>2. CASE pc' = [pc EXCEPT ![w] = "create"] \/ pc' = [pc EXCEPT ![w] = "check"]
      BY <2>0, <2>1, <3>2 DEF ReadForAcquire, TypeOK
    <3>3. QED BY <2>1, <3>1, <3>2 DEF ReadForAcquire
  <2>2. CASE EvictLease(w)
    <3>1. \A v \in Workers : ~holds[v]
      BY <2>2 DEF EvictLease
    <3>2. QED BY <2>0, <2>2, <3>1 DEF EvictLease, TypeOK
  <2>3. CASE CreateLease(w)
    <3>1. CASE lease = NoFile
      <4>1. lease' = [by |-> w, written |-> FALSE, fresh |-> TRUE, kids |-> FALSE]
            /\ pc' = [pc EXCEPT ![w] = "fill"] /\ holds' = holds
        BY <2>3, <3>1 DEF CreateLease
      <4>2. lease' # NoFile
        BY <4>1, LeaseRecord, LeaseIsAFile
      <4>3. lease'.by = w /\ ~lease'.written
        BY <4>1
      <4>4. \A v \in Workers : ~holds[v]
        BY <3>1
      <4>5. QED BY <2>0, <4>1, <4>2, <4>3, <4>4 DEF TypeOK
    <3>2. CASE lease # NoFile
      BY <2>0, <2>3, <3>2 DEF CreateLease, TypeOK
    <3>3. QED BY <3>1, <3>2
  <2>4. CASE FillLease(w)
    <3>1. lease # NoFile /\ lease.by = w /\ ~lease.written /\ lease \in LeaseFile
      BY <2>4 DEF FillLease, TypeOK
    <3>2. lease' = [lease EXCEPT !.written = TRUE] /\ holds' = [holds EXCEPT ![w] = TRUE]
      BY <2>4, <3>1 DEF FillLease
    <3>3. lease' # NoFile /\ lease'.by = w /\ lease'.written
      BY <3>1, <3>2, LeaseEdit, LeaseIsAFile
    <3>4. \A v \in Workers : ~holds[v]
      BY <3>1
    <3>5. QED BY <2>0, <2>4, <3>1, <3>2, <3>3, <3>4 DEF FillLease, TypeOK
  <2>5. CASE FillLeaseFails(w)
    BY <2>0, <2>5 DEF FillLeaseFails, TypeOK
  <2>6. QED BY <1>2, <2>1, <2>2, <2>3, <2>4, <2>5 DEF Acquire
<1>3. ASSUME NEW w \in Workers, Maintain(w) PROVE GuardedInv'
  <2>0. pc[w] \in Critical /\ Up(w) /\ guard' = guard /\ status' = status
        /\ \A v \in Workers : v # w => pc[v] \notin Critical \cup {"write"}
    BY <1>3 DEF Maintain, CheckOwned, RenewLease, RetireLease
  <2>1. CASE CheckOwned(w)
    <3>1. \A v \in Workers : holds'[v] => holds[v]
      BY <2>1, Zenon DEF CheckOwned, TypeOK
    <3>2. \/ pc' = [pc EXCEPT ![w] = "check"]
          \/ Owned(w) /\ pc' = [pc EXCEPT ![w] = "renew"]
          \/ Owned(w) /\ pc' = [pc EXCEPT ![w] = "retire"]
      BY <2>1 DEF CheckOwned
    <3>3. lease' = lease
      BY <2>1 DEF CheckOwned
    <3>4. QED BY <2>0, <3>1, <3>2, <3>3 DEF TypeOK
  <2>2. CASE RenewLease(w)
    <3>1. PICK k \in {FALSE, child[w]} :
              lease' = [by |-> w, written |-> TRUE, fresh |-> TRUE, kids |-> k]
      BY <2>2, Zenon DEF RenewLease
    <3>2. lease' # NoFile /\ lease'.by = w /\ lease'.written
      <4>1. k \in BOOLEAN
        BY DEF TypeOK
      <4>2. QED BY <3>1, <4>1, LeaseRecord, LeaseIsAFile
    <3>3. QED BY <2>0, <2>2, <3>2 DEF RenewLease, TypeOK
  <2>3. CASE RetireLease(w)
    BY <2>0, <2>3 DEF RetireLease, TypeOK
  <2>4. QED BY <1>3, <2>1, <2>2, <2>3 DEF Maintain
<1>4. ASSUME NEW w \in Workers, Leave(w) PROVE GuardedInv'
  BY <1>4 DEF Leave, CheckGuard, UnlinkGuard, UnlinkGuardFails, TypeOK
<1>5. ASSUME NEW w \in Workers, NEW o \in Ops, Call(w, o) PROVE GuardedInv'
  BY <1>5 DEF Call, Idle, TypeOK
<1>6. CASE Environment
  <2>1. ASSUME NEW w \in Workers, Start(w) PROVE GuardedInv'
    BY <2>1 DEF Start, TypeOK, LeaseFile
  <2>2. ASSUME NEW w \in Workers, SpawnChild(w) PROVE GuardedInv'
    BY <2>2 DEF SpawnChild
  <2>3. ASSUME NEW w \in Workers, ChildExits(w) PROVE GuardedInv'
    <3>1. SameLease /\ (lease # NoFile => lease'.fresh = lease.fresh /\ (~lease.kids => ~lease'.kids))
      <4>1. CASE lease # NoFile /\ lease.by = w
        <5>1. lease' = [lease EXCEPT !.kids = FALSE] /\ lease \in LeaseFile
          BY <2>3, <4>1 DEF ChildExits, TypeOK
        <5>2. lease'.fresh = lease.fresh /\ ~lease'.kids
          BY <5>1 DEF LeaseFile
        <5>3. QED BY <4>1, <5>1, <5>2, LeaseEdit, LeaseIsAFile DEF SameLease
      <4>2. CASE ~(lease # NoFile /\ lease.by = w)
        BY <2>3, <4>2 DEF ChildExits, SameLease
      <4>3. QED BY <4>1, <4>2
    <3>2. QED BY <2>3, <3>1 DEF ChildExits, SameLease
  <2>4. ASSUME NEW w \in Workers, Crash(w) PROVE GuardedInv'
    BY <2>4 DEF Crash, TypeOK, LeaseFile
  <2>5. CASE GuardAges
    <3>1. guard # NoFile /\ guard \in GuardFile /\ guard' = [guard EXCEPT !.fresh = FALSE]
      BY <2>5 DEF GuardAges, TypeOK
    <3>2. guard' # NoFile /\ guard'.by = guard.by
      BY <3>1, GuardEdit, GuardIsAFile
    <3>3. QED BY <2>5, <3>2 DEF GuardAges
  <2>6. CASE LeaseAges
    <3>1. SameLease /\ lease'.kids = lease.kids /\ ~lease'.fresh
      <4>1. lease # NoFile /\ lease' = [lease EXCEPT !.fresh = FALSE] /\ lease \in LeaseFile
        BY <2>6 DEF LeaseAges, TypeOK
      <4>2. lease'.kids = lease.kids /\ ~lease'.fresh
        BY <4>1 DEF LeaseFile
      <4>3. QED BY <4>1, <4>2, LeaseEdit, LeaseIsAFile DEF SameLease
    <3>2. QED BY <2>6, <3>1 DEF LeaseAges, SameLease
  <2>7. QED BY <1>6, <2>1, <2>2, <2>3, <2>4, <2>5, <2>6 DEF Environment
<1>7. ASSUME NEW w \in Workers, ChangeLeaseFails(w) PROVE GuardedInv'
  BY <1>7 DEF ChangeLeaseFails, TypeOK
<1>8. CASE UNCHANGED vars
  BY <1>8 DEF vars
<1>9. QED
  BY <1>1, <1>2, <1>3, <1>4, <1>5, <1>6, <1>7, <1>8 DEF Next, Step

(* It holds in every behaviour that steals guards from the dead only.        *)
LEMMA GuardedHolds == ASSUME OneMachine PROVE Spec /\ StolenFromTheDead => []GuardedInv
<1>1. Init => GuardedInv
  BY DEF Init, GuardedInv, OwnerHasLease, Up, Critical, Body, Leaving
<1>2. TypeOK /\ TypeOK' /\ GuardedInv /\ [Next]_vars
      /\ [\A w \in Workers : StealGuard(w) /\ guard # NoFile => ~Up(guard.by)]_vars => GuardedInv'
  <2>1. CASE UNCHANGED vars
    BY <2>1 DEF vars, GuardedInv, OwnerHasLease, Up, Owned
  <2>2. QED BY <2>1, GuardedStep
<1>3. QED
  BY <1>1, <1>2, Typing, PTL DEF Spec, StolenFromTheDead

(* Whatever processes crash, writes fail and deletions are refused: as long  *)
(* as guards are stolen from the dead only, one process at a time owns the   *)
(* job, with a moment without any between two (RT-065).                      *)
THEOREM OwnershipThroughCrashes ==
    ASSUME OneMachine PROVE Spec /\ StolenFromTheDead => OwnershipHolds
<1> DEFINE owners == {w \in Workers : holds[w]}
<1>1. Init => Promise!Init
  BY DEF Init, Promise!Init
<1>2. TypeOK /\ GuardedInv /\ [Next]_vars => [Promise!Next]_owners
  <2> SUFFICES ASSUME TypeOK, GuardedInv, [Next]_vars
               PROVE  owners' = owners \/ Promise!Next
    OBVIOUS
  <2>1. ASSUME holds' = holds PROVE owners' = owners
    BY <2>1
  <2>2. ASSUME NEW w \in Workers, FillLease(w) PROVE Promise!Next
    <3>1. \A v \in Workers : ~holds[v]
      BY <2>2 DEF FillLease, At, GuardedInv, OwnerHasLease
    <3>2. holds' = [holds EXCEPT ![w] = TRUE]
      BY <2>2 DEF FillLease
    <3>3. owners = {} /\ owners' = {w}
      BY <3>1, <3>2, Zenon DEF TypeOK
    <3>4. QED BY <3>3 DEF Promise!Next, Promise!Take
  <2>3. ASSUME NEW w \in Workers, CheckOwned(w) PROVE owners' = owners
    <3>1. CASE Owned(w)
      BY <2>3, <3>1 DEF CheckOwned
    <3>2. CASE ~Owned(w)
      <4>1. ~holds[w]
        BY <3>2 DEF GuardedInv, OwnerHasLease, Owned
      <4>2. holds' = [holds EXCEPT ![w] = FALSE]
        BY <2>3, <3>2, <4>1, Zenon DEF CheckOwned
      <4>3. QED BY <4>1, <4>2, Zenon DEF TypeOK
    <3>3. QED BY <3>1, <3>2
  <2>4. ASSUME NEW w \in Workers, RetireLease(w) \/ Crash(w) PROVE owners' = owners \/ Promise!Next
    <3>1. holds' = [holds EXCEPT ![w] = FALSE]
      BY <2>4 DEF RetireLease, Crash
    <3>2. CASE holds[w]
      <4>1. \A v \in Workers : holds[v] => v = w
        BY <3>2 DEF GuardedInv, OwnerHasLease
      <4>2. owners' = {}
        BY <3>1, <4>1, Zenon DEF TypeOK
      <4>3. owners # {}
        BY <3>2
      <4>4. QED BY <4>2, <4>3 DEF Promise!Next, Promise!Drop
    <3>3. CASE ~holds[w]
      BY <3>1, <3>3, Zenon DEF TypeOK
    <3>4. QED BY <3>2, <3>3
  <2>5. ASSUME NEW w \in Workers,
               \/ Enter(w) \/ Leave(w) \/ RenewLease(w) \/ ChangeLeaseFails(w)
               \/ ReadForAcquire(w) \/ EvictLease(w) \/ CreateLease(w) \/ FillLeaseFails(w)
        PROVE  holds' = holds
    BY <2>5 DEF Enter, OpenGuard, WriteGuard, WriteGuardFails, JudgeGuard, GuardBusy,
                StealGuard, StealGuardFails, ChangeLeaseFails, Leave, CheckGuard, UnlinkGuard,
                UnlinkGuardFails,
                RenewLease, ReadForAcquire, EvictLease, CreateLease, FillLeaseFails
  <2>6. ASSUME NEW w \in Workers, \/ Start(w) \/ SpawnChild(w) \/ ChildExits(w)
                                  \/ \E o \in Ops : Call(w, o)
        PROVE  holds' = holds
    BY <2>6 DEF Start, SpawnChild, ChildExits, Call
  <2>7. ASSUME GuardAges \/ LeaseAges \/ UNCHANGED vars PROVE holds' = holds
    BY <2>7 DEF GuardAges, LeaseAges, vars
  <2>8. QED
    BY <2>1, <2>2, <2>3, <2>4, <2>5, <2>6, <2>7
       DEF Next, Step, Acquire, Maintain, Environment
<1>3. QED
  BY <1>1, <1>2, Typing, GuardedHolds, PTL DEF Spec, OwnershipHolds, Promise!Spec

(* Under the same condition a lease is taken away only from a dead process   *)
(* whose heartbeat has expired and whose subprocesses are gone (RT-009).     *)
THEOREM TakeoverOnlyFromDeadHolds ==
    ASSUME OneMachine PROVE Spec /\ StolenFromTheDead => TakeoverOnlyFromDead
<1>1. GuardedInv => \A w \in Workers : EvictLease(w) /\ lease # NoFile
                        => ~Up(lease.by) /\ ~lease.fresh /\ ~lease.kids
  BY DEF GuardedInv, EvictLease, At
<1>2. QED
  BY <1>1, GuardedHolds, PTL DEF TakeoverOnlyFromDead
=============================================================================
