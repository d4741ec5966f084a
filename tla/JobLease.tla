------------------------------- MODULE JobLease -------------------------------
(***************************************************************************)
(* The per-job ownership lease of job_lease.py: one lease.json per job,     *)
(* changed only inside the critical section of a guard file.  The model    *)
(* works at the grain of the file operations the code performs (exclusive  *)
(* create, write, read, rename, unlink), because the hazards sit between    *)
(* them.                                                                    *)
(*                                                                          *)
(* A worker stands for one incarnation of a process: <<pid, start time>>.   *)
(* Two workers may carry the same pid (a recycled one); they never run at   *)
(* the same time.  The nonce of a guard or of a lease is represented by the *)
(* worker that wrote it: a worker has at most one guard and one lease       *)
(* outstanding.  Wall clocks are represented by what the code derives from  *)
(* them, whether a file is "fresh"; time may pass between any two steps.    *)
(* The subprocess pids a lease records are represented by "kids": one of    *)
(* them still runs.                                                         *)
(***************************************************************************)
EXTENDS FiniteSets, Naturals

CONSTANTS Workers,     \* process incarnations
          Contenders,  \* those that use the lease; the others merely exist
          Hosts, HostOf,
          Pids, PidOf,
          Tokened,     \* workers whose start token the system lets others read
          MayCrash,    \* workers that may die at any step
          Faults,      \* what else may go wrong, see PossibleFaults
          NoFile

(* "slow": a running process is held up for 30 s inside the guard;          *)
(* "disk": a write fails; "sharing": another process keeps a file open, so  *)
(* that it can be neither replaced nor deleted.                             *)
PossibleFaults == {"slow", "disk", "sharing"}

ASSUME LeaseAssumption ==
    /\ Contenders \subseteq Workers
    /\ Tokened \subseteq Workers
    /\ MayCrash \subseteq Workers
    /\ Faults \subseteq PossibleFaults
    /\ HostOf \in [Workers -> Hosts]
    /\ PidOf \in [Workers -> Pids]
    /\ NoFile \notin [by: Workers, written: BOOLEAN, fresh: BOOLEAN, kids: BOOLEAN]
    /\ NoFile \notin [by: Workers, written: BOOLEAN, fresh: BOOLEAN]

VARIABLES status,  \* has the process been started, is it up or dead
          child,   \* does a subprocess of the worker still run
          guard,   \* lease.json.guard
          lease,   \* lease.json
          holds,   \* the worker's JobLease object believes it owns the job
          op,      \* the operation it is executing
          pc       \* where in that operation it is

vars == <<status, child, guard, lease, holds, op, pc>>

Ops == {"acquire", "heartbeat", "release"}

(* Locations inside _mutation_guard, then inside its body, then on its way out *)
Entering == {"open", "write", "judge", "steal"}
Body     == {"read", "evict", "create", "fill", "renew", "retire"}
Leaving  == {"check", "unlink"}
Critical == Body \cup Leaving

GuardFile == [by: Workers, written: BOOLEAN, fresh: BOOLEAN]
LeaseFile == [by: Workers, written: BOOLEAN, fresh: BOOLEAN, kids: BOOLEAN]

Up(w) == status[w] = "up"
SameHost(v, w) == HostOf[v] = HostOf[w]
Idle(w) == Up(w) /\ pc[w] = "idle"
At(w, loc) == Up(w) /\ pc[w] = loc
Goto(w, loc) == pc' = [pc EXCEPT ![w] = loc]

-----------------------------------------------------------------------------
(* What one process can find out about another.                            *)

(* The process that now runs under the pid of v: none, v, or a newcomer.    *)
RunningAs(v) == {u \in Workers : Up(u) /\ SameHost(u, v) /\ PidOf[u] = PidOf[v]}

(* process_alive *)
PidAlive(v) == RunningAs(v) # {}

(* process_start_token differs from the recorded one, both being readable   *)
Recycled(v) == \E u \in RunningAs(v) : u # v /\ {u, v} \subseteq Tokened

(* Mutant: a running pid is taken for the owner without its start token.    *)
SameProcessByPid(w, v) == RunningAs(v) # {}

(* _same_process, evaluated by w                                            *)
SameProcess(w, v) ==
    \E u \in RunningAs(v) : IF {u, v} \subseteq Tokened THEN u = v ELSE v = w

(* Mutant: the recorded subprocesses are not looked at.                     *)
LeaseStaleChildless(w) ==
    LET v == lease.by IN ~lease.fresh /\ (SameHost(v, w) => ~SameProcess(w, v))

(* is_stale, evaluated by w on the lease it has read                        *)
LeaseStale(w) ==
    LET v == lease.by IN
    /\ ~lease.fresh
    /\ SameHost(v, w) => ~SameProcess(w, v) /\ ~lease.kids

(* _guard_is_stale, evaluated by w: an unreadable guard is judged by its    *)
(* age, and a guard that is gone by now counts as stale.                    *)
GuardStale(w) ==
    \/ guard = NoFile
    \/ /\ guard # NoFile
       /\ IF ~guard.written \/ ~SameHost(guard.by, w)
          THEN ~guard.fresh
          ELSE ~PidAlive(guard.by) \/ Recycled(guard.by)

-----------------------------------------------------------------------------
Init == /\ status = [w \in Workers |-> "new"]
        /\ child = [w \in Workers |-> FALSE]
        /\ guard = NoFile
        /\ lease = NoFile
        /\ holds = [w \in Workers |-> FALSE]
        /\ op = [w \in Workers |-> "acquire"]
        /\ pc = [w \in Workers |-> "idle"]

(* Processes start (a pid is reused only after its previous bearer died),   *)
(* run subprocesses, and die.                                               *)
Start(w) == /\ status[w] = "new"
            /\ RunningAs(w) = {}
            /\ status' = [status EXCEPT ![w] = "up"]
            /\ UNCHANGED <<child, guard, lease, holds, op, pc>>

SpawnChild(w) == /\ Idle(w) /\ holds[w] /\ ~child[w]
                 /\ child' = [child EXCEPT ![w] = TRUE]
                 /\ UNCHANGED <<status, guard, lease, holds, op, pc>>

ChildExits(w) == /\ child[w]
                 /\ child' = [child EXCEPT ![w] = FALSE]
                 /\ lease' = IF lease # NoFile /\ lease.by = w
                             THEN [lease EXCEPT !.kids = FALSE] ELSE lease
                 /\ UNCHANGED <<status, guard, holds, op, pc>>

Crash(w) == /\ w \in MayCrash /\ Up(w)
            /\ status' = [status EXCEPT ![w] = "dead"]
            /\ holds' = [holds EXCEPT ![w] = FALSE]
            /\ pc' = [pc EXCEPT ![w] = "idle"]
            /\ UNCHANGED <<child, guard, lease, op>>

(* 30 s since the guard was written, 45 s since the last heartbeat.         *)
GuardAges == /\ guard # NoFile /\ guard.fresh
             /\ "slow" \in Faults \/ ~Up(guard.by)
             /\ guard' = [guard EXCEPT !.fresh = FALSE]
             /\ UNCHANGED <<status, child, lease, holds, op, pc>>

LeaseAges == /\ lease # NoFile /\ lease.fresh
             /\ lease' = [lease EXCEPT !.fresh = FALSE]
             /\ UNCHANGED <<status, child, guard, holds, op, pc>>

-----------------------------------------------------------------------------
(* Entering the critical section: _mutation_guard.                          *)

Call(w, o) == /\ Idle(w) /\ w \in Contenders
              /\ holds[w] <=> o # "acquire"
              /\ op' = [op EXCEPT ![w] = o]
              /\ Goto(w, "open")
              /\ UNCHANGED <<status, child, guard, lease, holds>>

OpenGuard(w) ==
    /\ At(w, "open")
    /\ IF guard = NoFile
       THEN /\ guard' = [by |-> w, written |-> FALSE, fresh |-> TRUE]
            /\ Goto(w, "write")
       ELSE /\ Goto(w, "judge")
            /\ UNCHANGED guard
    /\ UNCHANGED <<status, child, lease, holds, op>>

(* The payload goes through the descriptor: it reaches the guard path only  *)
(* if nobody renamed the file in the meantime.                              *)
WriteGuard(w) ==
    /\ At(w, "write")
    /\ guard' = IF guard # NoFile /\ guard.by = w
                THEN [guard EXCEPT !.written = TRUE] ELSE guard
    /\ Goto(w, "read")
    /\ UNCHANGED <<status, child, lease, holds, op>>

(* A failing write removes whatever is at the guard path and raises.        *)
WriteGuardFails(w) ==
    /\ At(w, "write") /\ "disk" \in Faults
    /\ guard' = NoFile
    /\ Goto(w, "idle")
    /\ UNCHANGED <<status, child, lease, holds, op>>

JudgeGuard(w) ==
    /\ At(w, "judge")
    /\ Goto(w, IF GuardStale(w) THEN "steal" ELSE "open")
    /\ UNCHANGED <<status, child, guard, lease, holds, op>>

(* LeaseBusy when the mutation timeout expires on a guard that is not stale. *)
GuardBusy(w) ==
    /\ At(w, "judge") /\ ~GuardStale(w)
    /\ Goto(w, "idle")
    /\ UNCHANGED <<status, child, guard, lease, holds, op>>

(* os.replace(guard, evidence): the file renamed is the one there now.      *)
StealGuard(w) ==
    /\ At(w, "steal")
    /\ guard' = NoFile
    /\ Goto(w, "open")
    /\ UNCHANGED <<status, child, lease, holds, op>>

(* The rename is refused (PermissionError): it is tried again, or LeaseBusy. *)
StealGuardFails(w) ==
    /\ At(w, "steal") /\ "sharing" \in Faults
    /\ \E loc \in {"open", "idle"} : Goto(w, loc)
    /\ UNCHANGED <<status, child, guard, lease, holds, op>>

-----------------------------------------------------------------------------
(* The bodies of acquire, heartbeat and release.                            *)

(* read(): a lease file created but not yet written is unreadable, and      *)
(* acquire raises LeaseError without looking at its age.                    *)
ReadForAcquire(w) ==
    /\ At(w, "read") /\ op[w] = "acquire"
    /\ \/ /\ lease = NoFile
          /\ Goto(w, "create")
       \/ /\ lease # NoFile
          /\ Goto(w, IF lease.written /\ LeaseStale(w) THEN "evict" ELSE "check")
    /\ UNCHANGED <<status, child, guard, lease, holds, op>>

(* os.replace(lease, stale evidence), whichever lease is there now          *)
EvictLease(w) ==
    /\ At(w, "evict")
    /\ lease' = NoFile
    /\ Goto(w, "create")
    /\ UNCHANGED <<status, child, guard, holds, op>>

(* Mutant: the lease is created without O_EXCL.                             *)
CreateLeaseAnyway(w) ==
    /\ At(w, "create")
    /\ lease' = [by |-> w, written |-> FALSE, fresh |-> TRUE, kids |-> FALSE]
    /\ Goto(w, "fill")
    /\ UNCHANGED <<status, child, guard, holds, op>>

CreateLease(w) ==
    /\ At(w, "create")
    /\ IF lease = NoFile
       THEN /\ lease' = [by |-> w, written |-> FALSE, fresh |-> TRUE, kids |-> FALSE]
            /\ Goto(w, "fill")
       ELSE /\ Goto(w, "check")
            /\ UNCHANGED lease
    /\ UNCHANGED <<status, child, guard, holds, op>>

FillLease(w) ==
    /\ At(w, "fill")
    /\ lease' = IF lease # NoFile /\ lease.by = w
                THEN [lease EXCEPT !.written = TRUE] ELSE lease
    /\ holds' = [holds EXCEPT ![w] = TRUE]
    /\ Goto(w, "check")
    /\ UNCHANGED <<status, child, guard, op>>

FillLeaseFails(w) ==
    /\ At(w, "fill") /\ "disk" \in Faults
    /\ lease' = NoFile
    /\ Goto(w, "check")
    /\ UNCHANGED <<status, child, guard, holds, op>>

(* _owned: heartbeat and release go on only if the nonce on disk is theirs. *)
(* An unreadable lease raises LeaseError, a foreign one LeaseOwnershipLost: *)
(* the caller stops being an owner only in the latter case.                 *)
Owned(w) == lease # NoFile /\ lease.written /\ lease.by = w

Lost(w) == lease = NoFile \/ (lease.written /\ lease.by # w)

CheckOwned(w) ==
    /\ At(w, "read") /\ op[w] # "acquire"
    /\ \/ /\ Owned(w)
          /\ Goto(w, IF op[w] = "heartbeat" THEN "renew" ELSE "retire")
          /\ UNCHANGED holds
       \/ /\ ~Owned(w)
          /\ Goto(w, "check")
          /\ holds' = [holds EXCEPT ![w] = holds[w] /\ ~Lost(w)]
    /\ UNCHANGED <<status, child, guard, lease, op>>

(* heartbeat: an atomic replace with the renewed record; the subprocesses   *)
(* are kept, replaced by the running ones, or cleared.                      *)
RenewLease(w) ==
    /\ At(w, "renew")
    /\ \E k \in {FALSE, child[w]} :
           lease' = [by |-> w, written |-> TRUE, fresh |-> TRUE, kids |-> k]
    /\ Goto(w, "check")
    /\ UNCHANGED <<status, child, guard, holds, op>>

(* Mutant: release keeps the nonce.                                         *)
RetireLeaseStillHeld(w) ==
    /\ At(w, "retire")
    /\ lease' = NoFile
    /\ Goto(w, "check")
    /\ UNCHANGED <<status, child, guard, holds, op>>

(* release: rename to the released evidence, then forget the nonce          *)
RetireLease(w) ==
    /\ At(w, "retire")
    /\ lease' = NoFile
    /\ holds' = [holds EXCEPT ![w] = FALSE]
    /\ Goto(w, "check")
    /\ UNCHANGED <<status, child, guard, op>>

(* The eviction, the renewal or the release cannot replace the lease, or the *)
(* renewed record cannot be written: the operation raises, the lease stays.  *)
ChangeLeaseFails(w) ==
    /\ Up(w) /\ pc[w] \in {"evict", "renew", "retire"}
    /\ "sharing" \in Faults \/ ("disk" \in Faults /\ pc[w] = "renew")
    /\ Goto(w, "check")
    /\ UNCHANGED <<status, child, guard, lease, holds, op>>

-----------------------------------------------------------------------------
(* Leaving the critical section: _unlink_guard_with_retry re-reads the      *)
(* nonce, then unlinks the path.                                            *)

CheckGuard(w) ==
    /\ At(w, "check")
    /\ Goto(w, IF guard # NoFile /\ guard.written /\ guard.by = w
               THEN "unlink" ELSE "idle")
    /\ UNCHANGED <<status, child, guard, lease, holds, op>>

UnlinkGuard(w) ==
    /\ At(w, "unlink")
    /\ guard' = NoFile
    /\ Goto(w, "idle")
    /\ UNCHANGED <<status, child, lease, holds, op>>

(* The unlink keeps failing with PermissionError for a second and raises:   *)
(* the operation has taken effect, the guard stays behind.                  *)
UnlinkGuardFails(w) ==
    /\ At(w, "unlink") /\ "sharing" \in Faults
    /\ Goto(w, "idle")
    /\ UNCHANGED <<status, child, guard, lease, holds, op>>

-----------------------------------------------------------------------------
Enter(w) == \/ OpenGuard(w) \/ WriteGuard(w) \/ WriteGuardFails(w)
            \/ JudgeGuard(w) \/ GuardBusy(w) \/ StealGuard(w) \/ StealGuardFails(w)

Acquire(w) == \/ ReadForAcquire(w) \/ EvictLease(w) \/ CreateLease(w)
              \/ FillLease(w) \/ FillLeaseFails(w)

Maintain(w) == CheckOwned(w) \/ RenewLease(w) \/ RetireLease(w)

Leave(w) == CheckGuard(w) \/ UnlinkGuard(w) \/ UnlinkGuardFails(w)

Step(w) == Enter(w) \/ Acquire(w) \/ Maintain(w) \/ ChangeLeaseFails(w) \/ Leave(w)

Environment == \/ \E w \in Workers : Start(w) \/ SpawnChild(w) \/ ChildExits(w) \/ Crash(w)
               \/ GuardAges \/ LeaseAges

Next == \/ \E w \in Workers : Step(w)
        \/ \E w \in Workers, o \in Ops : Call(w, o)
        \/ Environment

Spec == Init /\ [][Next]_vars

(* A running process goes on with the operation it is in, and files age.    *)
(* Nothing obliges a user to call again, a child to exit or a write to fail. *)
Progress(w) == \/ OpenGuard(w) \/ WriteGuard(w) \/ JudgeGuard(w) \/ StealGuard(w)
               \/ ReadForAcquire(w) \/ EvictLease(w) \/ CreateLease(w) \/ FillLease(w)
               \/ Maintain(w) \/ CheckGuard(w) \/ UnlinkGuard(w)

(* What is tried again and again succeeds at last: a write on a disk, the    *)
(* rename of a file that readers open only briefly.                         *)
FairSpec == /\ Spec
            /\ WF_vars(GuardAges) /\ WF_vars(LeaseAges)
            /\ \A w \in Workers : /\ WF_vars(Progress(w)) /\ WF_vars(Start(w))
                                  /\ SF_vars(StealGuard(w) \/ WriteGuard(w))
                                  /\ SF_vars(EvictLease(w) \/ FillLease(w))

(* A launcher that keeps trying to get the job.                             *)
RetrySpec == FairSpec /\ \A w \in Contenders : WF_vars(Call(w, "acquire"))

-----------------------------------------------------------------------------
TypeOK ==
    /\ status \in [Workers -> {"new", "up", "dead"}]
    /\ child \in [Workers -> BOOLEAN]
    /\ guard \in GuardFile \cup {NoFile}
    /\ lease \in LeaseFile \cup {NoFile}
    /\ holds \in [Workers -> BOOLEAN]
    /\ op \in [Workers -> Ops]
    /\ pc \in [Workers -> {"idle"} \cup Entering \cup Critical]

(* Whoever believes it owns the job is the one lease.json names.  Without   *)
(* crashes on one host this survives even two processes inside the guard.   *)
OwnerHasLease == \A w \in Workers :
    holds[w] => lease # NoFile /\ lease.written /\ lease.by = w

(* RT-065: of several processes that try to own the job, one gets it.       *)
OneLiveOwner == \A v, w \in Workers : holds[v] /\ holds[w] => v = w

(* RH-FUN-009 / RT-009: a lease is taken away only from a dead process      *)
(* whose heartbeat has expired and whose recorded subprocesses are gone.    *)
TakeoverOnlyFromDead ==
    [][\A w \in Workers : EvictLease(w) /\ lease # NoFile
            => ~Up(lease.by) /\ ~lease.fresh /\ ~lease.kids]_vars

(* Between calls no running process is named by the guard: such a guard is  *)
(* never stale, so it would lock everybody out, its owner included, for as  *)
(* long as that process runs.  A deletion that keeps failing leaves one.     *)
LeakedGuard == guard # NoFile /\ Up(guard.by) /\ guard.written
               /\ pc[guard.by] \notin Critical

Abandoned == lease # NoFile /\ status[lease.by] = "dead" /\ ~lease.kids

(* A written lease whose owner and subprocesses are dead is taken over as   *)
(* long as somebody keeps trying and no guard is leaked.                    *)
WrittenLeaseReclaimed ==
    (Abandoned /\ lease.written) ~> (LeakedGuard \/ \E w \in Workers : holds[w])

(* RT-010: the same of every lease a dead process left, half-written ones   *)
(* included.                                                                *)
LeaseReclaimed == Abandoned ~> (\E w \in Workers : holds[w])

(* The lease implements its promise.                                        *)
Promise == INSTANCE Ownership WITH owners <- {w \in Workers : holds[w]}
OwnershipHolds == Promise!Spec
=============================================================================
