----------------------------- MODULE RifeRecovery -----------------------------
(***************************************************************************)
(* A chunked RIFE render that is killed (Studio._interpolate_rife), and the *)
(* programs that bring it to its end: rife_recovery.py, which validates     *)
(* the segments it finds, makes the missing ones, joins them and delivers   *)
(* the output, and rife_black_repair.py, which makes again the segments     *)
(* with black frames.  One of them runs at a time, as the runbook asks; it  *)
(* may be killed at any point, and the FFmpeg it has started may go on.     *)
(***************************************************************************)
EXTENDS RifeSchedule, Sequences, FiniteSetsExt

CONSTANTS Legacy,    \* may the segments be those of a version before 1.2.6
          MaxFaults  \* bound: kills, failed steps and stop requests

ASSUME RecoveryAssumption == Legacy \in BOOLEAN /\ MaxFaults \in Nat

VARIABLES
    segs,       \* segment_00001.mkv, 00002, ...: packets, any black frame, closed file
    work,       \* chunks whose work directories are in chunk_root
    checkpoint, \* completed segments and target frames in recovery-state.json
    base,       \* the same pair when the plan being followed was made
    master,     \* packets of recovered_rife_master.mkv, 0 without the file
    partial,    \* content of the recovery-partial file beside the output
    orphan,     \* does the FFmpeg of a killed run still write that file
    output,     \* the final file
    success,    \* is job.json's status "success"
    remaster,   \* does the contract ask for audio mastering
    stop,       \* is there a STOP_RECOVERY file
    pc, cpu,    \* where the running program is; is its final encoder the CPU's
    faults

delivery == <<partial, orphan, output, success, cpu>>
control  == <<stop, faults>>
vars     == <<segs, work, checkpoint, base, master, delivery, control, remaster, pc>>

Segments  == [frames : 0 .. Target, black : BOOLEAN, closed : BOOLEAN]
Origin    == [segments |-> 0, target |-> 0]     \* also: no state file
InStudio  == {"studio", "merge", "merging"}
Locations == InStudio \cup {"idle", "repair", "chunk", "generate", "tidy", "concat",
                            "finalize", "encode", "encoding", "verify", "publish", "record"}

Next1   == Len(segs) + 1
Blacks  == {k \in DOMAIN segs : segs[k].black}
Sum(s)  == MapThenSumSet(LAMBDA k : s[k].frames, DOMAIN s)
Made(frames, black) == [frames |-> frames, black |-> black, closed |-> TRUE]

(* A render to be, or a prefix of a legacy one, in which some are black      *)
Init == /\ \/ segs = <<>> /\ pc = "studio"
           \/ /\ Legacy /\ pc = "idle"
              /\ \E n \in 1 .. Chunks : \E black \in SUBSET (1 .. n) :
                    segs = [k \in 1 .. n |-> Made(Nominal(k), k \in black)]
        /\ work = {} /\ checkpoint = Origin /\ base = Origin /\ master = 0
        /\ partial = "none" /\ orphan = FALSE /\ output = "previous"
        /\ success = FALSE /\ cpu = FALSE
        /\ remaster \in BOOLEAN /\ stop = FALSE /\ faults = 0

Go(from, to) == pc = from /\ pc' = to
Fault        == faults < MaxFaults /\ faults' = faults + 1

-----------------------------------------------------------------------------
(* Studio._interpolate_rife.  A chunk's frames are extracted, and perhaps    *)
(* those of the next one in parallel; its segment is written under its final *)
(* name.  A render that is not killed deletes chunk_root: none is here       *)
StudioExtract ==
    /\ Go("studio", "merge") /\ Next1 <= Chunks
    /\ \E ahead \in {Next1, Next1 + 1} : work' = work \cup (Next1 .. ahead \cap 1 .. Chunks)
    /\ UNCHANGED <<segs, checkpoint, base, master, delivery, control, remaster>>

StudioMerge ==
    /\ Go("merge", "merging")
    /\ \E written \in 0 .. Share(0, 0, Next1), black \in BOOLEAN :
          /\ black => written # 0
          /\ segs' = Append(segs, [frames |-> written, black |-> black, closed |-> FALSE])
    /\ UNCHANGED <<work, checkpoint, base, master, delivery, control, remaster>>

(* FFmpeg has ended: the last segment has all its frames                     *)
Merged == LET k == Len(segs)
          IN  {[segs EXCEPT ![k] = Made(Share(0, 0, k), black)] :
                  black \in {b \in BOOLEAN : segs[k].black => b}}

StudioTidy ==
    /\ Go("merging", "studio")
    /\ segs' \in Merged
    /\ work' = work \ {Len(segs)}
    /\ UNCHANGED <<checkpoint, base, master, delivery, control, remaster>>

(* The kill.  The FFmpeg of the merge may still end its segment: what it     *)
(* leaves is decided here, as no program is started before it has ended      *)
StudioKilled ==
    /\ pc \in InStudio /\ pc' = "idle"
    /\ segs' \in {segs} \cup (IF pc = "merging" THEN Merged ELSE {})
    /\ UNCHANGED <<work, checkpoint, base, master, delivery, control, remaster>>

-----------------------------------------------------------------------------
(* Mutant: the counts that were planned instead of those that are there      *)
CountedNominal == [segments |-> Len(segs),
                   target   |-> MapThenSumSet(Nominal, DOMAIN segs)]

(* rife_recovery.py: validate_contract.  It reads every segment's count from *)
(* its duration, which an interrupted file does not have                     *)
Counted  == [segments |-> Len(segs), target |-> Sum(segs)]

Accepted == /\ \A k \in DOMAIN segs : segs[k].closed /\ segs[k].frames \in Acceptable(k)
            /\ checkpoint.segments = Len(segs) /\ checkpoint.target # 0
                  => checkpoint.target = Sum(segs)
            /\ Feasible(0, 0)

(* main, action "validate": it only writes the state file                    *)
Validate ==
    /\ Go("idle", "idle") /\ Accepted
    /\ checkpoint' = Counted
    /\ UNCHANGED <<segs, work, base, master, delivery, control, remaster>>

(* Mutant: what is left stays where it is                                    *)
NotQuarantined(k) == work

(* _quarantine_incomplete, of the first chunk to make                        *)
Quarantined(k) == work \ {k}

(* main, action "resume": plan the missing chunks                            *)
Resume ==
    /\ Go("idle", "chunk") /\ Accepted /\ Feasible(Len(segs), Sum(segs))
    /\ checkpoint' = Counted /\ base' = Counted
    /\ work' = Quarantined(Next1)
    /\ UNCHANGED <<segs, master, delivery, control, remaster>>

(* The directories of a chunk must not exist, those of a prefetch included   *)
BeginChunk ==
    /\ Go("chunk", "generate") /\ Next1 <= Chunks /\ Next1 \notin work
    /\ work' = work \cup {Next1}
    /\ UNCHANGED <<segs, checkpoint, base, master, delivery, control, remaster>>

ChunkBlocked ==
    /\ Go("chunk", "idle") /\ Next1 \in work
    /\ UNCHANGED <<segs, work, checkpoint, base, master, delivery, control, remaster>>

(* The .partial segment has been verified and takes its final name           *)
Promote ==
    /\ Go("generate", "tidy")
    /\ segs' = Append(segs, Made(Share(base.segments, base.target, Next1), FALSE))
    /\ UNCHANGED <<work, checkpoint, base, master, delivery, control, remaster>>

Tidy ==
    /\ Go("tidy", "chunk")
    /\ work' = work \ {Len(segs)} /\ checkpoint' = Counted
    /\ UNCHANGED <<segs, base, master, delivery, control, remaster>>

(* _run_logged sees the stop file while a chunk or a repair is being made    *)
StopSeen ==
    /\ stop /\ pc \in {"generate", "repair"} /\ pc' = "idle"
    /\ UNCHANGED <<segs, work, checkpoint, base, master, delivery, control, remaster>>

-----------------------------------------------------------------------------
(* The final audit, then concatenate_master                                  *)
Joinable == Sum(segs) = Target /\ Blacks = {}

Audited ==
    /\ pc = "chunk" /\ Next1 > Chunks
    /\ \/ Joinable /\ master = 0 /\ pc' = "concat"
       \/ Joinable /\ master = Target /\ pc' = "finalize"
       \/ ~(Joinable /\ master \in {0, Target}) /\ pc' = "idle"
    /\ UNCHANGED <<segs, work, checkpoint, base, master, delivery, control, remaster>>

Completed == [segments |-> Chunks, target |-> Target]

Concatenate ==
    /\ Go("concat", "finalize")
    /\ master' = Sum(segs) /\ checkpoint' = Completed
    /\ UNCHANGED <<segs, work, base, delivery, control, remaster>>

-----------------------------------------------------------------------------
(* Mutant: a partial that is there is used                                   *)
ReusableUnverified == partial # "none" /\ ~remaster

(* finalize: a partial that is there is verified and used, or renamed and    *)
(* kept; the system refuses to rename a file that FFmpeg has open            *)
Reusable == partial = "whole" /\ ~remaster

ReusePartial ==
    /\ Go("finalize", "publish") /\ Reusable
    /\ UNCHANGED <<segs, work, checkpoint, base, master, delivery, control, remaster>>

RejectPartial ==
    /\ pc = "finalize" /\ partial # "none" /\ ~Reusable
    /\ \/ orphan /\ pc' = "idle" /\ UNCHANGED <<partial, cpu, checkpoint>>
       \/ ~orphan /\ pc' = "encode" /\ partial' = "none" /\ cpu' \in BOOLEAN
          /\ checkpoint' = Completed
    /\ UNCHANGED <<segs, work, base, master, orphan, output, success, control, remaster>>

NoPartial ==
    /\ Go("finalize", "encode") /\ partial = "none"
    /\ cpu' \in BOOLEAN /\ checkpoint' = Completed
    /\ UNCHANGED <<segs, work, base, master, partial, orphan, output, success, control, remaster>>

Encode ==
    /\ Go("encode", "encoding") /\ partial' = "draft"
    /\ UNCHANGED <<segs, work, checkpoint, base, master, orphan, output, success, cpu,
                   control, remaster>>

(* _run_final_encode_with_fallback: one more attempt, on the CPU             *)
FallBack ==
    /\ Go("encoding", "encode") /\ ~cpu
    /\ cpu' = TRUE /\ partial' = "none"
    /\ UNCHANGED <<segs, work, checkpoint, base, master, orphan, output, success, control, remaster>>

FinishEncode ==
    /\ Go("encoding", "verify")
    /\ \/ partial' = "whole" /\ UNCHANGED faults
       \/ partial' = "draft" /\ Fault
    /\ UNCHANGED <<segs, work, checkpoint, base, master, orphan, output, success, cpu, stop, remaster>>

Verify ==
    /\ pc = "verify" /\ pc' = IF partial = "whole" THEN "publish" ELSE "idle"
    /\ UNCHANGED <<segs, work, checkpoint, base, master, delivery, control, remaster>>

(* _promote_verified_output; job.json and the state file                     *)
Publish ==
    /\ Go("publish", "record")
    /\ output' = (IF partial = "whole" THEN "delivered" ELSE "broken") /\ partial' = "none"
    /\ UNCHANGED <<segs, work, checkpoint, base, master, orphan, success, cpu, control, remaster>>

Record ==
    /\ Go("record", "idle")
    /\ success' = TRUE /\ checkpoint' = Completed
    /\ UNCHANGED <<segs, work, base, master, partial, orphan, output, cpu, control, remaster>>

-----------------------------------------------------------------------------
(* rife_black_repair.py: the audit, one segment after another, the end       *)
Audit ==
    /\ Go("idle", "repair") /\ ~stop /\ \A k \in DOMAIN segs : segs[k].frames # 0
    /\ checkpoint' = Counted
    /\ UNCHANGED <<segs, work, base, master, delivery, control, remaster>>

(* Mutant: the count that was planned instead of the one that is there       *)
RepairedNominal(k) == Made(Nominal(k), FALSE)

Repaired(k) == Made(segs[k].frames, FALSE)

RepairOne ==
    /\ Go("repair", "repair")
    /\ \E k \in Blacks : /\ \A other \in Blacks : k <= other
                         /\ segs' = [segs EXCEPT ![k] = Repaired(k)]
    /\ UNCHANGED <<work, checkpoint, base, master, delivery, control, remaster>>

RepairDone ==
    /\ Go("repair", "idle") /\ Blacks = {}
    /\ UNCHANGED <<segs, work, checkpoint, base, master, delivery, control, remaster>>

-----------------------------------------------------------------------------
(* A recovery program is killed or a step of it fails: exit code 1.  After a *)
(* kill in the final encode FFmpeg may go on with the partial                *)
Interrupted ==
    /\ pc \notin InStudio \cup {"idle"} /\ pc' = "idle" /\ Fault
    /\ orphan' \in (IF pc = "encoding" THEN BOOLEAN ELSE {orphan})
    /\ UNCHANGED <<segs, work, checkpoint, base, master, partial, output, success, cpu,
                   stop, remaster>>

OrphanEnds ==
    /\ orphan /\ orphan' = FALSE
    /\ partial' \in {"draft", "whole"}
    /\ UNCHANGED <<segs, work, checkpoint, base, master, output, success, cpu, control, remaster, pc>>

(* The operator's stop request, and its end once the program has left        *)
AskStop ==
    /\ ~stop /\ stop' = TRUE /\ Fault
    /\ UNCHANGED <<segs, work, checkpoint, base, master, delivery, remaster, pc>>

RemoveStop ==
    /\ stop /\ pc = "idle" /\ stop' = FALSE
    /\ UNCHANGED <<segs, work, checkpoint, base, master, delivery, faults, remaster, pc>>

Program == \/ BeginChunk \/ ChunkBlocked \/ Promote \/ Tidy \/ StopSeen
           \/ Audited \/ Concatenate
           \/ ReusePartial \/ RejectPartial \/ NoPartial \/ Encode \/ FallBack
           \/ FinishEncode \/ Verify \/ Publish \/ Record
           \/ RepairOne \/ RepairDone

Next == \/ StudioExtract \/ StudioMerge \/ StudioTidy \/ StudioKilled
        \/ Program \/ Interrupted \/ OrphanEnds
        \/ Validate \/ Resume \/ Audit \/ AskStop \/ RemoveStop

Spec == Init /\ [][Next]_vars

(* A program that runs goes on, an orphan ends, the render is killed; the    *)
(* operator, whenever it is possible again and again, resumes, repairs and   *)
(* takes his stop request back                                               *)
FairSpec == /\ Spec
            /\ WF_vars(StudioKilled) /\ WF_vars(Program) /\ WF_vars(OrphanEnds)
            /\ SF_vars(Resume) /\ SF_vars(Audit) /\ SF_vars(RemoveStop)

-----------------------------------------------------------------------------
(* Every variable has a value the code can give it; a plan never starts      *)
(* beyond the contract (remaining_schedule)                                  *)
TypeOK ==
    /\ segs \in Seq(Segments) /\ Len(segs) <= Chunks /\ work \subseteq 1 .. Chunks
    /\ checkpoint \in [segments : 0 .. Chunks, target : Nat]
    /\ base \in [segments : 0 .. Chunks, target : 0 .. Target]
    /\ master \in 0 .. Target
    /\ partial \in {"none", "draft", "whole"} /\ orphan \in BOOLEAN
    /\ output \in {"previous", "delivered", "broken"} /\ success \in BOOLEAN
    /\ cpu \in BOOLEAN /\ remaster \in BOOLEAN /\ stop \in BOOLEAN
    /\ pc \in Locations /\ faults \in 0 .. MaxFaults

(* Whatever segments a run starts from, those that are there and those still *)
(* planned make exactly the contract's frames, no chunk under two: the last  *)
(* chunk never has to absorb a residue (remaining_schedule's docstring)      *)
PlanIsExact ==
    pc \in {"studio", "merge", "chunk", "generate", "tidy"} =>
        LET missing == Next1 .. Chunks
            planned(k) == Share(base.segments, base.target, k)
        IN  /\ Sum(segs) + MapThenSumSet(planned, missing) = Target
            /\ \A k \in missing : planned(k) >= 2

(* No run, repair or fault loses a finished segment, changes its number of   *)
(* frames or makes it black (runbook, section 2.1 and section 5)             *)
CommittedStays ==
    [][\A k \in DOMAIN segs : segs[k].closed =>
          /\ k \in DOMAIN segs' /\ segs'[k].closed
          /\ segs'[k].frames = segs[k].frames
          /\ segs'[k].black => segs[k].black]_vars

(* The state file never contradicts the segments it counts: it is not a      *)
(* reason to refuse them, whenever the run that wrote it was killed          *)
CheckpointAgrees ==
    checkpoint.segments = Len(segs) /\ checkpoint.target # 0
        => checkpoint.target = Sum(segs)

(* A master is the join of all the segments, still there, none black, and    *)
(* has the contract's frames, also when it is used again after other runs    *)
MasterFits ==
    master # 0 => master = Target /\ Next1 > Chunks /\ Sum(segs) = Target /\ Blacks = {}

(* Only a whole file replaces the previous output, although an orphan and    *)
(* interrupted runs share its partial; a job marked as a success has it      *)
OnlyWholeDelivered ==
    output # "broken" /\ (success => output = "delivered" /\ master = Target)

(* A job whose segments the validation keeps accepting is brought to its end *)
Completes == []<>(Accepted /\ Feasible(Len(segs), Sum(segs))) => <>success

(* rife_recovery.py:6, "A repeated invocation therefore resumes from the     *)
(* last committed segment": the next validation accepts what a resume made   *)
Resumable ==
    \A k \in DOMAIN segs : base.segments # 0 /\ base.segments < k
        => segs[k].frames \in Acceptable(k)
=============================================================================
