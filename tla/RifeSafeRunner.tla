----------------------------- MODULE RifeSafeRunner -----------------------------
(***************************************************************************)
(* The crash-safe invocation of RIFE (rife_safe_runner.py): one process per *)
(* chunk of frames, a native run retried under ever smaller concurrency,    *)
(* an optional retiming, and the publication of the frames by one rename;   *)
(* with the memory studio.py keeps, through one render, of what was applied. *)
(* The measured policies of rife_tuning.py are never selected by the runner. *)
(***************************************************************************)
EXTENDS Integers, Sequences

CONSTANTS
  Targets,   \* numbers of frames a chunk may be asked for
  Native,    \* frames the native run makes of a chunk, twice its input
  Chunks,    \* chunks of the render
  Faults     \* a subset of {"oom", "gpu", "short", "kill"}

VARIABLES
  size,      \* "hd", "uhd" or "8k"
  device,
  chunk,     \* number of the chunk
  override,  \* the jobs studio.py remembers, <<>> when none
  policy,    \* the jobs of the native run
  fallback,
  attempted, \* attempted_fallback
  used,      \* the jobs of every native run of the render, in order
  pc,
  target,    \* frames asked of the chunk
  native,    \* frames in the folder of the native run, -1 when it is absent
  publish,   \* frames in the folder to be published, -1 when it is absent
  outgoing,  \* frames in the folder asked for, -1 when it is absent
  outcome

vars == <<size, device, chunk, override, policy, fallback, attempted, used, pc, target, native,
          publish, outgoing, outcome>>
policies == <<override, policy, fallback, attempted, used>>
setting  == <<size, device>>

\* Jobs are <<load, process, save>>.
Single == <<1, 1, 1>>
Cpu    == <<1, 2, 2>>
Jobs   == {Single, Cpu, <<2, 2, 2>>, <<3, 3, 3>>}

\* RifePolicy.pressure, as a number: the triples above are ordered the same way.
Pressure(j) == 100 * j[2] + j[1] + j[2] + j[3]

FallbackPolicy == IF size = "hd" THEN <<2, 2, 2>> ELSE Single
Aggressive == CASE size = "8k" -> Single [] size = "uhd" -> <<2, 2, 2>> [] OTHER -> <<3, 3, 3>>

Init ==
  /\ size \in {"hd", "uhd", "8k"} /\ device \in {"gpu", "cpu"}
  /\ chunk = 0 /\ override = <<>> /\ policy = Single /\ fallback = Single
  /\ attempted = FALSE /\ used = <<>>
  /\ pc = "idle" /\ target = 0 /\ native = -1 /\ publish = -1 /\ outgoing = -1
  /\ outcome = "none"

\* _interpolate_rife makes the empty folder and starts the runner, which selects the policy, never
\* above what the render has had to come down to, and removes the empty folder.
Launch ==
  /\ pc = "idle" /\ chunk < Chunks /\ outcome \in {"none", "done"}
  /\ chunk' = chunk + 1 /\ outcome' = "none"
  /\ target' \in Targets
  /\ policy' = IF device = "cpu" THEN Cpu ELSE IF override # <<>> THEN override ELSE Aggressive
  /\ fallback' = IF device = "cpu" THEN Cpu
                 ELSE IF override # <<>> /\ Pressure(override) < Pressure(FallbackPolicy)
                      THEN override ELSE FallbackPolicy
  /\ attempted' = (policy' = fallback')
  /\ outgoing' = -1 /\ native' = 0 /\ publish' = -1
  /\ pc' = "native"
  /\ UNCHANGED <<setting, override, used>>

\* The native run ends with every frame, and they are validated.
NativeSucceeds ==
  /\ pc = "native"
  /\ native' = Native /\ used' = Append(used, policy)
  /\ pc' = IF target = Native THEN "move" ELSE "retime"
  /\ UNCHANGED <<setting, chunk, override, policy, fallback, attempted, target, publish, outgoing,
                 outcome>>

\* The policy a failure leads to, none when it is final.
GivesUp(oom) ==
  LET same == fallback = policy IN
  IF oom /\ device = "gpu" THEN policy = Single ELSE same \/ attempted
Retry(oom) == IF oom /\ fallback = policy THEN Single ELSE fallback

NativeFails(oom) ==
  /\ pc = "native"
  /\ used' = Append(used, policy)
  /\ IF GivesUp(oom)
     THEN /\ native' = -1 /\ pc' = "exit" /\ outcome' = "failed"
          /\ UNCHANGED <<policy, attempted>>
     ELSE /\ native' = 0 /\ policy' = Retry(oom) /\ attempted' = TRUE
          /\ UNCHANGED <<pc, outcome>>
  /\ UNCHANGED <<setting, chunk, override, fallback, target, publish, outgoing>>

\* _move_native_frames, one rename a frame.
Move ==
  /\ pc = "move"
  /\ publish' = IF publish < 0 THEN 1 ELSE publish + 1
  /\ native' = native - 1
  /\ pc' = IF native = 1 THEN "promote" ELSE "move"
  /\ UNCHANGED <<setting, chunk, policies, target, outgoing, outcome>>

\* The frames are retimed by FFmpeg, which may give fewer than it was asked.
Retime ==
  /\ pc = "retime"
  /\ \E frames \in {target} \cup (IF "short" \in Faults THEN {target - 1} ELSE {}) : publish' = frames
  /\ pc' = "promote"
  /\ UNCHANGED <<setting, chunk, policies, target, native, outgoing, outcome>>

\* _promote_atomic_output: what is published has been validated.
Promote ==
  /\ pc = "promote"
  /\ IF publish = target
     THEN outgoing' = publish /\ outcome' = "done"
     ELSE outcome' = "failed" /\ UNCHANGED outgoing
  /\ publish' = -1 /\ native' = -1
  /\ pc' = "exit"
  /\ UNCHANGED <<setting, chunk, policies, target>>

\* studio.py reads the applied jobs from the log of a runner that succeeded, packs the frames and
\* deletes the folder.
Return ==
  /\ pc = "exit"
  /\ override' = IF outcome = "done" /\ device = "gpu" THEN policy ELSE override
  /\ pc' = "idle" /\ outgoing' = -1
  /\ UNCHANGED <<setting, chunk, policy, fallback, attempted, used, target, native, publish, outcome>>

\* The process tree is terminated: no finally block runs.
Killed ==
  /\ pc \in {"native", "move", "retime", "promote"} /\ "kill" \in Faults
  /\ native' \in IF pc = "native" THEN {0, Native - 1, Native} ELSE {native}
  /\ publish' \in IF pc = "retime" THEN {0, target - 1} ELSE {publish}
  /\ pc' = "gone" /\ outcome' = "cancelled"
  /\ UNCHANGED <<setting, chunk, policies, target, outgoing>>

Step == Launch \/ NativeSucceeds \/ Move \/ Retime \/ Promote \/ Return
Next ==
  \/ Step
  \/ "oom" \in Faults /\ NativeFails(TRUE)
  \/ Faults \cap {"gpu", "short"} # {} /\ NativeFails(FALSE)
  \/ Killed

Spec == Init /\ [][Next]_vars /\ WF_vars(Next)

(* --------------------------- properties --------------------------- *)

TypeOK ==
  /\ size \in {"hd", "uhd", "8k"} /\ device \in {"gpu", "cpu"}
  /\ chunk \in 0 .. Chunks /\ override \in Jobs \cup {<<>>}
  /\ policy \in Jobs /\ fallback \in Jobs /\ attempted \in BOOLEAN
  /\ pc \in {"idle", "native", "move", "retime", "promote", "exit", "gone"}
  /\ outcome \in {"none", "done", "failed", "cancelled"}

\* Through all the chunks of a render the concurrency only comes down: "a remembered lower-pressure
\* policy must never upshift on a later non-OOM failure".
NeverUpshifts ==
  \A i, j \in 1 .. Len(used) : i < j => Pressure(used[j]) <= Pressure(used[i])

\* The folder asked for is absent or holds every frame asked for, also when the runner is killed.
PublishedWhole == outgoing \in {-1, target}

\* Retries are finite: at most three native runs for a chunk, and every chunk ends.
Trying == pc \notin {"idle", "gone"}
RetriesEnd ==
  /\ [][Len(used) <= 3 * chunk]_vars
  /\ Trying ~> ~Trying

(* The inductive invariant (ComponentProofs): what runs next presses no harder than anything that *)
(* ran before, nor does what a retry or a later chunk may come down to.                           *)
Lowest(j) == \A i \in 1 .. Len(used) : Pressure(j) <= Pressure(used[i])
Shape == TypeOK /\ used \in Seq(Jobs)
Chosen ==
  /\ pc = "native" => \/ Pressure(fallback) <= Pressure(policy)
                      \/ device = "gpu" /\ policy = Single /\ attempted
  /\ pc \notin {"idle", "gone"} => Lowest(policy)
  /\ device = "cpu" => /\ pc \notin {"idle", "gone"} => policy = Cpu /\ fallback = Cpu
                       /\ override = << >> /\ Lowest(Cpu)
Remembered ==
  /\ pc = "exit" => outcome \in {"done", "failed"}
  /\ pc = "idle" /\ outcome = "none" => used = << >> /\ override = << >>
  /\ pc = "idle" /\ outcome = "done" /\ device = "gpu" => override # << >> /\ Lowest(override)
Inv == Shape /\ Chosen /\ Remembered /\ NeverUpshifts /\ PublishedWhole
================================================================================
