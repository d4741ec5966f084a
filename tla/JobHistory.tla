------------------------------- MODULE JobHistory -------------------------------
(***************************************************************************)
(* The technical history of a render (render_history.py), the manifest it   *)
(* writes in its shadow, the migration of histories without one             *)
(* (recovery_migration.py), and what is made of them at the next start       *)
(* (recovery_rollout.py, recovery_bootstrap.py, recovery_service.py).        *)
(* One job; the render thread of studio.py is its writer.                   *)
(***************************************************************************)
EXTENDS RenderJob

CONSTANTS
  MaxStarts,  \* starts of the program after the one that renders
  Faults      \* a subset of {"disk", "store", "rot", "render", "crash"}

VARIABLES
  step,       \* what the render thread does next, "off" when it does not run
  status,     \* the status it finishes the history with
  job,        \* status in job.json, "none" when there is no file
  plan,       \* plan.json is there
  contracts,  \* contracts.json is there
  manifest,   \* state in manifest.json; "none" absent, "bad" unreadable
  backup,     \* state in manifest.json.bak, likewise
  delivered,  \* the output has been promoted
  missed,     \* a write of the manifest failed, or storage damaged one
  ring,       \* the rollout ring: discovery from ring 3 on
  offered,    \* what the last discovery says of the job, "none" when it lists nothing
  starts

vars == <<step, status, job, plan, contracts, manifest, backup, delivered, missed, ring, offered, starts>>
legacy == <<job, plan, contracts>>
files  == <<manifest, backup>>
rest   == <<ring, offered, starts>>

Readable(f) == f \in JobStates

Init ==
  /\ step = "job" /\ status = "none"
  /\ job = "none" /\ plan = FALSE /\ contracts = FALSE
  /\ manifest = "none" /\ backup = "none"
  /\ delivered = FALSE /\ missed = FALSE
  /\ ring \in {1, 3} /\ offered = "none" /\ starts = 0

\* JobStore.load: an unreadable primary is replaced by a readable backup.
Current == IF Readable(manifest) THEN manifest ELSE backup

\* One transition through the store; a failure is logged and the render goes on.
Written(target) ==
  /\ manifest' = target /\ backup' = Current /\ UNCHANGED missed
Failed == missed' = TRUE /\ UNCHANGED files
Transition(target) ==
  \/ Readable(Current) /\ target \in NextStates(Current) /\ Written(target)
  \/ "store" \in Faults /\ Failed
\* The transition is asked for only in one of these states.
TransitionFrom(states, target) ==
  IF manifest # "none" /\ Current \in states THEN Transition(target) ELSE UNCHANGED <<files, missed>>

(* --------------------------- the render --------------------------- *)

\* RenderHistory.start; without job.json the render has no history at all.
WriteJob ==
  /\ step = "job"
  /\ \/ job' = "running" /\ step' = "create"
     \/ "disk" \in Faults /\ job' = "none" /\ step' = "off"
  /\ UNCHANGED <<status, plan, contracts, files, delivered, missed, rest>>

Create ==
  /\ step = "create"
  /\ \/ manifest' = "queued" /\ step' = "preflight" /\ UNCHANGED <<backup, missed>>
     \/ "store" \in Faults /\ Failed /\ step' = "plan"
  /\ UNCHANGED <<status, legacy, delivered, rest>>

Preflight ==
  /\ step = "preflight"
  /\ Transition("preflight") /\ step' = "plan"
  /\ UNCHANGED <<status, legacy, delivered, rest>>

\* An error or a cancellation of the render takes it to finish().
Ends ==
  /\ step \in {"plan", "contracts", "render", "verified"} /\ "render" \in Faults
  /\ status' \in IF step = "verified" THEN {"error"} ELSE {"error", "cancelled"}
  /\ step' = "finish"
  /\ UNCHANGED <<legacy, files, delivered, missed, rest>>

\* plan.json, then its fingerprint, then the job runs, then contracts.json.  A file that cannot be
\* written fails the render.
WritePlan ==
  /\ step = "plan"
  /\ \/ plan' = TRUE /\ step' = "contracts" /\ UNCHANGED status
     \/ "disk" \in Faults /\ step' = "finish" /\ status' = "error" /\ UNCHANGED plan
  /\ UNCHANGED <<job, contracts, files, delivered, missed, rest>>

RunAndContracts ==
  /\ step = "contracts"
  /\ TransitionFrom({"preflight"}, "running")
  /\ \/ contracts' = TRUE /\ step' = "render" /\ UNCHANGED status
     \/ "disk" \in Faults /\ step' = "finish" /\ status' = "error" /\ UNCHANGED contracts
  /\ UNCHANGED <<job, plan, delivered, rest>>

WriteVerification ==
  /\ step = "render"
  /\ TransitionFrom({"running"}, "verifying")
  /\ step' = "verified"
  /\ UNCHANGED <<status, legacy, delivered, rest>>

Promote ==
  /\ step = "verified"
  /\ delivered' = TRUE /\ status' = "success" /\ step' = "finish"
  /\ UNCHANGED <<legacy, files, missed, rest>>

\* finish() writes job.json; when that fails the manifest is left as it was.
FinishJob ==
  /\ step = "finish"
  /\ \/ job' = status /\ step' = "shadow" /\ UNCHANGED missed
     \/ "disk" \in Faults /\ step' = "off" /\ missed' = TRUE /\ UNCHANGED job
  /\ UNCHANGED <<status, plan, contracts, files, delivered, rest>>

\* A success whose verification was not recorded is taken through it first.
FinishManifest ==
  /\ step = "shadow"
  /\ CASE status = "success" /\ Current = "running" ->
            TransitionFrom({"running"}, "verifying") /\ step' = IF manifest' = "verifying" THEN "shadow" ELSE "off"
       [] status = "success" /\ Current # "running" ->
            TransitionFrom({"verifying"}, "complete") /\ step' = "off"
       [] status = "cancelled" ->
            /\ TransitionFrom({"preflight", "running", "paused", "recoverable", "blocked"}, "cancelled")
            /\ step' = "off"
       [] status = "error" ->
            TransitionFrom({"preflight", "running", "verifying"}, "blocked") /\ step' = "off"
  /\ UNCHANGED <<status, legacy, delivered, rest>>

Crash ==
  /\ "crash" \in Faults /\ step # "off"
  /\ step' = "off"
  /\ UNCHANGED <<status, legacy, files, delivered, missed, rest>>

(* --------------------------- the next starts --------------------------- *)

\* classify_legacy_job: only job, plan and contracts together are trusted.
Trusted == job # "none" /\ plan /\ contracts

\* _legacy_manifest walks through the transitions in memory and the store writes the last state.
Migrated ==
  CASE job = "success" -> "complete" [] job = "cancelled" -> "cancelled"
    [] job = "error" -> "blocked" [] OTHER -> "interrupted"

Migrate ==
  /\ step = "off" /\ manifest = "none" /\ Trusted
  /\ manifest' = Migrated
  /\ UNCHANGED <<step, status, legacy, backup, delivered, missed, rest>>

\* RecoveryService._classification of a job no worker owns, with its source present.
Classified(state) ==
  CASE state \in {"interrupted", "auditing", "repairing", "running", "verifying"} -> "needs_audit"
    [] state \in {"paused", "recoverable", "cancelled", "queued", "preflight"} -> "recoverable"
    [] OTHER -> "blocked"

Discovered ==
  CASE manifest = "none" /\ backup = "none" -> "none"
    [] Readable(manifest) ->
         IF manifest \in {"complete", "discarded"} THEN "none" ELSE Classified(manifest)
    [] ~Readable(manifest) /\ Readable(backup) ->
         IF backup \in {"complete", "discarded"} THEN "none" ELSE "needs_audit"
    [] OTHER -> "blocked"

Start ==
  /\ step = "off" /\ starts < MaxStarts
  /\ starts' = starts + 1
  /\ offered' = IF ring >= 3 THEN Discovered ELSE "none"
  /\ UNCHANGED <<step, status, legacy, files, delivered, missed, ring>>

\* write_ring and rollback_to_shadow.
SetRing ==
  /\ step = "off" /\ ring' \in {1, 3} \ {ring} /\ starts < MaxStarts
  /\ UNCHANGED <<step, status, legacy, files, delivered, missed, offered, starts>>

Rot ==
  /\ "rot" \in Faults /\ step = "off"
  /\ \/ Readable(manifest) /\ manifest' = "bad" /\ UNCHANGED backup
     \/ Readable(backup) /\ backup' = "bad" /\ UNCHANGED manifest
  /\ missed' = TRUE
  /\ UNCHANGED <<step, status, legacy, delivered, rest>>

Render == \/ WriteJob \/ Create \/ Preflight \/ Ends \/ WritePlan \/ RunAndContracts
          \/ WriteVerification \/ Promote \/ FinishJob \/ FinishManifest
Next == Render \/ Crash \/ Migrate \/ Start \/ SetRing \/ Rot

Spec == Init /\ [][Next]_vars

(* --------------------------- properties --------------------------- *)

TypeOK ==
  /\ step \in {"job", "create", "preflight", "plan", "contracts", "render", "verified", "finish",
               "shadow", "off"}
  /\ status \in {"none", "success", "cancelled", "error"}
  /\ job \in {"none", "running", "success", "cancelled", "error"}
  /\ manifest \in JobStates \cup {"none", "bad"} /\ backup \in JobStates \cup {"none", "bad"}
  /\ ring \in {1, 3} /\ offered \in {"none", "blocked", "recoverable", "needs_audit"}

\* No render is delivered twice: a job is offered for resumption only when it was not delivered,
\* wherever the crash, unless a write of its manifest had failed.
ResumeOnlyUndelivered == offered = "recoverable" => ~delivered \/ missed

\* Work is not declared done, and so hidden from recovery, before its output is in place.
CompleteIsDelivered ==
  (manifest = "complete" \/ backup = "complete" \/ job = "success") => delivered

\* Once the history is closed and nothing failed, the manifest says what job.json says.
ShadowAgrees ==
  step = "off" /\ ~missed /\ job \in {"success", "cancelled", "error"} /\ status = job
      /\ manifest # "none" =>
    \/ manifest = Migrated
    \/ manifest \in {"preflight", "running", "verifying"}   \* the process died in between

\* "Keep preserved work visible": a discovery lists every undelivered job that has a manifest.
ListedWhenFound ==
  starts' # starts /\ ring >= 3 /\ ~delivered /\ (manifest # "none" \/ backup # "none")
    => offered' # "none"
NothingHidden == [][ListedWhenFound]_vars

(* The inductive invariant (ComponentProofs): as long as no write was missed, the manifest is as *)
(* far as the render, and only a success, which has delivered, is written as one.                 *)
Step(steps) == step \in steps
Success ==
  /\ delivered => Step({"finish", "shadow", "off"}) /\ status = "success"
  /\ status = "success" => delivered
  /\ ~Step({"finish", "shadow", "off"}) => status = "none"
  /\ status = "cancelled" /\ Step({"finish", "shadow"}) => missed \/ manifest # "verifying"
  /\ Step({"finish", "shadow"}) => status # "none"
  /\ Step({"shadow"}) => job = status
  /\ job \in {"success", "cancelled", "error"} => Step({"shadow", "off"})
  /\ manifest # "discarded" /\ backup # "discarded"
  /\ offered # "none" => step = "off"
InStep ==
  ~missed => /\ Step({"job", "create"}) => manifest = "none"
             /\ Step({"preflight"}) => manifest = "queued"
             /\ Step({"plan", "contracts"}) => manifest = "preflight"
             /\ Step({"render"}) => manifest = "running"
             /\ Step({"verified"}) => manifest = "verifying"
             /\ Step({"finish", "shadow"}) => manifest \in {"preflight", "running", "verifying"}
             /\ delivered => manifest \in {"verifying", "complete"}
Inv == TypeOK /\ Success /\ InStep /\ ResumeOnlyUndelivered /\ CompleteIsDelivered /\ ShadowAgrees
=============================================================================
