------------------------------ MODULE RenderJob ------------------------------
(***************************************************************************)
(* The life of a render job, from render_job.py: the states of a manifest   *)
(* and the transitions RenderJobManifest.transition accepts.                *)
(***************************************************************************)
EXTENDS Naturals

JobStates == {"queued", "preflight", "running", "pause_requested", "paused",
              "interrupted", "auditing", "repairing", "recoverable", "blocked",
              "verifying", "complete", "cancelled", "discarded"}

(* ALLOWED_TRANSITIONS as a relation; a discarded job stays discarded.      *)
AllowedTransitions == UNION {
    {"queued"} \X {"preflight"},
    {"preflight"} \X {"running", "blocked", "cancelled"},
    {"running"} \X {"pause_requested", "verifying", "interrupted", "recoverable", "blocked", "cancelled"},
    {"pause_requested"} \X {"paused", "interrupted", "blocked"},
    {"paused"} \X {"recoverable", "cancelled"},
    {"interrupted"} \X {"auditing"},
    {"auditing"} \X {"recoverable", "repairing", "blocked"},
    {"repairing"} \X {"auditing", "recoverable", "blocked"},
    {"recoverable"} \X {"preflight", "cancelled"},
    {"blocked"} \X {"auditing", "recoverable", "cancelled"},
    {"verifying"} \X {"complete", "recoverable", "blocked"},
    {"complete"} \X {"discarded"},
    {"cancelled"} \X {"recoverable", "discarded"}}

NextStates(s) == {t \in JobStates : <<s, t>> \in AllowedTransitions}

(* A manifest: its revision, its state, and who wrote that revision, which   *)
(* stands for all the other fields.                                          *)
Manifests(Writers) == [rev : Nat, state : JobStates, by : Writers]

(* RenderJobManifest.new                                                     *)
NewManifest(w) == [rev |-> 0, state |-> "queued", by |-> w]

(* transition(target), or one of the with_... methods, which keep the state  *)
Successors(m, w) ==
    {[rev |-> m.rev + 1, state |-> s, by |-> w] :
        s \in NextStates(m.state) \cup {m.state}}
=============================================================================
