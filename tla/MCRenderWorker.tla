---------------------------- MODULE MCRenderWorker ----------------------------
(* An instance of RenderWorker for TLC that remembers whether it was hurt: a   *)
(* worker died, a write failed, or a command could not be read while a cancel *)
(* or a recorded pause was still to be carried out, which that failure drops. *)
(* After it the liveness properties promise nothing.                          *)
EXTENDS RenderWorker, TLC

CONSTANTS a, b, halt, stop, quit
VARIABLE hurt

HaltStopQuit == halt :> "pause" @@ stop :> "cancel" @@ quit :> "shutdown"
OneCancel    == stop :> "cancel"

all == <<vars, hurt>>
Pending(w) == cancel[w] \/ job = "pause_requested"
Orderly == \/ \E w \in Workers : Launch(w) \/ Run(w) \/ (Reject(w) /\ ~Pending(w))
           \/ \E c \in Commands : Submit(c)
Hurts   == \E w \in Workers : WriteFails(w) \/ Crash(w) \/ (Reject(w) /\ Pending(w))
MCInit  == Init /\ hurt = FALSE
MCNext  == (Orderly /\ UNCHANGED hurt) \/ (Hurts /\ hurt' = TRUE)

MCSpec ==
    /\ MCInit /\ [][MCNext]_all
    /\ \A w \in Workers : WF_all(Run(w) /\ UNCHANGED hurt)
    /\ WF_all((\E w \in Workers : Launch(w)) /\ UNCHANGED hurt)

(* No readable command is lost whenever a worker dies or a write fails; and   *)
(* until the workers are hurt, no job without an owner is left in a state     *)
(* that only an owner can leave, and what was set aside was never answered,   *)
(* so that sending it again does not execute it twice.                        *)
AnsweredAndAtRest ==
    /\ AnsweredOrRejected
    /\ ~hurt => FreeJobAtRest /\ In("rejected") \cap replied = {}

(* A cancel that was answered with ok cancels the job, unless a worker dies,  *)
(* a write fails or a later command cannot be read.                           *)
CancelKept ==
    \A c \in Commands : KindOf[c] = "cancel" /\ c \in replied ~> job = "cancelled" \/ hurt

(* A recorded request to pause comes to its end, unless a worker dies, a      *)
(* write fails or a later command cannot be read.                             *)
PauseKept == job = "pause_requested" ~> job = "paused" \/ hurt
=============================================================================
