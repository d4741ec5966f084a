----------------------------- MODULE RenderWorker -----------------------------
(***************************************************************************)
(* The execution of one job: RenderWorker (render_worker.py) driving the    *)
(* manifest, the job lease and the command files of WorkerCommandQueue      *)
(* (worker_protocol.py), through failures, crashes and restarts.            *)
(*                                                                          *)
(* The manifest is reduced to its state: JobStore shows that an update is   *)
(* atomic, and with one owner a load followed by a transition is too.  The  *)
(* lease is reduced to what JobLease shows of it: one owner, replaced once  *)
(* it is dead, or, with Takeover, while it is still running.                *)
(***************************************************************************)
EXTENDS RenderJob, FiniteSets

CONSTANTS Workers, Commands, KindOf,
          MayCrash,  \* may a worker process die at any step
          DiskFull,  \* may a write of the worker fail
          Takeover,  \* may the lease of a running worker be taken
          Unreadable,\* commands whose file may fail to be read: damaged,
                     \* malformed, or held by another program at that moment
          Nobody

Kinds == {"start", "pause", "resume", "cancel", "status", "shutdown"}

ASSUME WorkerAssumption == /\ KindOf \in [Commands -> Kinds]
                           /\ {MayCrash, DiskFull, Takeover} \subseteq BOOLEAN
                           /\ Unreadable \subseteq Commands
                           /\ Nobody \notin Workers

VARIABLES job,          \* the state in the manifest
          owner,        \* whom lease.json names
          pc, after,    \* where a worker is; where it goes once the inbox is empty
          pause, cancel,\* the flags of its WorkerContext
          cmd,          \* the command it has claimed last
          place,        \* where the file of every command is
          sentAt,       \* the time in its name, which orders the inbox
          replied       \* commands with a reply file

vars == <<job, owner, pc, after, pause, cancel, cmd, place, sentAt, replied>>

(* "rejected" is the directory "done" under the name *.invalid.json.         *)
Places == {"unsent", "inbox", "processing", "done", "rejected"}
Guarded == {"recover", "enter", "beat", "execute", "poll", "read", "handle",
            "reply", "finish", "boundary", "final"}
Handlers == {"pausing", "cancelling", "failing"}
Locations == {"off", "release"} \cup Guarded \cup Handlers

At(w, loc) == pc[w] = loc
Goto(w, loc) == pc' = [pc EXCEPT ![w] = loc]
In(p) == {c \in Commands : place[c] = p}

-----------------------------------------------------------------------------
Init == /\ job \in {"queued", "preflight"}
        /\ owner = Nobody
        /\ pc = [w \in Workers |-> "off"]
        /\ after = [w \in Workers |-> "final"]
        /\ pause = [w \in Workers |-> FALSE]
        /\ cancel = [w \in Workers |-> FALSE]
        /\ cmd \in [Workers -> Commands]
        /\ place = [c \in Commands |-> "unsent"]
        /\ sentAt = [c \in Commands |-> 0]
        /\ replied = {}

(* submit, by the user interface at any time                                 *)
Submit(c) ==
    /\ place[c] = "unsent"
    /\ place' = [place EXCEPT ![c] = "inbox"]
    /\ sentAt' = [sentAt EXCEPT ![c] = 1 + Cardinality(Commands \ In("unsent"))]
    /\ UNCHANGED <<job, owner, pc, after, pause, cancel, cmd, replied>>

(* run: acquire the lease, or LeaseBusy.                                     *)
Launch(w) ==
    /\ At(w, "off")
    /\ owner \in Workers /\ ~Takeover => At(owner, "off")
    /\ owner' = w
    /\ pause' = [pause EXCEPT ![w] = FALSE]
    /\ cancel' = [cancel EXCEPT ![w] = FALSE]
    /\ Goto(w, "recover")
    /\ UNCHANGED <<job, after, cmd, place, sentAt, replied>>

(* Mutant: everything in processing is queued again.                         *)
RecoverQueued(w) ==
    /\ At(w, "recover")
    /\ place' = [c \in Commands |-> IF place[c] = "processing" THEN "inbox" ELSE place[c]]
    /\ Goto(w, "enter")
    /\ UNCHANGED <<job, owner, after, pause, cancel, cmd, sentAt, replied>>

(* Where recover_processing may put a command: one it cannot read is set     *)
(* aside, and the recovery goes on.                                          *)
Recovered(c) == {IF c \in replied THEN "done" ELSE "inbox"}
                  \cup (IF c \in Unreadable THEN {"rejected"} ELSE {})

(* recover_processing, one command file at a time                            *)
Recover(w) ==
    /\ At(w, "recover")
    /\ \/ \E c \in In("processing"), p \in Places :
              /\ p \in Recovered(c)
              /\ place' = [place EXCEPT ![c] = p]
              /\ UNCHANGED pc
       \/ /\ In("processing") = {}
          /\ Goto(w, "enter")
          /\ UNCHANGED place
    /\ UNCHANGED <<job, owner, after, pause, cancel, cmd, sentAt, replied>>

(* _enter_running, one transition at a time                                  *)
EntryStep == [queued |-> "preflight", paused |-> "recoverable",
              recoverable |-> "preflight", preflight |-> "running"]

EnterRunning(w) ==
    /\ At(w, "enter")
    /\ \/ /\ job \in DOMAIN EntryStep
          /\ job' = EntryStep[job]
          /\ UNCHANGED pc
       \/ /\ job = "running"
          /\ Goto(w, "beat")
          /\ UNCHANGED job
       \/ /\ job \notin DOMAIN EntryStep \cup {"running"}
          /\ Goto(w, "failing")
          /\ UNCHANGED job
    /\ UNCHANGED <<owner, after, pause, cancel, cmd, place, sentAt, replied>>

Heartbeat(w) ==
    /\ At(w, "beat")
    /\ Goto(w, IF owner = w THEN "execute" ELSE "failing")
    /\ UNCHANGED <<job, owner, after, pause, cancel, cmd, place, sentAt, replied>>

(* The executor works, comes to a checkpoint, returns or raises.             *)
Execute(w) ==
    /\ At(w, "execute")
    /\ \/ \E a \in {"boundary", "final"} : /\ after' = [after EXCEPT ![w] = a]
                                           /\ Goto(w, "poll")
       \/ /\ Goto(w, "failing")
          /\ UNCHANGED after
    /\ UNCHANGED <<job, owner, pause, cancel, cmd, place, sentAt, replied>>

(* next: the oldest file of the inbox is renamed into processing.            *)
Claim(w) ==
    /\ At(w, "poll")
    /\ \/ \E c \in In("inbox") :
              /\ \A d \in In("inbox") : sentAt[c] <= sentAt[d]
              /\ place' = [place EXCEPT ![c] = "processing"]
              /\ cmd' = [cmd EXCEPT ![w] = c]
              /\ Goto(w, "read")
       \/ /\ In("inbox") = {}
          /\ Goto(w, after[w])
          /\ UNCHANGED <<place, cmd>>
    /\ UNCHANGED <<job, owner, after, pause, cancel, sentAt, replied>>

(* next: the claimed file is read, unless another worker has taken it back.  *)
ReadCommand(w) ==
    /\ At(w, "read")
    /\ Goto(w, IF place[cmd[w]] = "processing" THEN "handle" ELSE "failing")
    /\ UNCHANGED <<job, owner, after, pause, cancel, cmd, place, sentAt, replied>>

(* next: whatever reading and parsing the claimed file raises, the file is   *)
(* set aside without an answer and the exception fails the run.              *)
Reject(w) ==
    /\ At(w, "read")
    /\ cmd[w] \in Unreadable /\ place[cmd[w]] = "processing"
    /\ place' = [place EXCEPT ![cmd[w]] = "rejected"]
    /\ Goto(w, "failing")
    /\ UNCHANGED <<job, owner, after, pause, cancel, cmd, sentAt, replied>>

(* poll_commands: only a pause reaches the manifest, and only from running.  *)
Handle(w) ==
    LET k == KindOf[cmd[w]] IN
    /\ At(w, "handle")
    /\ job' = IF k = "pause" /\ ~pause[w] /\ job = "running"
              THEN "pause_requested" ELSE job
    /\ pause' = [pause EXCEPT ![w] = pause[w] \/ k \in {"pause", "shutdown"}]
    /\ cancel' = [cancel EXCEPT ![w] = cancel[w] \/ k = "cancel"]
    /\ Goto(w, "reply")
    /\ UNCHANGED <<owner, after, cmd, place, sentAt, replied>>

(* acknowledge: the reply is written, then the command file is filed away,   *)
(* if it is still where this worker has put it.                              *)
Reply(w) ==
    /\ At(w, "reply")
    /\ replied' = replied \cup {cmd[w]}
    /\ Goto(w, "finish")
    /\ UNCHANGED <<job, owner, after, pause, cancel, cmd, place, sentAt>>

Finish(w) ==
    /\ At(w, "finish")
    /\ LET mine == place[cmd[w]] = "processing" IN
       /\ place' = IF mine THEN [place EXCEPT ![cmd[w]] = "done"] ELSE place
       /\ Goto(w, IF mine THEN "poll" ELSE "failing")
    /\ UNCHANGED <<job, owner, after, pause, cancel, cmd, sentAt, replied>>

(* Mutant: a pause comes before a cancel.                                    *)
BoundaryPauseFirst(w) ==
    /\ At(w, "boundary")
    /\ Goto(w, IF owner # w THEN "failing"
               ELSE IF pause[w] THEN "pausing"
               ELSE IF cancel[w] THEN "cancelling" ELSE "execute")
    /\ UNCHANGED <<job, owner, after, pause, cancel, cmd, place, sentAt, replied>>

(* The rest of checkpoint: heartbeat, then cancel before pause.              *)
Boundary(w) ==
    /\ At(w, "boundary")
    /\ Goto(w, IF owner # w THEN "failing"
               ELSE IF cancel[w] THEN "cancelling"
               ELSE IF pause[w] THEN "pausing" ELSE "execute")
    /\ UNCHANGED <<job, owner, after, pause, cancel, cmd, place, sentAt, replied>>

(* The executor has returned: no heartbeat, and only running is left.        *)
Conclude(w) ==
    /\ At(w, "final")
    /\ Goto(w, IF cancel[w] THEN "cancelling"
               ELSE IF pause[w] THEN "pausing" ELSE "release")
    /\ job' = IF job = "running" /\ ~cancel[w] /\ ~pause[w] THEN "verifying" ELSE job
    /\ UNCHANGED <<owner, after, pause, cancel, cmd, place, sentAt, replied>>

(* Mutant: the requested pause is not confirmed.                             *)
MarkPauseRequested(w) ==
    /\ At(w, "pausing")
    /\ job' = IF job = "running" THEN "pause_requested" ELSE job
    /\ Goto(w, "release")
    /\ UNCHANGED <<owner, after, pause, cancel, cmd, place, sentAt, replied>>

(* except WorkerPaused                                                       *)
MarkPaused(w) ==
    /\ At(w, "pausing")
    /\ \/ /\ job = "running"
          /\ job' = "pause_requested"
          /\ UNCHANGED pc
       \/ /\ job # "running"
          /\ job' = IF job = "pause_requested" THEN "paused" ELSE job
          /\ Goto(w, "release")
    /\ UNCHANGED <<owner, after, pause, cancel, cmd, place, sentAt, replied>>

(* _mark_cancelled, which raises from any other state                        *)
MarkCancelled(w) ==
    /\ At(w, "cancelling")
    /\ \/ /\ job = "pause_requested"
          /\ job' = "paused"
          /\ UNCHANGED pc
       \/ /\ job # "pause_requested"
          /\ job' = IF job \in {"preflight", "running", "paused", "recoverable", "blocked"}
                    THEN "cancelled" ELSE job
          /\ Goto(w, "release")
    /\ UNCHANGED <<owner, after, pause, cancel, cmd, place, sentAt, replied>>

(* Mutant: the error is recorded without a transition.                       *)
MarkNothing(w) ==
    /\ At(w, "failing")
    /\ Goto(w, "release")
    /\ UNCHANGED <<job, owner, after, pause, cancel, cmd, place, sentAt, replied>>

(* except Exception: the error is recorded, and three states become blocked. *)
MarkFailed(w) ==
    /\ At(w, "failing")
    /\ job' = IF job \in {"preflight", "running", "verifying"} THEN "blocked" ELSE job
    /\ Goto(w, "release")
    /\ UNCHANGED <<owner, after, pause, cancel, cmd, place, sentAt, replied>>

Release(w) ==
    /\ At(w, "release")
    /\ owner' = IF owner = w THEN Nobody ELSE owner
    /\ Goto(w, "off")
    /\ UNCHANGED <<job, after, pause, cancel, cmd, place, sentAt, replied>>

(* A write, a rename or the reading of the manifest raises: in the body of   *)
(* run it is a failure of the worker, in a handler it goes through to the    *)
(* release.  At "read" it is the rename that should set the file aside.      *)
WriteFails(w) ==
    /\ DiskFull
    /\ \/ /\ pc[w] \in Guarded \ {"execute"}
          /\ At(w, "read") => cmd[w] \in Unreadable
          /\ Goto(w, "failing")
       \/ pc[w] \in Handlers /\ Goto(w, "release")
    /\ UNCHANGED <<job, owner, after, pause, cancel, cmd, place, sentAt, replied>>

Crash(w) ==
    /\ MayCrash /\ ~At(w, "off")
    /\ Goto(w, "off")
    /\ UNCHANGED <<job, owner, after, pause, cancel, cmd, place, sentAt, replied>>

-----------------------------------------------------------------------------
Commanded(w) == Claim(w) \/ ReadCommand(w) \/ Handle(w) \/ Reply(w) \/ Finish(w)

Run(w) == \/ Recover(w) \/ EnterRunning(w) \/ Heartbeat(w) \/ Execute(w)
          \/ Commanded(w) \/ Boundary(w) \/ Conclude(w) \/ MarkPaused(w)
          \/ MarkCancelled(w) \/ MarkFailed(w) \/ Release(w)

Next == \/ \E w \in Workers : Launch(w) \/ Run(w) \/ Reject(w) \/ WriteFails(w) \/ Crash(w)
        \/ \E c \in Commands : Submit(c)

Spec == Init /\ [][Next]_vars

(* A running worker goes on, and a job without a worker gets one.            *)
FairSpec == /\ Spec
            /\ \A w \in Workers : WF_vars(Run(w))
            /\ WF_vars(\E w \in Workers : Launch(w))

-----------------------------------------------------------------------------
TypeOK ==
    /\ job \in JobStates
    /\ owner \in Workers \cup {Nobody}
    /\ pc \in [Workers -> Locations]
    /\ after \in [Workers -> {"boundary", "final"}]
    /\ pause \in [Workers -> BOOLEAN]
    /\ cancel \in [Workers -> BOOLEAN]
    /\ cmd \in [Workers -> Commands]
    /\ place \in [Commands -> Places]
    /\ sentAt \in [Commands -> 0 .. Cardinality(Commands)]
    /\ replied \subseteq Commands

(* Whenever a worker dies or fails, what is filed under the name of its      *)
(* command was answered, and what is set aside as invalid, unanswered, is a  *)
(* command whose file could not be read: no readable command is lost.        *)
AnsweredOrRejected == /\ In("done") \subseteq replied
                      /\ In("rejected") \subseteq Unreadable

(* recover_processing: what has been answered is never executed again.       *)
HandledOnce == [][\A w \in Workers : Handle(w) => cmd[w] \notin replied]_vars

(* "exceção recebe erro WORKER-FAILED e estado blocked": a job that nobody   *)
(* owns is in none of the states that only an owner can leave.               *)
FreeJobAtRest == owner = Nobody => job \notin {"running", "pause_requested"}

(* A cancel that was answered with ok does cancel the job.                   *)
CancelHonoured == \A c \in Commands :
    KindOf[c] = "cancel" /\ c \in replied ~> job = "cancelled"

(* "Pausa cooperativa termina na proxima fronteira segura e grava paused":   *)
(* a recorded request to pause comes to an end.                              *)
PauseCompletes == job = "pause_requested" ~> job = "paused"

(* "The job lease still owns execution rights": only the worker the lease    *)
(* names moves the job.                                                      *)
OnlyOwnerMoves == [][\A w \in Workers : Run(w) /\ job' # job => owner = w]_vars
=============================================================================
