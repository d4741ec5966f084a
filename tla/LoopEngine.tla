------------------------------- MODULE LoopEngine -------------------------------
(***************************************************************************)
(* The classic mode (loop_engine.py, with the effect of aurora.py): a       *)
(* window, a worker thread for each conversion, the command the thread runs *)
(* and the handle by which a cancellation finds it.  A thread posts its     *)
(* result before its finally block forgets the handle and deletes its files,*)
(* so that the next conversion may run beside the end of the last one.      *)
(***************************************************************************)
EXTENDS Integers, Sequences

CONSTANTS
  MaxRuns,
  Faults       \* a subset of {"media", "unlink"}

VARIABLES
  open,        \* the window, and with it the process, is there
  busy,        \* _busy
  cancelled,   \* _cancelled
  run,         \* the last conversion started, 0 before the first
  job,         \* what it was asked for
  stage,       \* the command it has come to
  pc,          \* where the thread of each conversion is
  alive,       \* conversions whose command is running
  good,        \* did the last command of the last conversion succeed?
  handle,      \* the conversion whose running command _process names, or 0
  temps,       \* conversions whose temporary files are on disk
  output,      \* who wrote the output, and is it whole?
  events,      \* _events: the results only
  late         \* commands started since the cancellation

vars == <<open, busy, cancelled, run, job, stage, pc, alive, good, handle, temps, output, events, late>>
window == <<open, busy, cancelled, run, job>>
disk == <<temps, output>>

Runs == 1 .. MaxRuns
Jobs == [ai: BOOLEAN, aurora: BOOLEAN]
EnhanceClip == <<"extract", "neural", "merge">>
Aurora      == <<"master", "reactive", "final">>
Plain       == <<"master", "final">>
Commands(j) == (IF j.ai THEN EnhanceClip ELSE <<>>) \o (IF j.aurora THEN Aurora ELSE Plain)
Command == Commands(job)[stage]

\* The neural command and the effect look at the flag while they wait; an FFmpeg
\* is only read to its end.
Watched == {"neural", "reactive"}

Init ==
  /\ open = TRUE /\ busy = FALSE /\ cancelled = FALSE
  /\ run = 0 /\ job \in Jobs /\ stage = 1
  /\ pc = [r \in Runs |-> "none"]
  /\ alive = {} /\ good = FALSE /\ handle = 0
  /\ temps = {} /\ output = [by |-> 0, whole |-> FALSE]
  /\ events = <<>> /\ late = 0

(* --------------------------- the window --------------------------- *)

Start(j) ==
  /\ open /\ ~busy /\ run < MaxRuns
  /\ busy' = TRUE /\ cancelled' = FALSE
  /\ run' = run + 1 /\ job' = j /\ stage' = 1
  /\ pc' = [pc EXCEPT ![run'] = "analyse"]
  /\ good' = FALSE /\ late' = 0
  /\ UNCHANGED <<open, alive, handle, disk, events>>

\* terminate_process_tree of what _process names.
Kill == /\ alive' = alive \ {handle}
        /\ good' = (good /\ handle \notin alive)
        /\ handle' = 0

Cancel ==
  /\ open /\ busy
  /\ cancelled' = TRUE
  /\ Kill
  /\ UNCHANGED <<open, busy, run, job, stage, pc, disk, events, late>>

\* The worker's result reaches the window.
PollEvents ==
  /\ open /\ events # <<>>
  /\ events' = Tail(events)
  /\ busy' = FALSE
  /\ UNCHANGED <<open, cancelled, run, job, stage, pc, alive, good, handle, disk, late>>

\* The window is destroyed; a conversion is cancelled first.
Close ==
  /\ open /\ open' = FALSE
  /\ IF busy THEN cancelled' = TRUE /\ Kill
             ELSE UNCHANGED <<cancelled, alive, good, handle>>
  /\ UNCHANGED <<busy, run, job, stage, pc, disk, events, late>>

\* The process ends, and its daemon threads wherever they are.
Exit ==
  /\ ~open
  /\ pc' = [r \in Runs |-> "none"]
  /\ UNCHANGED <<window, stage, alive, good, handle, disk, events, late>>

(* --------------------------- a worker --------------------------- *)

Goto(r, place) == pc' = [pc EXCEPT ![r] = place]
At(r, place) == pc[r] = place

Tell(r, kind) ==
  /\ events' = Append(events, [kind |-> kind, run |-> r])
  /\ Goto(r, "forget")

\* Probing, the encoder, the free space; then the first temporary file.
Analyse(r) ==
  /\ At(r, "analyse")
  /\ \/ /\ Goto(r, "start")
        /\ temps' = temps \cup {r}
        /\ UNCHANGED events
     \/ Tell(r, "error") /\ UNCHANGED temps
  /\ UNCHANGED <<window, stage, alive, good, handle, output, late>>

Popen(r) ==
  /\ At(r, "start")
  /\ alive' = alive \cup {r}
  /\ output' = IF Command = "final" THEN [by |-> r, whole |-> FALSE] ELSE output
  /\ late' = IF cancelled THEN late + 1 ELSE late
  /\ Goto(r, "started")
  /\ UNCHANGED <<window, stage, good, handle, temps, events>>

\* The executable is missing, or the effect sees the flag: before it decodes the audio,
\* or after.
StartFails(r) ==
  /\ At(r, "start")
  /\ \/ "media" \in Faults /\ Tell(r, "error")
     \/ Command = "reactive" /\ cancelled /\ Tell(r, "cancelled")
  /\ UNCHANGED <<window, stage, alive, good, handle, disk, late>>

\* self._process = process
Register(r) ==
  /\ At(r, "started")
  /\ handle' = IF r \in alive THEN r ELSE 0
  /\ Goto(r, "watch")
  /\ UNCHANGED <<window, stage, alive, good, disk, events, late>>

\* The command ends by itself, also when nobody is left to wait for it.
CommandEnds(r) ==
  /\ r \in alive
  /\ alive' = alive \ {r}
  /\ good' \in IF "media" \in Faults THEN BOOLEAN ELSE {TRUE}
  /\ output' = IF Command = "final" THEN [by |-> r, whole |-> good'] ELSE output
  /\ handle' = IF handle = r THEN 0 ELSE handle
  /\ UNCHANGED <<window, stage, pc, temps, events, late>>

\* The polling loop, or the loop that feeds the frames, sees the flag.
Interrupt(r) ==
  /\ At(r, "watch") /\ Command \in Watched /\ cancelled /\ r \in alive
  /\ alive' = alive \ {r} /\ good' = FALSE
  /\ handle' = IF handle = r THEN 0 ELSE handle
  /\ UNCHANGED <<window, stage, pc, disk, events, late>>

\* The command has ended: a cancellation, a failure, the next command, the check
\* of the whole.
Collect(r) ==
  /\ At(r, "watch") /\ r \notin alive
  /\ \/ cancelled /\ Tell(r, "cancelled") /\ UNCHANGED stage
     \/ ~cancelled /\ ~good /\ Tell(r, "error") /\ UNCHANGED stage
     \/ /\ ~cancelled /\ good /\ stage < Len(Commands(job))
        /\ stage' = stage + 1 /\ Goto(r, "start") /\ UNCHANGED events
     \/ /\ ~cancelled /\ good /\ stage = Len(Commands(job))
        /\ Goto(r, "verify") /\ UNCHANGED <<stage, events>>
  /\ UNCHANGED <<window, alive, good, handle, disk, late>>

\* The probe of the output: its size, its cadence, its duration.
Verify(r) ==
  /\ At(r, "verify")
  /\ \/ output.whole /\ Tell(r, "done")
     \/ (~output.whole \/ "media" \in Faults) /\ Tell(r, "error")
  /\ UNCHANGED <<window, stage, alive, good, handle, disk, late>>

\* The finally block: self._process = None, whoever it names by now.
Forget(r) ==
  /\ At(r, "forget")
  /\ handle' = 0
  /\ Goto(r, "delete")
  /\ UNCHANGED <<window, stage, alive, good, disk, events, late>>

Delete(r) ==
  /\ At(r, "delete")
  /\ temps' \in {temps \ {r}} \cup (IF "unlink" \in Faults THEN {temps} ELSE {})
  /\ Goto(r, "over")
  /\ UNCHANGED <<window, stage, alive, good, handle, output, events, late>>

Work(r) == Analyse(r) \/ Popen(r) \/ StartFails(r) \/ Register(r) \/ Interrupt(r) \/ Collect(r)
           \/ Verify(r) \/ Forget(r) \/ Delete(r)

Next ==
  \/ \E j \in Jobs : Start(j)
  \/ Cancel \/ PollEvents \/ Close \/ Exit
  \/ \E r \in Runs : Work(r) \/ CommandEnds(r)

\* What goes on by itself: the threads, their commands, the timer of the window.
Running == PollEvents \/ \E r \in Runs : Work(r) \/ CommandEnds(r)

Spec == Init /\ [][Next]_vars

Converting == open /\ busy

(* --------------------------- properties --------------------------- *)

TypeOK ==
  /\ {open, busy, cancelled, good} \subseteq BOOLEAN
  /\ run \in 0 .. MaxRuns /\ job \in Jobs /\ stage \in 1 .. Len(Commands(job))
  /\ pc \in [Runs -> {"none", "analyse", "start", "started", "watch", "verify", "forget", "delete", "over"}]
  /\ alive \subseteq Runs /\ handle \in {0} \cup alive
  /\ temps \subseteq Runs
  /\ output \in [by: 0 .. MaxRuns, whole: BOOLEAN]
  /\ events \in Seq([kind: {"done", "cancelled", "error"}, run: Runs])
  /\ late \in 0 .. 6

\* A conversion that is announced as done has its own whole file at the output: no
\* other conversion, one that is just ending included, has written there meanwhile
\* (_worker, _verify_and_finish).
DoneIsItsOwn ==
  \A i \in 1 .. Len(events) :
    events[i].kind = "done" => output = [by |-> events[i].run, whole |-> TRUE]

\* At most one command is still started after a cancellation: the one between the
\* last look at the flag and Popen (_run_ffmpeg).
StopsSoon == late <= 1

\* A conversion never runs its commands beside those of another one, and one that
\* has ended has none: as long as the window is there.
OneCommand ==
  open => \A r \in alive : r = run /\ pc[r] \in {"started", "watch"}

\* Not true: a conversion that is just ending forgets the handle of the next one, and
\* until the handle is stored nothing is found to be terminated; an FFmpeg then runs
\* to its end although the window says "Cancelando".
CancelReaches == [][Cancel => alive' = {}]_vars

\* Not true, for the same reasons: a command outlives the window.
ClosedIsQuiet == [][Close => alive' = {}]_vars

(* The inductive invariant (ComponentProofs): only the last conversion works; its result is what  *)
(* ends it for the window; its command runs while it waits for it, or after the program has gone; *)
(* the last command writes the output, and is waited for before the output is read.               *)
Working == {"analyse", "start", "started", "watch", "verify"}
Single ==
  \A r \in Runs :
    /\ r > run => pc[r] = "none"
    /\ pc[r] \in Working => r = run /\ events = <<>> /\ busy
Result ==
  /\ Len(events) <= 1
  /\ \A i \in 1 .. Len(events) :
       busy /\ events[i].run = run /\ pc[run] \in {"none", "forget", "delete", "over"}
CommandOf ==
  \A r \in alive : /\ r = run /\ events = <<>> /\ (busy \/ ~open)
                   /\ pc[r] \in {"started", "watch"} \/ (~open /\ pc[r] = "none")
Written ==
  /\ \A r \in Runs : (pc[r] \in {"started", "watch"} /\ Command = "final") \/ pc[r] = "verify"
                     => output.by = r
  /\ DoneIsItsOwn
Stopping ==
  /\ late <= 1
  /\ late = 1 => cancelled /\ \A r \in Runs : pc[r] \notin {"analyse", "start"}
Inv == TypeOK /\ Single /\ Result /\ CommandOf /\ Written /\ Stopping
=================================================================================
