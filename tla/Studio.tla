-------------------------------- MODULE Studio --------------------------------
(***************************************************************************)
(* The main window (studio.py): its Tk thread with the render queue, the    *)
(* timers that run the queue and the polling of worker events; the render   *)
(* thread; the render lease, journal and partial outputs they share; and    *)
(* the program's exits and restarts.                                        *)
(*                                                                          *)
(* A Tk callback is one action: callbacks run one at a time and wait for    *)
(* the dialogs they open.  The render thread takes a step per effect.       *)
(* Every change of the queue is saved in the same callback, so the queue    *)
(* file is not a variable.                                                  *)
(***************************************************************************)
EXTENDS Sequences, SequencesExt, SafeOutput

CONSTANTS MaxItems,  \* bound: the queue's serial numbers are 1..MaxItems
          MaxLives,  \* bound: processes of the program, one after another
          Impatient  \* may a run be started while a queue or recovery timer,
                     \* both under half a second, is about to fire

Ids  == 1 .. MaxItems
Solo == MaxItems + 1        \* the output of a render started by hand

ASSUME StudioAssumption == /\ MaxItems \in Nat /\ MaxLives \in Nat \ {0}
                           /\ Outputs = 1 .. MaxItems + 1
                           /\ Lives = 1 .. MaxLives
                           /\ Impatient \in BOOLEAN

VARIABLES queue, status,    \* item ids in order; the state of each
          serial, running, active, busy, cancelled,
          timers,           \* pending calls of _run_next_queue_item
          greeted,          \* has the recovery timer of this life fired
          events,           \* terminal events of workers, not yet polled
          pc, output, retried, \* the render thread
          lease,            \* the life render-owner.json names, 0 without a file
          disk, life

ui     == <<queue, serial>>
flags  == <<running, active, busy, cancelled>>
worker == <<pc, output, retried>>
vars   == <<ui, status, flags, timers, greeted, events, worker, lease, disk, life>>

Statuses    == {"Aguardando", "Renderizando", "Concluido", "Erro", "Cancelado"}
Retryable   == {"Erro", "Cancelado"}
Locations   == {"off", "setup", "plan", "encode", "encoding", "verify", "commit",
                "clear", "tell", "discard", "unlist", "fail", "cleanup"}

Init == /\ queue = <<>> /\ status = [i \in Ids |-> "Aguardando"] /\ serial = 0
        /\ running = FALSE /\ active = 0 /\ busy = FALSE /\ cancelled = FALSE
        /\ timers = 0 /\ greeted = FALSE /\ events = <<>>
        /\ pc = "off" /\ output = Solo /\ retried = FALSE
        /\ lease = 0 /\ disk = EmptyDisk /\ life = 1

Queued == {i \in Ids : \E k \in DOMAIN queue : queue[k] = i}
My(o)  == <<o, life>>       \* the partial of output o in this process

-----------------------------------------------------------------------------
(* Mutant: whatever the partial holds is offered for promotion               *)
RecoveredUnchecked(d) ==
    IF ~Preserved(d) THEN {Cleared(d)} ELSE {d, Cleared(Committed(d, NamedBy(d)))}

(* Recovery dialogs.  _recover_interrupted_render: an empty hand clears the  *)
(* journal; a partial that verifies may be promoted; else nothing changes    *)
Recovered(d) ==
    IF ~Preserved(d) THEN {Cleared(d)}
    ELSE {d} \cup (IF d.partial[NamedBy(d)] = "whole"
                   THEN {Cleared(Committed(d, NamedBy(d)))} ELSE {})

(* _prepare_preserved_render_for_new_run: the disks with which it lets a new *)
(* run begin, after promotion or after an explicit discard                   *)
Prepared(d) == {r \in Recovered(d) : ~Preserved(r)}
               \cup {Cleared(Discarded(d, f)) : f \in {g \in {NamedBy(d)} : Preserved(d)}}

RecoverInterrupted ==
    /\ ~greeted
    /\ greeted' = TRUE
    /\ disk' \in Recovered(disk)
    /\ UNCHANGED <<ui, status, flags, timers, events, worker, lease, life>>

-----------------------------------------------------------------------------
(* _launch_worker: lease, journal claim, thread.  The lease of a dead life   *)
(* is stale; the lease of this one is busy, even if its worker is gone       *)
Launch(o, d) ==
    /\ lease # life
    /\ lease' = life
    /\ disk' = [Claimed(d, life) EXCEPT !.final[o] = "previous"]
    /\ pc' = "setup" /\ output' = o /\ retried' = FALSE
    /\ busy' = TRUE /\ cancelled' = FALSE

(* _run_next_queue_item, for items st, with t timers still to come: stop at  *)
(* the end, reject an item, launch it, or give up when the launch is refused *)
Waiting(st) == {i \in Queued : st[i] = "Aguardando"}
First(i, st) == \E k \in DOMAIN queue :
    queue[k] = i /\ \A j \in 1 .. k - 1 : queue[j] \notin Waiting(st)

NothingWaits(st, d, t) ==
    /\ Waiting(st) = {}
    /\ running' = FALSE /\ active' = 0 /\ status' = st /\ timers' = t /\ disk' = d
    /\ UNCHANGED <<busy, cancelled, worker, lease>>

RejectNext(i, st, d, t) ==
    /\ status' = [st EXCEPT ![i] = "Erro"]
    /\ running' = TRUE /\ timers' = t + 1 /\ disk' = d
    /\ UNCHANGED <<active, busy, cancelled, worker, lease>>

LaunchNext(i, st, d, t) ==
    /\ status' = [st EXCEPT ![i] = "Renderizando"]
    /\ active' = i /\ running' = TRUE /\ timers' = t
    /\ Launch(i, d)

NextRefused(st, d, t) ==
    /\ status' = st /\ active' = 0 /\ running' = FALSE /\ timers' = t /\ disk' = d
    /\ UNCHANGED <<busy, cancelled, worker, lease>>

RunNextFrom(st, d, t) ==
    \/ NothingWaits(st, d, t)
    \/ \E i \in Waiting(st) :
          /\ First(i, st)
          /\ \/ RejectNext(i, st, d, t)
             \/ LaunchNext(i, st, d, t)
             \/ NextRefused(st, d, t)

RunNext ==
    /\ timers > 0
    /\ IF running THEN RunNextFrom(status, disk, timers - 1)
       ELSE timers' = timers - 1 /\ UNCHANGED <<status, flags, worker, lease, disk>>
    /\ UNCHANGED <<ui, greeted, events, life>>

-----------------------------------------------------------------------------
(* Buttons                                                                   *)
AddToQueue ==
    /\ ~busy /\ serial < MaxItems
    /\ serial' = serial + 1
    /\ queue' = Append(queue, serial')
    /\ status' = [status EXCEPT ![serial'] = "Aguardando"]
    /\ UNCHANGED <<flags, timers, greeted, events, worker, lease, disk, life>>

MoveItem(k) ==
    /\ ~running /\ ~busy /\ k + 1 \in DOMAIN queue
    /\ queue' = [queue EXCEPT ![k] = queue[k + 1], ![k + 1] = queue[k]]
    /\ UNCHANGED <<serial, status, flags, timers, greeted, events, worker, lease, disk, life>>

RetryItem(i) ==
    /\ ~running /\ ~busy /\ i \in Queued /\ status[i] \in Retryable
    /\ status' = [status EXCEPT ![i] = "Aguardando"]
    /\ UNCHANGED <<ui, flags, timers, greeted, events, worker, lease, disk, life>>

(* Remove one item, the completed ones, or all of them                       *)
Removable == {{i} : i \in Queued} \cup {Queued}
             \cup {{i \in Queued : status[i] = "Concluido"}}
RemoveItems(gone) ==
    /\ ~running /\ gone # {}
    /\ queue' = SelectSeq(queue, LAMBDA i : i \notin gone)
    /\ UNCHANGED <<serial, status, flags, timers, greeted, events, worker, lease, disk, life>>

Requeued == [i \in Ids |-> IF i \in Queued /\ status[i] \in Retryable
                           THEN "Aguardando" ELSE status[i]]

Quiet == timers = 0 /\ greeted

StartQueue ==
    /\ ~busy /\ ~running
    /\ ~Quiet => Impatient
    /\ \E d \in Prepared(disk) :
         IF \E i \in Queued : status[i] \in Retryable \cup {"Aguardando"}
         THEN RunNextFrom(Requeued, d, timers)
         ELSE disk' = d /\ UNCHANGED <<status, flags, timers, worker, lease>>
    /\ UNCHANGED <<ui, greeted, events, life>>

StartByHand ==
    /\ ~busy
    /\ ~Quiet => Impatient
    /\ \E d \in Prepared(disk) : Launch(Solo, d)
    /\ UNCHANGED <<ui, status, running, active, timers, greeted, events, life>>

Cancel ==
    /\ busy
    /\ cancelled' = TRUE
    /\ UNCHANGED <<ui, status, running, active, busy, timers, greeted, events,
                   worker, lease, disk, life>>

-----------------------------------------------------------------------------
(* _poll_events: the terminal event of a worker, charged to the active item  *)
Report(kind, st) ==
    /\ events # <<>> /\ Head(events) = kind
    /\ events' = Tail(events)
    /\ busy' = FALSE
    /\ status' = IF running /\ active \in Queued THEN [status EXCEPT ![active] = st] ELSE status
    /\ active' = IF running THEN 0 ELSE active
    /\ UNCHANGED <<ui, cancelled, greeted, worker, lease, disk, life>>

(* Mutant: the timer of the next item is not started                         *)
ContinueNever == running' = running /\ UNCHANGED timers

Continue == running' = running /\ timers' = IF running THEN timers + 1 ELSE timers

PollDone      == Report("done", "Concluido") /\ Continue
PollCancelled == Report("cancelled", "Cancelado") /\ running' = FALSE /\ UNCHANGED timers
(* Mutant: the queue goes on, whatever the failure has left behind           *)
PollErrorOn   == Report("error", "Erro") /\ Continue
PollError     == /\ Report("error", "Erro")
                 /\ IF Preserved(disk) THEN running' = FALSE /\ UNCHANGED timers
                    ELSE Continue

-----------------------------------------------------------------------------
(* The render thread                                                         *)
AtPc(loc)  == pc = loc
WorkerOnly == UNCHANGED <<ui, status, flags, timers, greeted, life>>
GoOn(loc)  == pc' = loc /\ UNCHANGED <<output, retried, events, lease>> /\ WorkerOnly
Tell(kind) == /\ events' = Append(events, kind) /\ pc' = "cleanup"
              /\ UNCHANGED <<output, retried, lease, disk>> /\ WorkerOnly

(* Scratch, cache quota and job directory come before the try: an exception  *)
(* there ends the thread, which tells nobody and keeps the lease             *)
SetUp == AtPc("setup") /\ \/ GoOn("plan") /\ UNCHANGED disk
                          \/ GoOn("off") /\ UNCHANGED disk

(* Probing, plan and contract: prepare unlinks the partial, then the journal *)
(* names it                                                                  *)
Plan == AtPc("plan")
        /\ \/ GoOn("encode") /\ disk' = Listed(Discarded(disk, My(output)), output, life)
           \/ GoOn("fail") /\ disk' \in {disk, Discarded(disk, My(output))}
           \/ cancelled /\ GoOn("unlist") /\ UNCHANGED disk

(* A media stage starts writing the partial, unless it is cancelled          *)
Encode == AtPc("encode") /\ IF cancelled THEN GoOn("discard") /\ UNCHANGED disk
                          ELSE GoOn("encoding") /\ disk' = WithPartial(disk, My(output), "draft")

(* It completes, is cancelled, fails, or falls back to the CPU once          *)
FinishEncode ==
    /\ AtPc("encoding")
    /\ IF cancelled THEN GoOn("discard") /\ UNCHANGED disk
       ELSE \/ GoOn("verify") /\ disk' = WithPartial(disk, My(output), "whole")
            \/ GoOn("fail") /\ UNCHANGED disk

FallBack ==
    /\ AtPc("encoding") /\ ~cancelled /\ ~retried
    /\ retried' = TRUE /\ pc' = "encode"
    /\ disk' = Discarded(disk, My(output))
    /\ UNCHANGED <<output, events, lease>> /\ WorkerOnly

(* quick_verify or deep_verify, which do not look at the cancellation        *)
Verify == /\ AtPc("verify")
          /\ \/ disk.partial[My(output)] = "whole" /\ GoOn("commit")
             \/ GoOn("fail")
          /\ UNCHANGED disk

(* Mutant: a failure to promote the partial is swallowed                     *)
CommitSwallowed == AtPc("commit") /\ GoOn("clear") /\ disk' \in {disk, Committed(disk, My(output))}

Commit == AtPc("commit")
          /\ \/ /\ disk.partial[My(output)] # "none"
                /\ GoOn("clear") /\ disk' = Committed(disk, My(output))
             \/ GoOn("fail") /\ UNCHANGED disk

ClearJournal == AtPc("clear") /\ GoOn("tell") /\ disk' \in {disk, Cleared(disk)}
TellDone     == AtPc("tell") /\ Tell("done")

(* The handler of InterruptedError: a partial that stays locked raises again *)
Discard == AtPc("discard") /\ \/ GoOn("unlist") /\ disk' = Discarded(disk, My(output))
                              \/ GoOn("cleanup") /\ UNCHANGED disk

TellCancelled ==
    /\ AtPc("unlist")
    /\ events' = Append(events, "cancelled") /\ pc' = "cleanup"
    /\ disk' \in {disk, Cleared(disk)}
    /\ UNCHANGED <<output, retried, lease>> /\ WorkerOnly

TellError == AtPc("fail") /\ Tell("error")

(* finally: temporary files, then the lease, whose release may fail          *)
CleanUp == /\ AtPc("cleanup")
           /\ pc' = "off" /\ lease' \in {0, lease}
           /\ UNCHANGED <<output, retried, events, disk>> /\ WorkerOnly

RenderThread == \/ SetUp \/ Plan \/ Encode \/ FinishEncode \/ FallBack \/ Verify
                \/ Commit \/ ClearJournal \/ TellDone \/ Discard
                \/ TellCancelled \/ TellError \/ CleanUp

-----------------------------------------------------------------------------
(* _load_queue: what was being rendered waits again                          *)
LastSerial == Max(Queued \cup {0})
Reloaded   == [i \in Ids |-> IF i \in Queued /\ status[i] = "Renderizando"
                             THEN "Aguardando" ELSE status[i]]

(* The window closes, or the machine stops; the render thread is a daemon    *)
Restart ==
    /\ life < MaxLives
    /\ life' = life + 1
    /\ status' = Reloaded /\ serial' = LastSerial
    /\ running' = FALSE /\ active' = 0 /\ busy' = FALSE /\ cancelled' = FALSE
    /\ timers' = 0 /\ greeted' = FALSE /\ events' = <<>>
    /\ pc' = "off" /\ output' = Solo /\ retried' = FALSE
    /\ UNCHANGED <<queue, lease, disk>>

Buttons == \/ AddToQueue \/ StartQueue \/ StartByHand \/ Cancel
           \/ \E k \in Ids : MoveItem(k)
           \/ \E i \in Ids : RetryItem(i)
           \/ \E gone \in Removable : RemoveItems(gone)
PollEvents == PollDone \/ PollCancelled \/ PollError

Next == Buttons \/ RecoverInterrupted \/ RunNext \/ PollEvents \/ RenderThread \/ Restart

Spec == Init /\ [][Next]_vars

(* Timers fire while the window lives, and the render thread keeps running   *)
FairSpec == Spec /\ WF_vars(RunNext) /\ WF_vars(PollEvents) /\ WF_vars(RenderThread)

-----------------------------------------------------------------------------
(* Type invariant: every value the Tk thread and the render thread share     *)
TypeOK ==
    /\ queue \in Seq(Ids) /\ IsInjective(queue) /\ serial \in 0 .. MaxItems
    /\ status \in [Ids -> Statuses] /\ active \in Ids \cup {0}
    /\ {running, busy, cancelled, greeted, retried} \subseteq BOOLEAN
    /\ timers \in 0 .. 1 /\ Len(events) <= 1
    /\ events \in Seq({"done", "cancelled", "error"})
    /\ pc \in Locations /\ output \in Outputs /\ lease \in Lives \cup {0}
    /\ disk \in Disks /\ life \in Lives

(* Every partial output on disk is the one the journal names, through        *)
(* failures, cancellations, new runs, recoveries and restarts: recovery      *)
(* (_recover_interrupted_render) looks nowhere else, so any other is lost    *)
PartialReferenced == Referenced(disk)

(* An item shown as being rendered is the one the queue is busy with: it     *)
(* never keeps that state after its worker, the cancellation or the restart  *)
RenderingIsActive == \A i \in Ids :
    status[i] = "Renderizando" => running /\ busy /\ active = i

(* No output is ever replaced by a file that was not verified, by a worker   *)
(* or by the promotion of what an earlier life left behind                   *)
NeverBroken == Sound(disk)

(* An item becomes "Concluído" only when its latest run has delivered it     *)
DoneIsDelivered == [][\A i \in Ids :
    status[i] # "Concluido" /\ status'[i] = "Concluido" => disk.final[i] = "delivered"]_vars

(* The thread ended without a terminal event: an exception before the try,   *)
(* or a discard that raised                                                  *)
Mute == busy /\ pc = "off" /\ events = <<>>

(* A render and the queue come to rest: the window is never left busy, nor   *)
(* the queue running, unless a worker has ended without a word               *)
Settles == (busy \/ running) ~> ((~busy /\ ~running) \/ Mute)

(* Cancelling a render preserves the previous output: once it is requested,  *)
(* the worker does not replace the final file                                *)
CancelKeepsFinal == [][cancelled /\ cancelled' => disk'.final = disk.final]_vars

(* A queue stops with an item waiting only after a cancellation, to preserve *)
(* a partial, or refused by somebody else: never by its own last worker      *)
StopsForAReason == [][running /\ ~running' /\ life' = life /\ Waiting(status') # {}
                      => cancelled \/ Preserved(disk) \/ lease # life]_vars
=============================================================================
