----------------------------- MODULE NeuralChunks -----------------------------
(***************************************************************************)
(* The chunk loops of the two neural stages (studio.py, _enhance_clip_ai   *)
(* and _interpolate_rife) and the background commands that run beside them *)
(* (pipeline_runtime.py): extract a chunk of frames, process it, pack it   *)
(* losslessly, with the next extraction and the previous packing under way.*)
(***************************************************************************)
EXTENDS Integers, Sequences, FiniteSets, FiniteSetsExt

CONSTANTS
  Jobs,          \* records: see JobsOf
  MaxFrames,
  ChunkFrames,
  Faults         \* a subset of {"gpu", "cut", "short", "run", "oom", "cancel"}

\* stage: "ai" (Real-ESRGAN) or "rife"; nominal: the frames the clip should have by
\* its duration and rate; real: those that can be decoded; cuda: is the CUDA
\* extraction approved by evidence?
JobsOf(frames) ==
  { j \in [stage: {"ai", "rife"}, nominal: frames, real: frames,
           overlapExtract: BOOLEAN, overlapPack: BOOLEAN, cuda: BOOLEAN] :
      j.stage = "rife" => ~j.overlapPack /\ ~j.cuda }

VARIABLES
  job,
  step,          \* of the loop
  processed, total, index, count,
  incoming,      \* extracted frames on disk, by chunk
  prefetch, pack,\* background commands
  chunks,        \* packed segments, in the order they were appended
  gpu,           \* does the extraction use CUDA?
  usedGpu,       \* did the current one?
  policy, tried, active,
  cancelled,
  outcome

vars == <<job, step, processed, total, index, count, incoming, prefetch, pack, chunks, gpu, usedGpu,
          policy, tried, active, cancelled, outcome>>
place  == <<job, processed, total, index, count>>
worker == <<policy, tried, active>>
tasks  == <<prefetch, pack>>

NoTask   == [state |-> "none", chunk |-> 0, from |-> 0, count |-> 0, gpu |-> FALSE]
NoFrames == [from |-> 0, count |-> 0]
Indexes  == 1..(MaxFrames + 1)
Policies == {"full", "careful", "single"}
OnDisk   == {i \in Indexes : incoming[i].count > 0} \cup (IF prefetch.state = "running" THEN {prefetch.chunk} ELSE {})

(***************************************************************************)
(* Chunks.                                                                 *)
(***************************************************************************)
\* RIFE needs two frames: a single frame at the end joins the chunk before it.
ChunkAt(offset) ==
  LET left == total - offset
      plain == Min({ChunkFrames, left})
  IN IF job.stage = "ai" THEN plain
     ELSE LET n == Min({IF left - Max({2, plain}) = 1 THEN Max({2, plain}) + 1 ELSE Max({2, plain}), left})
          IN IF n >= 2 THEN n ELSE 0

Decodable(offset, n) == Max({0, Min({n, job.real - offset})})

\* What an extraction of n frames may leave: a CUDA decoder may stop early.
Extracted(offset, n, cuda) ==
  { [from |-> offset, count |-> Max({0, Decodable(offset, n) - cut})] :
      cut \in IF cuda /\ "cut" \in Faults THEN 0..1 ELSE {0} }

(***************************************************************************)
(* Background commands: one extraction ahead, one packing behind.          *)
(***************************************************************************)
Running(task) == task.state = "running"

PrefetchEnds ==
  /\ Running(prefetch)
  /\ \/ /\ prefetch' = [prefetch EXCEPT !.state = "ok"]
        /\ \E f \in Extracted(prefetch.from, prefetch.count, prefetch.gpu) :
             incoming' = [incoming EXCEPT ![prefetch.chunk] = f]
     \/ /\ "run" \in Faults \/ (prefetch.gpu /\ "gpu" \in Faults)
        /\ \E s \in (IF "run" \in Faults THEN {"failed"} ELSE {})
                    \cup (IF prefetch.gpu /\ "gpu" \in Faults THEN {"gpufailed"} ELSE {}) :
             prefetch' = [prefetch EXCEPT !.state = s]
        /\ UNCHANGED incoming
     \/ /\ cancelled
        /\ prefetch' = [prefetch EXCEPT !.state = "cancelled"]
        /\ UNCHANGED incoming
  /\ UNCHANGED <<step, place, pack, chunks, gpu, usedGpu, worker, cancelled, outcome>>

PackEnds ==
  /\ Running(pack)
  /\ \E s \in {"ok"} \cup (IF "run" \in Faults THEN {"failed"} ELSE {})
              \cup (IF cancelled THEN {"cancelled"} ELSE {}) :
       pack' = [pack EXCEPT !.state = s]
  /\ UNCHANGED <<step, place, incoming, prefetch, chunks, gpu, usedGpu, worker, cancelled, outcome>>

Cancel ==
  /\ "cancel" \in Faults /\ ~cancelled /\ outcome = "running"
  /\ cancelled' = TRUE
  /\ UNCHANGED <<step, place, incoming, tasks, chunks, gpu, usedGpu, worker, outcome>>

(***************************************************************************)
(* The loop.                                                               *)
(***************************************************************************)
Init ==
  /\ job \in Jobs
  /\ step = "top"
  /\ processed = 0 /\ total = job.nominal /\ index = 0 /\ count = 0
  /\ incoming = [i \in Indexes |-> NoFrames]
  /\ prefetch = NoTask /\ pack = NoTask
  /\ chunks = << >>
  /\ gpu = job.cuda /\ usedGpu = FALSE
  /\ policy = "full" /\ tried = {} /\ active = "full"
  /\ cancelled = FALSE
  /\ outcome = "running"

\* An exception passes through the finally block, which cancels what still runs.
Raise ==
  /\ step' = "finally"
  /\ UNCHANGED <<place, incoming, tasks, chunks, gpu, usedGpu, worker, cancelled, outcome>>

Prefetched == prefetch.state # "none" /\ prefetch.from = processed /\ prefetch.count = count'

Top ==
  /\ step = "top" /\ processed < total /\ ~cancelled
  /\ count' = ChunkAt(processed) /\ count' > 0
  /\ index' = index + 1
  /\ step' = IF Prefetched THEN "await" ELSE "extract"
  /\ UNCHANGED <<job, processed, total, incoming, tasks, chunks, gpu, usedGpu, worker, cancelled, outcome>>

\* Nothing is left to do, or a single frame that cannot be interpolated.
LeaveLoop ==
  /\ step = "top" /\ (processed = total \/ (~cancelled /\ ChunkAt(processed) = 0))
  /\ Raise

\* The foreground extraction; a CUDA failure is repeated on the CPU.
Extract ==
  /\ step = "extract" /\ ~cancelled
  /\ \/ /\ \E f \in Extracted(processed, count, gpu) : incoming' = [incoming EXCEPT ![index] = f]
        /\ usedGpu' = gpu
        /\ step' = "check"
        /\ UNCHANGED gpu
     \/ /\ gpu /\ "gpu" \in Faults
        /\ gpu' = FALSE
        /\ UNCHANGED <<step, incoming, usedGpu>>
  /\ UNCHANGED <<place, tasks, chunks, worker, cancelled, outcome>>

AwaitPrefetch ==
  /\ step = "await" /\ ~cancelled
  /\ \/ /\ prefetch.state = "ok"
        /\ usedGpu' = prefetch.gpu /\ step' = "check"
        /\ UNCHANGED gpu
     \/ /\ prefetch.state = "gpufailed"
        /\ gpu' = FALSE /\ step' = "extract"
        /\ UNCHANGED usedGpu
  /\ prefetch' = NoTask
  /\ UNCHANGED <<place, incoming, pack, chunks, worker, cancelled, outcome>>

Got == incoming[index].count
Last == processed + count >= total

\* Too few frames from CUDA are not believed: the chunk is extracted again.
RejectGpuFrames ==
  /\ step = "check" /\ Got # count /\ usedGpu
  /\ gpu' = FALSE /\ usedGpu' = FALSE
  /\ incoming' = [incoming EXCEPT ![index] = NoFrames]
  /\ step' = "extract"
  /\ UNCHANGED <<place, tasks, chunks, worker, cancelled, outcome>>

StartNeural(n, whole) ==
  /\ step' = "neural" /\ policy' = active /\ tried' = {active}
  /\ count' = n /\ total' = whole
  /\ UNCHANGED <<job, processed, index, incoming, pack, chunks, gpu, usedGpu, active, cancelled, outcome>>

\* All frames are there: the next extraction starts beside the processing.
AcceptChunk ==
  /\ step = "check" /\ Got = count
  /\ LET next == processed + count
         n == ChunkAt(next)
     IN prefetch' = IF job.overlapExtract /\ next < total /\ n > 0
                    THEN [state |-> "running", chunk |-> index + 1, from |-> next, count |-> n,
                          gpu |-> gpu]
                    ELSE prefetch
  /\ StartNeural(count, total)

\* Mutant: too few frames from CUDA pass for the end of the file too.
AcceptEndOfGpu ==
  /\ step = "check" /\ Got # count
  /\ job.stage = "ai" /\ Last /\ Got \in 1..(count - 1)
  /\ StartNeural(Got, processed + Got)
  /\ UNCHANGED prefetch

\* Real-ESRGAN only, in the last chunk only: fewer frames are the end of the file.
AcceptEnd ==
  /\ step = "check" /\ Got # count /\ ~usedGpu
  /\ job.stage = "ai" /\ Last /\ Got \in 1..(count - 1)
  /\ StartNeural(Got, processed + Got)
  /\ UNCHANGED prefetch

RejectChunk ==
  /\ step = "check" /\ Got # count /\ ~usedGpu
  /\ ~(job.stage = "ai" /\ Last /\ Got > 0)
  /\ Raise

Process ==
  /\ step = "neural" /\ ~cancelled
  /\ active' = policy /\ step' = "collect"
  /\ UNCHANGED <<place, incoming, tasks, chunks, gpu, usedGpu, policy, tried, cancelled, outcome>>

\* Which milder policy follows a failure of Real-ESRGAN.
Milder(oom) == IF oom /\ policy = "careful" THEN "single" ELSE "careful"

\* Mutant: a policy may be tried again.
RetryAgain ==
  /\ step = "neural" /\ job.stage = "ai"
  /\ \E oom \in BOOLEAN :
       /\ (IF oom THEN "oom" ELSE "run") \in Faults
       /\ policy' = Milder(oom) /\ tried' = tried \cup {Milder(oom)}
  /\ UNCHANGED <<step, place, incoming, tasks, chunks, gpu, usedGpu, active, cancelled, outcome>>

Retry ==
  /\ step = "neural" /\ job.stage = "ai"
  /\ \E oom \in BOOLEAN :
       /\ (IF oom THEN "oom" ELSE "run") \in Faults
       /\ Milder(oom) \notin tried \cup {policy}
       /\ policy' = Milder(oom) /\ tried' = tried \cup {Milder(oom)}
  /\ UNCHANGED <<step, place, incoming, tasks, chunks, gpu, usedGpu, active, cancelled, outcome>>

GiveUp ==
  /\ step = "neural"
  /\ \E oom \in BOOLEAN :
       /\ (IF oom THEN "oom" ELSE "run") \in Faults
       /\ job.stage = "rife" \/ Milder(oom) \in tried \cup {policy}
  /\ Raise

\* A segment on disk; the packing of a chunk may end well and still lack a frame.
Segments(i, n) ==
  { [chunk |-> i, from |-> incoming[i].from, count |-> n - short] :
      short \in IF "short" \in Faults THEN 0..1 ELSE {0} }

\* The packing of the chunk before must be over before another one starts.
Collect ==
  /\ step = "collect" /\ ~cancelled
  /\ pack.state \in {"none", "ok"}
  /\ IF pack.state = "ok"
     THEN /\ \E s \in Segments(pack.chunk, pack.count) : chunks' = Append(chunks, s)
          /\ incoming' = [incoming EXCEPT ![pack.chunk] = NoFrames]
     ELSE UNCHANGED <<chunks, incoming>>
  /\ pack' = NoTask
  /\ step' = "merge"
  /\ UNCHANGED <<place, prefetch, gpu, usedGpu, worker, cancelled, outcome>>

InBackground == job.stage = "ai" /\ job.overlapPack /\ processed + count < total

PackBehind ==
  /\ step = "merge" /\ InBackground
  /\ pack' = [state |-> "running", chunk |-> index, from |-> processed, count |-> count, gpu |-> FALSE]
  /\ processed' = processed + count
  /\ step' = "top"
  /\ UNCHANGED <<job, total, index, count, incoming, prefetch, chunks, gpu, usedGpu, worker, cancelled, outcome>>

PackNow ==
  /\ step = "merge" /\ ~InBackground /\ ~cancelled
  /\ \E s \in Segments(index, count) : chunks' = Append(chunks, s)
  /\ incoming' = [incoming EXCEPT ![index] = NoFrames]
  /\ processed' = processed + count
  /\ step' = "top"
  /\ UNCHANGED <<job, total, index, count, tasks, gpu, usedGpu, worker, cancelled, outcome>>

\* A media process fails, or a background command that was waited for did.
Break ==
  /\ \/ step \in {"extract", "merge"} /\ "run" \in Faults
     \/ step = "await" /\ prefetch.state = "failed"
     \/ step = "collect" /\ pack.state = "failed"
  /\ Raise

\* The cancellation is seen at the top, when a process ends and after a wait.
SeeCancel ==
  /\ cancelled
  /\ \/ step \in {"top", "extract", "neural"} /\ processed < total
     \/ step = "merge" /\ ~InBackground
     \/ step = "await" /\ ~Running(prefetch)
     \/ step = "collect" /\ pack.state \notin {"none", "running"}
  /\ Raise

\* Without a packing to wait for, a cancelled loop goes on to the packing.
CollectNothing ==
  /\ step = "collect" /\ cancelled /\ pack.state = "none"
  /\ step' = "merge"
  /\ UNCHANGED <<place, incoming, tasks, chunks, gpu, usedGpu, worker, cancelled, outcome>>

\* cancel() kills the command and wait() sees it end.
Finally ==
  /\ step = "finally"
  /\ prefetch' = NoTask /\ pack' = NoTask
  /\ step' = IF processed = total THEN "join" ELSE "over"
  /\ outcome' = IF processed = total THEN "running" ELSE IF cancelled THEN "cancelled" ELSE "failed"
  /\ UNCHANGED <<place, incoming, chunks, gpu, usedGpu, worker, cancelled>>

\* The segments are counted, joined without encoding, and counted again.
FramesIn(segments) ==
  LET sum[n \in 0..Len(segments)] == IF n = 0 THEN 0 ELSE sum[n - 1] + segments[n].count
  IN  sum[Len(segments)]
Packed == FramesIn(chunks)

JoinChunks ==
  /\ step = "join"
  /\ \/ /\ Packed = total /\ chunks # << >> /\ ~cancelled
        /\ outcome' = "joined"
     \/ /\ Packed # total \/ chunks = << >> \/ "run" \in Faults
        /\ outcome' = "failed"
     \/ /\ cancelled
        /\ outcome' = "cancelled"
  /\ step' = "over"
  /\ UNCHANGED <<place, incoming, tasks, chunks, gpu, usedGpu, worker, cancelled>>

Next ==
  \/ PrefetchEnds \/ PackEnds \/ Cancel
  \/ Top \/ LeaveLoop \/ Extract \/ AwaitPrefetch
  \/ RejectGpuFrames \/ AcceptChunk \/ AcceptEnd \/ RejectChunk
  \/ Process \/ Retry \/ GiveUp
  \/ Collect \/ CollectNothing \/ PackBehind \/ PackNow
  \/ Break \/ SeeCancel \/ Finally \/ JoinChunks

\* Every process ends, and the loop goes on whenever it can.
Steadily == cancelled' = cancelled
Fairness == WF_vars(Next /\ Steadily)

Spec == Init /\ [][Next]_vars /\ Fairness

(***************************************************************************)
(* Properties.                                                             *)
(***************************************************************************)
TypeOK ==
  /\ job \in Jobs
  /\ step \in {"top", "extract", "await", "check", "neural", "collect", "merge", "finally", "join", "over"}
  /\ processed \in 0..total /\ total \in 0..job.nominal
  /\ index \in 0..MaxFrames /\ count \in 0..job.nominal
  /\ \A i \in Indexes : incoming[i].from \in 0..MaxFrames /\ incoming[i].count \in 0..MaxFrames
  /\ prefetch.state \in {"none", "running", "ok", "failed", "gpufailed", "cancelled"}
  /\ pack.state \in {"none", "running", "ok", "failed", "cancelled"}
  /\ policy \in Policies /\ active \in Policies /\ tried \subseteq Policies
  /\ outcome \in {"running", "joined", "failed", "cancelled"}

\* The joined clip is the whole clip, in order and gapless: its segments are the
\* chunks 1, 2, ..., each starts where the one before ends, and together they hold
\* every frame the source has, whatever CUDA, a short packing or the commands in the
\* background did.
WholeClip ==
  outcome = "joined" =>
    /\ \A i \in DOMAIN chunks :
         /\ chunks[i].chunk = i
         /\ chunks[i].from = IF i = 1 THEN 0 ELSE chunks[i - 1].from + chunks[i - 1].count
    /\ Packed = Min({job.nominal, job.real})

\* A command in the background has its directory for itself: the loop neither
\* extracts into the directory that is being filled ahead, nor deletes the frames
\* that are being packed behind.
Undisturbed ==
  /\ Running(prefetch) /\ step \in {"extract", "check", "neural", "collect", "merge"}
       => prefetch.chunk # index
  /\ Running(pack) => /\ incoming[pack.chunk] = [from |-> pack.from, count |-> pack.count]

\* "teto total=3 worksets com prefetch" (studio.py:6414): never more than three
\* chunks are on disk as frames; two without a packing behind, one without either.
BoundedWork ==
  step # "over" =>
    Cardinality(OnDisk)
      <= 1 + (IF job.overlapExtract THEN 1 ELSE 0) + (IF job.overlapPack THEN 1 ELSE 0)

\* A policy of Real-ESRGAN is tried at most once per chunk, so the stage ends,
\* joined, failed or cancelled, and no command in the background outlives it.
Over == outcome # "running" /\ ~Running(prefetch) /\ ~Running(pack)
Ends == <>Over

(* The inductive invariant (ComponentProofs): where the loop is, what the extraction ahead and the  *)
(* packing behind work on, and that whoever loses a frame can never make it up: the segments hold   *)
(* all the frames up to the last one packed only if each of them is whole.                          *)
InChunk == step \in {"extract", "await", "check", "neural", "collect", "merge"}
Segment == [chunk: Nat, from: Nat, count: Nat]
Shape ==
  /\ TypeOK /\ {gpu, usedGpu, cancelled} \subseteq BOOLEAN /\ chunks \in Seq(Segment)
  /\ incoming \in [Indexes -> [from: 0..MaxFrames, count: 0..MaxFrames]]
  /\ {prefetch, pack} \subseteq [state: {"none", "running", "ok", "failed", "gpufailed", "cancelled"},
                                 chunk: 0..MaxFrames, from: 0..MaxFrames, count: 0..MaxFrames, gpu: BOOLEAN]

\* Unless CUDA cut it, an extraction is short only because the source ends.
Truthful(f, offset, n, cuda) ==
  /\ f.from = offset /\ f.count <= n
  /\ f.count = n => offset + n <= job.real
  /\ f.count \in 1..(n - 1) /\ ~cuda => offset + f.count = job.real

Course ==
  /\ (outcome = "running" <=> step # "over") /\ (step = "join" => processed = total)
  /\ processed <= job.real /\ total \in {job.nominal, job.real}
  /\ step = "top" => index <= processed
  /\ InChunk => count >= 1 /\ processed + count <= total /\ index \in 1..(processed + 1)
  /\ step = "await" => prefetch.state # "none"
  /\ step = "check" => Truthful(incoming[index], processed, count, usedGpu)
  /\ step \in {"neural", "collect", "merge"} =>
       processed + count <= job.real /\ incoming[index] = [from |-> processed, count |-> count]

Ahead ==
  prefetch.state # "none" =>
    /\ job.overlapExtract /\ step \notin {"extract", "check", "join", "over"}
    /\ prefetch.count = ChunkAt(prefetch.from) /\ prefetch.count >= 1 /\ prefetch.chunk >= 1
    /\ processed <= prefetch.from /\ prefetch.from + prefetch.count <= total
    /\ step = "top" => prefetch.chunk = index + 1 /\ prefetch.from = processed
    /\ step = "await" => prefetch.chunk = index /\ prefetch.from = processed /\ prefetch.count = count
    /\ step \in {"neural", "collect", "merge"} =>
         prefetch.chunk = index + 1 /\ prefetch.from = processed + count
    /\ prefetch.state = "ok" =>
         Truthful(incoming[prefetch.chunk], prefetch.from, prefetch.count, prefetch.gpu)

Behind ==
  pack.state # "none" =>
    /\ job.overlapPack /\ step \notin {"merge", "join", "over"}
    /\ pack.count >= 1 /\ pack.from + pack.count = processed /\ processed < total
    /\ pack.chunk = Len(chunks) + 1 /\ pack.chunk <= index
    /\ incoming[pack.chunk] = [from |-> pack.from, count |-> pack.count]
    /\ step = "top" => pack.chunk = index
    /\ InChunk => pack.chunk = index - 1
    /\ prefetch.state # "none" => pack.chunk < prefetch.chunk

Reached == IF pack.state # "none" THEN pack.from ELSE processed
EndOf(segments) ==
  IF segments = <<>> THEN 0 ELSE segments[Len(segments)].from + segments[Len(segments)].count
Gapless ==
  \A i \in DOMAIN chunks :
    chunks[i].from = IF i = 1 THEN 0 ELSE chunks[i - 1].from + chunks[i - 1].count
Packing ==
  /\ \A i \in DOMAIN chunks : chunks[i].chunk = i
  /\ pack.state = "none" /\ step = "top" => Len(chunks) = index
  /\ pack.state = "none" /\ InChunk => Len(chunks) = index - 1
  /\ outcome \in {"running", "joined"} =>
       /\ Packed <= Reached
       /\ Packed = Reached => Gapless /\ EndOf(chunks) = Reached
  /\ outcome = "joined" => Packed = total /\ processed = total

OnlyTheirs ==
  step # "over" =>
    \A i \in Indexes : incoming[i].count > 0 =>
      \/ i = index /\ step # "top"
      \/ pack.state # "none" /\ i = pack.chunk
      \/ prefetch.state # "none" /\ i = prefetch.chunk
Inv == Shape /\ Course /\ Ahead /\ Behind /\ Packing /\ OnlyTheirs
===============================================================================
