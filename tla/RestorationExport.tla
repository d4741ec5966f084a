---------------------------- MODULE RestorationExport ----------------------------
(***************************************************************************)
(* The export of a restored clip (ui/restoration_export_view.py,            *)
(* restoration_export.py).  Overlays are reconstructed in a stream from one  *)
(* FFmpeg to another through a rolling window of frames, with a thread that   *)
(* kills both when the export is cancelled (restoration_temporal_export.py);  *)
(* colour alone is one FFmpeg that is polled.                                 *)
(***************************************************************************)
EXTENDS Integers, Sequences, FiniteSets

CONSTANTS
  Counts,      \* numbers of frames a clip may be probed to have
  Radius,      \* policy.radius, at least 1
  MaxExports,
  Faults       \* a subset of {"count", "media", "short", "disk", "unlink"}

VARIABLES
  open,        \* the program runs
  exports,     \* exports begun
  job,         \* the route, the frames probed and those the decoder gives
  cancel,      \* the event
  pc,          \* where the worker of the export is
  result,      \* how the export will be reported
  decoder,
  encoder,
  watching,    \* the thread that looks at the event
  decoded,     \* decoded_index + 1
  first,       \* the window is the frames first .. decoded - 1
  target,      \* next_target
  eof,
  written,     \* frames given to the encoder: which, from which neighbours
  temp,        \* frames in the temporary file, -1 when there is none
  output       \* frames in the output, -1 when there is none

vars == <<open, exports, job, cancel, pc, result, decoder, encoder, watching, decoded, first, target,
          eof, written, temp, output>>
stream == <<decoded, first, target, eof, written>>
user   == <<open, exports, job, cancel>>

Jobs == [route: {"temporal", "colour"}, count: Counts, real: UNION {{n - 1, n, n + 1} : n \in Counts}]
Possible ==
  { j \in Jobs : j.real \in IF "count" \in Faults THEN {j.count - 1, j.count, j.count + 1}
                            ELSE {j.count} }
Temporal == job.route = "temporal"

Init ==
  /\ open = TRUE /\ exports = 0 /\ job \in Possible /\ cancel = FALSE
  /\ pc = "idle" /\ result = "none"
  /\ decoder = "none" /\ encoder = "none" /\ watching = FALSE
  /\ decoded = 0 /\ first = 0 /\ target = 0 /\ eof = FALSE /\ written = <<>>
  /\ temp = -1 /\ output = -1

(* --------------------------- the window --------------------------- *)

StartExport(j) ==
  /\ open /\ pc = "idle" /\ exports < MaxExports
  /\ exports' = exports + 1 /\ job' = j /\ cancel' = FALSE
  /\ pc' = "probe" /\ result' = "none"
  /\ decoder' = "none" /\ encoder' = "none"
  /\ decoded' = 0 /\ first' = 0 /\ target' = 0 /\ eof' = FALSE /\ written' = <<>>
  /\ temp' = -1              \* a name of its own: what another export left is not met again
  /\ UNCHANGED <<open, watching, output>>

CancelExport ==
  /\ open /\ pc # "idle" /\ ~cancel
  /\ cancel' = TRUE
  /\ UNCHANGED <<open, exports, job, pc, result, decoder, encoder, watching, stream, temp, output>>

\* finish, called by the event loop.
Finish ==
  /\ open /\ pc = "finish"
  /\ pc' = "idle"
  /\ UNCHANGED <<user, result, decoder, encoder, watching, stream, temp, output>>

\* The program is closed; nothing waits for this worker, and its commands are left alone.
Quit ==
  /\ open /\ open' = FALSE
  /\ pc' = "idle" /\ watching' = FALSE
  /\ UNCHANGED <<exports, job, cancel, result, decoder, encoder, stream, temp, output>>

(* --------------------------- the two commands --------------------------- *)

Killed(process) == IF process = "runs" THEN "failed" ELSE process
Kill == decoder' = Killed(decoder) /\ encoder' = Killed(encoder)

\* The input is closed, or -frames:v has been reached; one command alone just works.
Fed == ~Temporal \/ ~open \/ Len(written) >= job.count \/ pc = "wait"

Received == IF ~Temporal THEN job.real
            ELSE IF Len(written) < job.count THEN Len(written) ELSE job.count

EncoderEnds ==
  /\ encoder = "runs"
  /\ \/ /\ Fed
        /\ encoder' = "ok"
        /\ temp' \in {Received} \cup (IF "short" \in Faults THEN {Received - 1} ELSE {})
     \/ "media" \in Faults /\ encoder' = "failed" /\ UNCHANGED temp
  /\ UNCHANGED <<user, pc, result, decoder, watching, stream, output>>

\* The last frame has been read, or nobody reads any more.
DecoderEnds ==
  /\ decoder = "runs"
  /\ \/ decoder' = "ok" /\ decoded = job.real
     \/ decoder' = "failed" /\ ("media" \in Faults \/ ~open)
  /\ UNCHANGED <<user, pc, result, encoder, watching, stream, temp, output>>

\* watch_cancellation
WatcherKills ==
  /\ watching /\ cancel
  /\ watching' = FALSE
  /\ Kill
  /\ UNCHANGED <<user, pc, result, stream, temp, output>>

(* --------------------------- the worker --------------------------- *)

Goto(place) == pc' = place
Raise(kind) == result' = kind /\ pc' = IF Temporal THEN "close" ELSE "unlink"

\* An OSError of the stream after the cancellation counts as the cancellation.
BrokenPipe == Raise(IF Temporal /\ cancel THEN "cancelled" ELSE "error")

\* The probe and the free space; the geometry and the working set of the window.
Probe ==
  /\ pc = "probe"
  /\ \/ Goto("popen") /\ UNCHANGED result
     \/ "media" \in Faults /\ Goto("finish") /\ result' = "error"
  /\ UNCHANGED <<user, decoder, encoder, watching, stream, temp, output>>

\* Both commands and the watcher, or the one command.
Popen ==
  /\ pc = "popen"
  /\ \/ /\ Temporal /\ cancel
        /\ Raise("cancelled") /\ UNCHANGED <<decoder, encoder, watching, temp>>
     \/ /\ Temporal /\ ~cancel
        /\ decoder' = "runs" /\ encoder' = "runs" /\ watching' = TRUE /\ temp' = 0
        /\ Goto("look") /\ UNCHANGED result
     \/ /\ ~Temporal
        /\ encoder' = "runs" /\ temp' = 0
        /\ Goto("poll") /\ UNCHANGED <<result, decoder, watching>>
     \/ /\ "media" \in Faults
        /\ decoder' \in IF Temporal THEN {"none", "runs"} ELSE {"none"}
        /\ BrokenPipe /\ UNCHANGED <<encoder, watching, temp>>
  /\ UNCHANGED <<user, stream, output>>

\* The head of the loop.
Look ==
  /\ pc = "look"
  /\ IF cancel THEN Raise("cancelled") ELSE Goto("read") /\ UNCHANGED result
  /\ UNCHANGED <<user, decoder, encoder, watching, stream, temp, output>>

\* _read_exact blocks: a frame; the end; or the part of a frame that a decoder leaves which has
\* not ended by itself.  What the pipe still holds of such a decoder is read as well.
Read ==
  /\ pc = "read"
  /\ \/ /\ decoded < job.real
        /\ decoded' = decoded + 1
        /\ Goto("write") /\ UNCHANGED <<result, first, target, eof, written>>
     \/ /\ decoder # "runs"
        /\ eof' = TRUE
        /\ Goto("write") /\ UNCHANGED <<result, decoded, first, target, written>>
     \/ /\ decoder = "failed" /\ decoded < job.real
        /\ Raise("error") /\ UNCHANGED stream
  /\ UNCHANGED <<user, decoder, encoder, watching, temp, output>>

Ready == eof \/ decoded - 1 >= target + Radius

\* The first frame that some later target still needs.
Kept(next) == IF next - Radius > first THEN next - Radius ELSE first

\* reconstruct_window_target of the target and the write; then frames nobody needs leave.
Write ==
  /\ pc = "write"
  /\ \/ /\ decoded > first /\ Ready /\ target < decoded
        /\ \/ /\ encoder = "runs"
              /\ written' = Append(written, [frame |-> target, from |-> first, to |-> decoded - 1])
              /\ target' = target + 1 /\ first' = Kept(target + 1)
              /\ UNCHANGED <<pc, result>>
           \/ encoder # "runs" /\ BrokenPipe /\ UNCHANGED <<target, first, written>>
     \/ /\ ~(decoded > first /\ Ready /\ target < decoded)
        /\ Goto(IF eof THEN "close_input" ELSE "look")
        /\ UNCHANGED <<result, target, first, written>>
  /\ UNCHANGED <<user, decoder, encoder, watching, decoded, eof, temp, output>>

CloseInput ==
  /\ pc = "close_input"
  /\ \/ Goto("wait") /\ UNCHANGED result
     \/ encoder # "runs" /\ BrokenPipe
  /\ UNCHANGED <<user, decoder, encoder, watching, stream, temp, output>>

Exact == Len(written) = job.count /\ temp > 0

\* Both waits and what is asked of the stream.
Wait ==
  /\ pc = "wait" /\ decoder # "runs" /\ encoder # "runs"
  /\ \/ cancel /\ Raise("cancelled")
     \/ ~cancel /\ ~(decoder = "ok" /\ encoder = "ok" /\ Exact) /\ Raise("error")
     \/ ~cancel /\ decoder = "ok" /\ encoder = "ok" /\ Exact /\ Goto("close") /\ UNCHANGED result
  /\ UNCHANGED <<user, decoder, encoder, watching, stream, temp, output>>

\* The finally block of the stream.
Terminate == Kill

Close ==
  /\ pc = "close"
  /\ Terminate
  /\ watching' = FALSE
  /\ Goto(IF result = "none" THEN "validate" ELSE "unlink")
  /\ UNCHANGED <<user, result, stream, temp, output>>

\* The loop of the colour route: the process first, then the event.
Poll ==
  /\ pc = "poll"
  /\ \/ encoder = "runs" /\ cancel /\ Kill /\ Raise("cancelled")
     \/ /\ encoder = "ok" /\ temp > 0
        /\ Goto("validate") /\ UNCHANGED <<result, decoder, encoder>>
     \/ /\ encoder = "failed" \/ (encoder = "ok" /\ temp <= 0)
        /\ Raise("error") /\ UNCHANGED <<decoder, encoder>>
  /\ UNCHANGED <<user, watching, stream, temp, output>>

\* validate_preview_output_contract
Contract(frames) == frames = job.count

Validate ==
  /\ pc = "validate"
  /\ \/ Contract(temp) /\ Goto("replace") /\ UNCHANGED result
     \/ (~Contract(temp) \/ "media" \in Faults) /\ Goto("unlink") /\ result' = "error"
  /\ UNCHANGED <<user, decoder, encoder, watching, stream, temp, output>>

Replace ==
  /\ pc = "replace"
  /\ \/ output' = temp /\ temp' = -1 /\ result' = "done"
     \/ "disk" \in Faults /\ result' = "error" /\ UNCHANGED <<temp, output>>
  /\ Goto("unlink")
  /\ UNCHANGED <<user, decoder, encoder, watching, stream>>

\* The outer finally block, and the call to the event loop.
Unlink ==
  /\ pc = "unlink"
  /\ temp' \in {-1} \cup (IF "unlink" \in Faults THEN {temp} ELSE {})
  /\ Goto("finish")
  /\ UNCHANGED <<user, result, decoder, encoder, watching, stream, output>>

Work ==
  \/ Probe \/ Popen \/ Look \/ Read \/ Write \/ CloseInput \/ Wait \/ Close \/ Poll
  \/ Validate \/ Replace \/ Unlink

\* What goes on by itself.
Running == Work \/ Finish \/ EncoderEnds \/ DecoderEnds \/ WatcherKills

Next == (\E j \in Possible : StartExport(j)) \/ CancelExport \/ Quit \/ Running

Spec == Init /\ [][Next]_vars

(* --------------------------- properties --------------------------- *)

Places == {"idle", "probe", "popen", "look", "read", "write", "close_input", "wait", "close", "poll",
           "validate", "replace", "unlink", "finish"}
ProcessStates == {"none", "runs", "ok", "failed"}

Limit == 1 + CHOOSE n \in Counts : \A k \in Counts : k <= n

TypeOK ==
  /\ {open, cancel, watching, eof} \subseteq BOOLEAN
  /\ exports \in 0 .. MaxExports /\ job \in Possible
  /\ pc \in Places /\ result \in {"none", "done", "cancelled", "error"}
  /\ decoder \in ProcessStates /\ encoder \in ProcessStates
  /\ {decoded, first, target} \subseteq 0 .. job.real
  /\ Len(written) <= job.real
  /\ {temp, output} \subseteq -1 .. Limit

Least(a, b) == IF a < b THEN a ELSE b
Most(a, b)  == IF a > b THEN a ELSE b

\* The encoder gets every frame once and in order, each reconstructed from the Radius frames
\* before and the Radius frames after it that the decoder gave, at the ends of the clip as well
\* (the rolling window of stream_temporal_preview).
FramesInOrder ==
  \A i \in 1 .. Len(written) :
    /\ written[i].frame = i - 1
    /\ written[i].from = Most(0, i - 1 - Radius)
    /\ written[i].to = Least(i - 1 + Radius, decoded - 1)

\* "The rolling deque can retain at most 2 * radius + 1 decoded frames"
\* (estimated_temporal_working_set, on which a clip is refused for its memory).
WindowBounded == decoded - first <= 2 * Radius + 1

\* The output is replaced only by a file with all frames of the clip, all of them given to the
\* encoder when they were reconstructed.
PublishesWhole ==
  output' # output =>
    output' = job.count /\ (Temporal => Len(written) = job.count)

\* When the worker is over, none of its commands runs, and its temporary file is there only if
\* it could not be deleted; as long as the program has not been closed beneath it.
NothingLeft ==
  open /\ pc \in {"finish", "idle"} =>
    /\ decoder # "runs" /\ encoder # "runs" /\ ~watching
    /\ temp # -1 => "unlink" \in Faults

Exporting == open /\ pc # "idle"

\* Not true, even without faults: the part of a frame that the kill leaves in the pipe is
\* reported as a failure.
SaysCancelled == pc = "finish" /\ cancel => result \in {"cancelled", "done"}

\* Not true: a cancellation after the last look at the event is announced and the file published.
CancelPublishesNothing == [][cancel => output' = output]_vars

(* The inductive invariant (ComponentProofs): the window ends no further than the target needs     *)
(* and, until the last frame is read, no nearer; the commands run only from Popen to Close or Poll; *)
(* the file that is validated has been given every frame.                                          *)
Shape == TypeOK /\ written \in Seq([frame: Int, from: Int, to: Int])
Rolling ==
  /\ target = Len(written) /\ first = Most(0, target - Radius)
  /\ decoded <= target + Radius + 1
  /\ ~eof /\ target > 0 => target + Radius <= decoded
  /\ pc \in {"probe", "popen", "look", "read"} => ~eof /\ decoded <= target + Radius
Alone ==
  /\ pc # "idle" => open
  /\ open /\ pc \in {"idle", "probe", "popen", "validate", "replace", "unlink", "finish"}
       => decoder # "runs" /\ encoder # "runs" /\ ~watching
  /\ open /\ ~Temporal => decoder # "runs" /\ ~watching
  /\ pc = "poll" => ~Temporal
  /\ pc \in {"look", "read", "write", "close_input", "wait", "close"} => Temporal
  /\ pc \in {"probe", "popen"} => temp = -1
  /\ NothingLeft
Given ==
  /\ pc = "close" /\ result = "none" => Len(written) = job.count
  /\ pc \in {"validate", "replace"} /\ Temporal => Len(written) = job.count
  /\ pc = "replace" => temp = job.count
Inv == Shape /\ Rolling /\ FramesInOrder /\ Alone /\ Given
==================================================================================
