----------------------------- MODULE ComposerExport -----------------------------
(***************************************************************************)
(* The export of the Preview Composer: the choice between the CUDA routes   *)
(* and the CPU reference (composer_auto_export.py, composer_gpu_route.py),   *)
(* the store of their evidence (gpu_compositor.py), the reference itself     *)
(* (composer_export.py) and its sequential decoders                          *)
(* (composer_decode_stream.py, composer_media.py).                           *)
(***************************************************************************)
EXTENDS Integers, Sequences

CONSTANTS
  Routes,      \* CUDA routes of this machine, a subset of {"resident", "plain"}
  Layers,      \* media layers of the stack
  Media,       \* layer -> [frames, rate, loop, animated]
  Frames,      \* frames of the project
  MaxExports,  \* bound on the exports
  Faults       \* a subset of {"gpu", "decode", "encode", "disk", "bench"}

VARIABLES
  evidence,    \* route -> record of the store
  proven,      \* routes whose last benchmark found the exact product
  pc,
  route,       \* the route in use, "cpu" when none
  product,     \* frames of the product being made, and by whom
  output,      \* the file at the output path
  stream,      \* layer -> frames the live decoder has given, -1 when there is none
  next,        \* layer -> next_index
  cached,      \* layer -> cached_index, -1 when none
  pixels,      \* layer -> the frame of the media the cached pixels are of
  drawn,       \* frames composed so far: layer -> media frame shown
  cancelled,
  result,
  exports

vars == <<evidence, proven, pc, route, product, output, stream, next, cached, pixels, drawn,
          cancelled, result, exports>>
decoders == <<stream, next, cached, pixels>>
store    == <<evidence, proven>>

Nothing == [by |-> "none", frames |-> 0]
Static(l) == Media[l].frames = 1 /\ ~Media[l].animated

\* playback_position: the media frame of layer l at project frame i, -1 when it is not shown.
Position(l, i) ==
  LET played == IF Media[l].loop THEN (i * Media[l].rate) % Media[l].frames ELSE i * Media[l].rate
  IN  IF Static(l) THEN 0 ELSE IF played >= Media[l].frames THEN -1 ELSE played

Init ==
  /\ evidence = [r \in Routes |-> "none"] /\ proven = {}
  /\ pc = "idle" /\ route = "cpu"
  /\ product = Nothing /\ output = Nothing
  /\ stream = [l \in Layers |-> -1] /\ next = [l \in Layers |-> 0]
  /\ cached = [l \in Layers |-> -1] /\ pixels = [l \in Layers |-> -1]
  /\ drawn = <<>> /\ cancelled = FALSE /\ result = "none" /\ exports = 0

(* --------------------------- the route --------------------------- *)

Due(r) == evidence[r] \in {"none", "old"}

\* select_gpu_export_route, and the resident route preferred to it.
SelectRoute ==
  /\ pc = "idle" /\ exports < MaxExports
  /\ exports' = exports + 1 /\ cancelled' = FALSE /\ result' = "none"
  /\ route' = IF "plain" \in Routes /\ evidence["plain"] = "accepted" THEN "plain" ELSE "cpu"
  /\ pc' = "resident"
  /\ drawn' = <<>> /\ product' = Nothing
  /\ UNCHANGED <<store, output, decoders>>

\* _learn_exact_gpu_route: both exports of two seconds, the comparison and the record.
Learn(r, verdict) ==
  /\ evidence' = [evidence EXCEPT ![r] = IF verdict = "accepted" THEN "accepted" ELSE "cooling"]
  /\ proven' = IF verdict = "accepted" THEN proven \cup {r} ELSE proven \ {r}
  /\ route' = IF verdict = "accepted" THEN r ELSE route

Consider(r, after) ==
  /\ pc' = after /\ UNCHANGED <<product, output, decoders, drawn, cancelled, result, exports>>
  /\ \/ /\ evidence[r] = "accepted" /\ route' = r /\ UNCHANGED store
     \/ /\ Due(r)
        /\ \E verdict \in {"accepted"} \cup (IF "bench" \in Faults THEN {"rejected", "failed"} ELSE {}) :
             Learn(r, verdict)
     \/ /\ evidence[r] # "accepted"      \* not due, or too little video memory is free
        /\ UNCHANGED <<store, route>>

ConsiderResident ==
  /\ pc = "resident"
  /\ IF "resident" \in Routes
     THEN Consider("resident", "plain")
     ELSE pc' = "plain" /\ UNCHANGED <<store, route, product, output, decoders, drawn, cancelled,
                                       result, exports>>

ConsiderPlain ==
  /\ pc = "plain"
  /\ IF "plain" \in Routes /\ route = "cpu"
     THEN Consider("plain", "run")
     ELSE pc' = "run" /\ UNCHANGED <<store, route, product, output, decoders, drawn, cancelled,
                                     result, exports>>

\* The benchmark is cancelled: nothing is recorded.
Interrupted ==
  /\ cancelled
  /\ \/ pc \in {"resident", "plain"} /\ \E r \in Routes : Due(r)
     \/ pc \in {"gpu", "gpu_mux", "frame", "cpu_mux"}
  /\ pc' = "clean" /\ result' = "cancelled" /\ product' = Nothing
  /\ UNCHANGED <<store, route, output, decoders, drawn, cancelled, exports>>

\* The video memory is read once more before the approved route is entered.
Run ==
  /\ pc = "run"
  /\ \/ route # "cpu" /\ pc' = "gpu" /\ UNCHANGED route
     \/ route' = "cpu" /\ pc' = "frame"
  /\ UNCHANGED <<store, product, output, decoders, drawn, cancelled, result, exports>>

(* --------------------------- the CUDA export --------------------------- *)

\* _verify_gpu_product tolerates one frame.
Verified(frames) == frames \in Frames - 1 .. Frames + 1

GpuProduces(after, frames) ==
  /\ Verified(frames)
  /\ pc' = after /\ product' = [by |-> route, frames |-> frames]
  /\ UNCHANGED <<store, route, output, decoders, drawn, cancelled, result, exports>>

\* A product that fails its verification or a GPU failure with memory to spare revokes the
\* evidence; unless cancelled, the CPU reference replaces the route.
GpuFails(Revocable) ==
  /\ \E revoked \in Revocable :
       /\ evidence' = IF revoked THEN [evidence EXCEPT ![route] = "none"] ELSE evidence
       /\ proven' = IF revoked THEN proven \ {route} ELSE proven
  /\ route' = "cpu" /\ product' = Nothing
  /\ pc' = IF cancelled THEN "clean" ELSE "frame"
  /\ result' = IF cancelled THEN "cancelled" ELSE result
  /\ UNCHANGED <<output, decoders, drawn, cancelled, exports>>

GpuRender ==
  /\ pc = "gpu"
  /\ \/ ~cancelled /\ \E frames \in 1 .. Frames : GpuProduces("gpu_mux", frames)
     \/ "gpu" \in Faults /\ GpuFails(BOOLEAN)

GpuMux ==
  /\ pc = "gpu_mux"
  /\ \/ ~cancelled /\ \E frames \in {product.frames - 1, product.frames} : GpuProduces("commit", frames)
     \/ "gpu" \in Faults /\ GpuFails(BOOLEAN)

(* --------------------------- the CPU reference --------------------------- *)

Fails ==
  /\ pc' = "clean" /\ result' = "failed" /\ product' = Nothing
  /\ UNCHANGED <<store, route, output, decoders, drawn, cancelled, exports>>

\* SequentialRgbaDecoder.frame: a hit of the cache, else the stream is read up to the target,
\* from its beginning when the target lies behind.
Hit(l, target) == cached[l] = target
Restarts(l, target) == stream[l] >= 0 /\ target < next[l]
Spawned(l, target) == stream[l] < 0 \/ Restarts(l, target)
FirstRead(l, target) == IF Spawned(l, target) THEN 0 ELSE stream[l]
FirstIndex(l, target) == IF Spawned(l, target) THEN 0 ELSE next[l]
Reads(l, target) == target + 1 - FirstIndex(l, target)

NextPositions == [l \in Layers |-> Position(l, Len(drawn))]
Asked == {l \in Layers : NextPositions[l] >= 0}
Read  == {l \in Asked : ~Hit(l, NextPositions[l])}

DecodeLayers ==
  LET t == NextPositions IN
  /\ stream' = [l \in Layers |-> IF l \notin Read THEN stream[l]
                                 ELSE IF Static(l) THEN -1 ELSE FirstRead(l, t[l]) + Reads(l, t[l])]
  /\ next' = [l \in Layers |-> IF l \notin Read THEN next[l] ELSE IF Static(l) THEN 0 ELSE t[l] + 1]
  /\ cached' = [l \in Layers |-> IF l \in Read THEN t[l] ELSE cached[l]]
  /\ pixels' = [l \in Layers |-> IF l \in Read THEN FirstRead(l, t[l]) + Reads(l, t[l]) - 1
                                 ELSE pixels[l]]

ComposeFrame ==
  /\ pc = "frame" /\ ~cancelled /\ Len(drawn) < Frames
  /\ \/ /\ DecodeLayers
        /\ drawn' = Append(drawn, [l \in Layers |-> IF l \in Asked THEN pixels'[l] ELSE -1])
        /\ UNCHANGED <<store, pc, route, product, output, cancelled, result, exports>>
     \/ /\ Faults \cap {"decode", "encode"} # {}
        /\ Fails

EncoderEnds ==
  /\ pc = "frame" /\ ~cancelled /\ Len(drawn) = Frames
  /\ \/ /\ pc' = "cpu_mux" /\ product' = [by |-> "cpu", frames |-> Frames]
        /\ UNCHANGED <<store, route, output, decoders, drawn, cancelled, result, exports>>
     \/ "encode" \in Faults /\ Fails

\* Mutant: the frames of the file are not counted.
CountedNever(frames) == TRUE

\* The mux may lose frames without an error: they are counted.
Counted(frames) == frames = Frames

CpuMux ==
  /\ pc = "cpu_mux" /\ ~cancelled
  /\ \E frames \in IF "encode" \in Faults THEN {Frames - 1, Frames} ELSE {Frames} :
       IF Counted(frames)
       THEN /\ pc' = "commit" /\ product' = [product EXCEPT !.frames = frames]
            /\ UNCHANGED <<store, route, output, decoders, drawn, cancelled, result, exports>>
       ELSE Fails

(* --------------------------- the end of both --------------------------- *)

\* AtomicOutput.commit; when it fails the CUDA route falls back on the reference as well.
Commit ==
  /\ pc = "commit"
  /\ \/ /\ output' = product /\ product' = Nothing
        /\ pc' = "clean" /\ result' = "done"
        /\ UNCHANGED <<store, route, decoders, drawn, cancelled, exports>>
     \/ /\ "disk" \in Faults
        /\ IF product.by = "cpu" THEN Fails ELSE GpuFails({FALSE})

\* The finally blocks: discard, close of the decoders, folders of the export.
CleanUp ==
  /\ pc = "clean"
  /\ pc' = "idle" /\ product' = Nothing /\ route' = "cpu" /\ drawn' = <<>>
  /\ stream' = [l \in Layers |-> -1] /\ next' = [l \in Layers |-> 0]
  /\ cached' = [l \in Layers |-> -1] /\ pixels' = [l \in Layers |-> -1]
  /\ UNCHANGED <<store, output, cancelled, result, exports>>

Cancel ==
  /\ pc \notin {"idle", "clean"} /\ ~cancelled
  /\ cancelled' = TRUE
  /\ UNCHANGED <<store, pc, route, product, output, decoders, drawn, result, exports>>

\* The six hours of benchmark_due go by.
CoolDown(r) ==
  /\ pc = "idle" /\ evidence[r] = "cooling"
  /\ evidence' = [evidence EXCEPT ![r] = "old"]
  /\ UNCHANGED <<proven, pc, route, product, output, decoders, drawn, cancelled, result, exports>>

Step ==
  \/ ConsiderResident \/ ConsiderPlain \/ Interrupted \/ Run \/ GpuRender \/ GpuMux
  \/ ComposeFrame \/ EncoderEnds \/ CpuMux \/ Commit \/ CleanUp

Next == SelectRoute \/ Step \/ Cancel \/ \E r \in Routes : CoolDown(r)

Spec == Init /\ [][Next]_vars /\ WF_vars(Step)

(* --------------------------- properties --------------------------- *)

Products == [by : {"none", "cpu"} \cup Routes, frames : 0 .. Frames + 1]

TypeOK ==
  /\ evidence \in [Routes -> {"none", "cooling", "old", "accepted"}] /\ proven \subseteq Routes
  /\ route \in Routes \cup {"cpu"} /\ product \in Products /\ output \in Products
  /\ Len(drawn) <= Frames /\ exports \in 0 .. MaxExports
  /\ result \in {"none", "done", "failed", "cancelled"}

\* A composed frame shows of each layer exactly the media frame its playback position asks for,
\* through cache hits, skipped frames, loop wraps and restarts of the decoder.
FramesExact ==
  \A i \in 1 .. Len(drawn) : \A l \in Layers : drawn[i][l] = Position(l, i - 1)

\* What is put at the output is a whole product: the reference to the frame, a CUDA product within
\* one frame and of a route whose own benchmark was exact and has not been revoked since.
WholeProduct ==
  output' # output =>
    \/ output'.by = "cpu" /\ output'.frames = Frames /\ Len(drawn) = Frames
    \/ /\ output'.by \in proven
       /\ output'.frames >= Frames - 1
DeliveredWhole == [][WholeProduct]_vars

\* "cancellation never triggers a surprise retry": a failure found after a cancellation composes
\* no frame and leaves the output alone, and an export that ends cancelled has delivered nothing.
NothingAfterCancel ==
  /\ cancelled => Len(drawn') <= Len(drawn)
  /\ cancelled /\ output' # output => pc = "commit"
  /\ result' = "cancelled" => output' = output
CancelIsFinal == [][NothingAfterCancel]_vars

\* Every export ends, and no decoder outlives it.
Busy == pc # "idle"
NoDecoder == \A l \in Layers : stream[l] = -1
ExportEnds == Busy ~> (~Busy /\ NoDecoder)

(* The inductive invariant (ComponentProofs): a live decoder stands where its layer expects it and *)
(* the cached pixels are of the cached frame; the route in use is proven, and the product is its.  *)
Shape ==
  /\ TypeOK /\ cancelled \in BOOLEAN
  /\ pc \in {"idle", "resident", "plain", "run", "gpu", "gpu_mux", "frame", "cpu_mux", "commit", "clean"}
  /\ drawn \in Seq([Layers -> Int])
  /\ {stream, next, cached, pixels} \subseteq [Layers -> Int]
Aligned == \A l \in Layers : /\ stream[l] >= 0 => stream[l] = next[l]
                             /\ pixels[l] = cached[l]
RouteProven ==
  /\ \A r \in Routes : evidence[r] = "accepted" => r \in proven
  /\ route # "cpu" => route \in proven
  /\ pc = "resident" => route # "resident"
  /\ pc \in {"gpu", "gpu_mux"} => route # "cpu"
  /\ pc \in {"frame", "cpu_mux"} => route = "cpu"
ProductWhole ==
  /\ pc \in {"gpu_mux", "commit"} /\ product.by # "cpu" =>
       product.by = route /\ route # "cpu" /\ product.frames >= Frames - 1
  /\ pc = "gpu_mux" => product.by # "cpu"
  /\ pc = "commit" /\ product.by = "cpu" => product.frames = Frames /\ Len(drawn) = Frames
  /\ pc = "cpu_mux" => product = [by |-> "cpu", frames |-> Frames] /\ Len(drawn) = Frames
Inv == Shape /\ Aligned /\ RouteProven /\ ProductWhole /\ FramesExact
================================================================================
