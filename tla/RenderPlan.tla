------------------------------ MODULE RenderPlan ------------------------------
(***************************************************************************)
(* The pure planning of a render (render_plan.py, color_pipeline.py and    *)
(* storage_engine.estimate_storage): which stages a project runs, in which *)
(* cadence and colour, and how much scratch space they are said to need.   *)
(*                                                                         *)
(* Frame sizes and durations are abstracted to one size per stage; a frame *)
(* rate is the source's or the target's, and "cadence" says how the two    *)
(* compare.                                                                *)
(***************************************************************************)
EXTENDS Integers

\* A neural component is not selected, selected, or selected and not installed.
Selections == {"no", "yes", "absent"}

\* What one render is asked for.  upscale: the framing enlarges the source.
\* loop: the automatic loop starts after the first frame.  brief: the clip is
\* shorter than 0.6 s.  few: at the target rate the clip has no more frames than
\* at its own.
Projects ==
  { p \in [music: BOOLEAN, effects: BOOLEAN, transition: BOOLEAN, loop: BOOLEAN,
           ai: Selections, upscale: BOOLEAN, rife: Selections,
           cadence: {"raise", "same", "lower"}, colour: {"sdr8", "sdr10", "hdr"},
           brief: BOOLEAN, few: BOOLEAN] :
      p.transition \/ p.loop => p.music }

Raises(p)     == p.cadence = "raise"
SourceRate(p) == IF p.cadence = "same" THEN "target" ELSE "source"
TargetAbove(p, rate) == rate = "source" /\ Raises(p)

(***************************************************************************)
(* The steps and their status.                                             *)
(***************************************************************************)
Attempts(status) == status # "skip"
Available(choice) == IF choice = "yes" THEN "run" ELSE "conditional"

Enhancement(p) ==
  IF p.ai # "no" /\ p.upscale THEN Available(p.ai) ELSE "skip"

RifeBase(p) ==
  IF p.music /\ p.rife # "no" /\ TargetAbove(p, SourceRate(p)) THEN Available(p.rife) ELSE "skip"

NeedsMaster(p) == p.music \/ p.effects \/ p.transition

MasterRate(p) ==
  IF p.rife # "no" /\ Raises(p) /\ ~p.music THEN SourceRate(p) ELSE "target"

\* The cadence planned before the final interpolation.
VisualRate(p) ==
  IF NeedsMaster(p) THEN MasterRate(p)
  ELSE IF RifeBase(p) = "run" THEN "target" ELSE SourceRate(p)

RifeFinal(p) ==
  IF p.rife # "no" /\ TargetAbove(p, VisualRate(p)) THEN Available(p.rife) ELSE "skip"

\* Effects of a music project are encoded straight into the delivery.
FusedDelivery(p) == p.music /\ p.effects /\ ~Attempts(RifeFinal(p))

RifeCalls(p) == (IF RifeBase(p) = "run" THEN 1 ELSE 0) + (IF RifeFinal(p) = "run" THEN 1 ELSE 0)

(***************************************************************************)
(* The colour contract.                                                    *)
(***************************************************************************)
ColorPipeline(p, rifeActive) ==
  LET neural == p.ai # "no" \/ rifeActive
      unsafe == neural \/ p.effects \/ p.transition
  IN CASE p.colour = "hdr" /\ unsafe ->
            [intent |-> "tone_map_sdr", depth |-> IF neural THEN 8 ELSE 10, converts |-> TRUE]
       [] p.colour = "hdr" /\ ~unsafe ->
            [intent |-> "preserve_hdr", depth |-> 10, converts |-> FALSE]
       [] p.colour = "sdr10" /\ neural ->
            [intent |-> "preserve_sdr", depth |-> 8, converts |-> TRUE]
       [] p.colour = "sdr10" /\ ~neural ->
            [intent |-> "preserve_sdr", depth |-> 10, converts |-> FALSE]
       [] p.colour = "sdr8" ->
            [intent |-> "preserve_sdr", depth |-> 8, converts |-> FALSE]

\* The planner and the render thread each work out whether RIFE takes part.
PlannedColor(p) == ColorPipeline(p, p.rife # "no" /\ Raises(p))
WorkerColor(p)  ==
  ColorPipeline(p, p.rife # "no" /\ (Attempts(RifeBase(p)) \/ Attempts(RifeFinal(p))))

ColorRuns(p) == PlannedColor(p).converts

\* Mutant: the final interpolation is not one of the readers.
ColorPrepassForTwo(p) == ColorRuns(p) /\ (Attempts(Enhancement(p)) \/ RifeBase(p) = "run")

\* The conversion gets a file of its own when a neural stage is its first reader.
ColorPrepass(p) ==
  /\ ColorRuns(p)
  /\ \/ Attempts(Enhancement(p))
     \/ RifeBase(p) = "run"
     \/ Attempts(RifeFinal(p)) /\ ~NeedsMaster(p)

(***************************************************************************)
(* estimate_storage: the scratch that is expected to remain before a       *)
(* stage, and the peaks of which the estimate is the largest.              *)
(***************************************************************************)
Stages == {"color", "enhancement", "rife_base", "master", "transition", "vfx", "rife_final"}

Kept(p, size) ==
  LET color == IF ColorPrepass(p) THEN size["color"] ELSE 0
      ai    == IF Enhancement(p) = "run" THEN 0 ELSE color
      base  == IF RifeBase(p) = "run" THEN size["rife_base"] ELSE ai
      master == IF NeedsMaster(p) THEN size["master"] ELSE base
      joined == IF p.transition THEN size["transition"] ELSE master
      vfx   == IF ~p.effects THEN joined ELSE IF FusedDelivery(p) THEN 0 ELSE size["vfx"]
      last  == IF RifeFinal(p) = "run" THEN size["rife_final"] ELSE vfx
  IN [color |-> 0, enhancement |-> color, rife_base |-> ai, master |-> base,
      transition |-> master, vfx |-> joined, rife_final |-> vfx, encode |-> last]

\* The peaks estimated for a stage, given the sizes of the files the stages write
\* and of the frames that two neural stages hold.
StagePeaks(p, size, frames, stage) ==
  LET before == Kept(p, size)[stage]
  IN CASE stage \in {"enhancement", "rife_base", "rife_final"} ->
            {before + size[stage] + frames[stage], before + 2 * size[stage]}
       [] stage = "vfx" /\ FusedDelivery(p) -> {before}
       [] stage = "encode" -> {before}
       [] OTHER -> {before + size[stage]}

\* Does the planned render reach this stage?  A neural stage that is missing
\* ("conditional") materialises nothing.
Planned(p, stage) ==
  CASE stage = "color"       -> ColorPrepass(p)
    [] stage = "enhancement" -> Enhancement(p) = "run"
    [] stage = "rife_base"   -> RifeBase(p) = "run"
    [] stage = "master"      -> NeedsMaster(p)
    [] stage = "transition"  -> p.transition
    [] stage = "vfx"         -> p.effects
    [] stage = "rife_final"  -> RifeFinal(p) = "run"
    [] stage = "encode"      -> TRUE

Peaks(p, size, frames) ==
  UNION { StagePeaks(p, size, frames, stage) : stage \in {s \in Stages \cup {"encode"} : Planned(p, s)} }
===============================================================================
