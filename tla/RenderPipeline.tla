---------------------------- MODULE RenderPipeline ----------------------------
(***************************************************************************)
(* The stages of one render after another (studio.py, _worker): which file *)
(* each stage reads and writes, when the file it has consumed is released, *)
(* and what the worker believes of the file it holds (start, cadence,      *)
(* colour) while the file itself says what it really is.                   *)
(***************************************************************************)
EXTENDS RenderPlan, FiniteSets

CONSTANTS
  Size,        \* the size of the file each stage writes
  Frames,      \* the size of the frames a neural stage holds at once
  Asked,       \* the projects that may be rendered
  Edits,       \* may the loop be switched between two renders?
  MaxRenders,
  Faults       \* a subset of AllFaults

AllFaults == {"media", "rife", "promotion", "late", "cancel"}

ASSUME SizesAreNatural == Size \in [Stages -> Nat] /\ Frames \in [Stages -> Nat]
ASSUME AskedAreProjects == Asked \subseteq Projects
ASSUME FaultsAreKnown == Faults \subseteq AllFaults

VARIABLES
  project,     \* the settings of this render
  next,        \* the stage to run, or how the render ended
  phase,       \* where in that stage
  files,       \* scratch files that exist, named by the stage that wrote them
  clip,        \* what each of them really holds
  video,       \* the file the worker holds (working_video, visual_source)
  consumed,    \* the file the stage has read
  seek,        \* working_start is not zero
  rate,        \* working_fps, visual_fps
  converted,   \* color_already_converted
  cache,       \* enhanced clips kept from earlier renders
  partial,     \* what was encoded into the partial output
  astray,      \* faults that changed the course of this render
  renders

vars == <<project, next, phase, files, clip, video, consumed, seek, rate, converted,
          cache, partial, astray, renders>>
render == <<project, cache, renders>>
belief == <<seek, rate, converted>>

NoClip == [at |-> 0, rate |-> "source", converted |-> 0, neural |-> 0, long |-> FALSE]
Follower == [ color |-> "enhancement", enhancement |-> "rife_base", rife_base |-> "master",
              master |-> "transition", transition |-> "vfx", vfx |-> "rife_final",
              rife_final |-> "encode", encode |-> "verify" ]
Endings == {"delivered", "failed", "cancelled"}
Readers == DOMAIN Follower

\* at: how many times the start of the loop was cut off; converted: how many
\* times the colour was; neural: passes of RIFE; long: lasts as long as the project.
Clips == [at: Nat, rate: {"source", "target"}, converted: Nat, neural: Nat, long: BOOLEAN]

Bit(b) == IF b THEN 1 ELSE 0
SourceClip(p) == [NoClip EXCEPT !.rate = SourceRate(p), !.long = ~p.music]

\* What the worker holds, if it is still there.
InHand  == IF video = "source" THEN SourceClip(project) ELSE clip[video]
Present == video \in {"source", "cache"} \cup files

\* A filter changes the cadence only when the worker believes that it differs.
Retimed(c, wanted) == IF wanted = rate THEN c.rate ELSE wanted
\* The colour filter is part of a stage's filters unless it has been applied.
Coloured(c) == c.converted + Bit(ColorRuns(project) /\ ~converted)

(***************************************************************************)
(* The worker.                                                             *)
(***************************************************************************)
Start(p) ==
  /\ project' = p
  /\ next' = "color" /\ phase' = "start"
  /\ files' = {} /\ clip' = [s \in Stages \cup {"cache"} |-> NoClip]
  /\ video' = "source" /\ consumed' = "source"
  /\ seek' = p.loop /\ rate' = SourceRate(p) /\ converted' = FALSE
  /\ partial' = NoClip /\ astray' = {}

Init ==
  /\ project \in Asked
  /\ next = "color" /\ phase = "start"
  /\ files = {} /\ clip = [s \in Stages \cup {"cache"} |-> NoClip]
  /\ video = "source" /\ consumed = "source"
  /\ seek = project.loop /\ rate = SourceRate(project) /\ converted = FALSE
  /\ partial = NoClip /\ astray = {}
  /\ cache = {} /\ renders = 1

Runs(stage) ==
  CASE stage = "color"       -> ColorPrepass(project)
    [] stage = "enhancement" -> Attempts(Enhancement(project))
    [] stage = "rife_base"   -> RifeBase(project) = "run"
    [] stage = "master"      -> NeedsMaster(project)
    [] stage = "transition"  -> project.transition
    [] stage = "vfx"         -> project.effects
    [] stage = "rife_final"  -> Attempts(RifeFinal(project))
    [] stage = "encode"      -> ~(project.effects /\ FusedDelivery(project))

At(stage, p) == next = stage /\ phase = p
Begins(stage) == At(stage, "start") /\ Runs(stage) /\ Present

Skip ==
  /\ next \in Readers /\ phase = "start" /\ ~Runs(next)
  /\ next' = Follower[next]
  /\ UNCHANGED <<phase, files, clip, video, consumed, belief, partial, astray, render>>

\* The stage writes a scratch file and hands it on.
Produce(stage, c) ==
  /\ files' = files \cup {stage}
  /\ clip' = [clip EXCEPT ![stage] = c]
  /\ video' = stage /\ consumed' = video
  /\ phase' = "release"
  /\ UNCHANGED <<next, belief, partial, astray, render>>

Color ==
  /\ Begins("color")
  /\ Produce("color", [InHand EXCEPT !.at = @ + Bit(seek), !.converted = @ + 1])

Master ==
  /\ Begins("master")
  /\ Produce("master", [InHand EXCEPT !.at = @ + Bit(seek),
                                      !.rate = Retimed(InHand, MasterRate(project)),
                                      !.converted = Coloured(InHand)])

Transition ==
  /\ Begins("transition") /\ ~project.brief
  /\ Produce("transition", InHand)

\* Mutant: what the transition did not replace is released after it.
KeepMasterReleased ==
  /\ Begins("transition") /\ project.brief
  /\ consumed' = video /\ phase' = "release"
  /\ UNCHANGED <<next, files, clip, video, belief, partial, astray, render>>

\* A clip below 0.6 s has no room for a transition: the master is handed on.
KeepMaster ==
  /\ Begins("transition") /\ project.brief
  /\ next' = Follower["transition"]
  /\ UNCHANGED <<phase, files, clip, video, consumed, belief, partial, astray, render>>

VfxIntoFile ==
  /\ Begins("vfx") /\ ~FusedDelivery(project)
  /\ Produce("vfx", [InHand EXCEPT !.long = TRUE])

VfxIntoDelivery ==
  /\ Begins("vfx") /\ FusedDelivery(project)
  /\ partial' = [InHand EXCEPT !.long = TRUE]
  /\ consumed' = video /\ phase' = "release"
  /\ UNCHANGED <<next, files, clip, video, belief, astray, render>>

\* Frames are enhanced or interpolated in chunks, then the chunks are joined.
Neural(stage) ==
  /\ Begins(stage)
  /\ phase' = "chunks"
  /\ UNCHANGED <<next, files, clip, video, consumed, belief, partial, astray, render>>

Enhance == /\ Neural("enhancement") /\ project.ai = "yes"
           /\ ~\E e \in cache : e.key = seek
Interpolate(stage) == Neural(stage) /\ project.rife = "yes" /\ ~project.few

\* The joined file exists beside the chunks.
Join(stage, c) ==
  /\ At(stage, "chunks")
  /\ files' = files \cup {stage}
  /\ clip' = [clip EXCEPT ![stage] = c]
  /\ phase' = "join"
  /\ UNCHANGED <<next, video, consumed, belief, partial, astray, render>>

JoinEnhanced == Join("enhancement", [InHand EXCEPT !.at = @ + Bit(seek)])
JoinBase  == Join("rife_base", [InHand EXCEPT !.at = @ + Bit(seek), !.rate = "target", !.neural = @ + 1])
JoinFinal == Join("rife_final", [InHand EXCEPT !.rate = "target", !.neural = @ + 1])

Take(stage) ==
  /\ stage \in {"rife_base", "rife_final"} /\ At(stage, "join")
  /\ video' = stage /\ consumed' = video
  /\ phase' = "release"
  /\ UNCHANGED <<next, files, clip, belief, partial, astray, render>>

\* An enhanced clip of this source, start and duration is in the cache.
Hit ==
  /\ At("enhancement", "start") /\ Runs("enhancement")
  /\ \E e \in cache : /\ e.key = seek
                      /\ clip' = [clip EXCEPT !["cache"] = e.clip]
  /\ video' = "cache" /\ consumed' = video
  /\ phase' = "release"
  /\ UNCHANGED <<next, files, belief, partial, astray, render>>

\* The enhanced clip is moved into the cache, whose key names the start the
\* worker holds.
Promote ==
  /\ At("enhancement", "join")
  /\ cache' = cache \cup {[key |-> seek, clip |-> clip["enhancement"]]}
  /\ files' = files \ {"enhancement"}
  /\ clip' = [clip EXCEPT !["cache"] = clip["enhancement"]]
  /\ video' = "cache" /\ consumed' = video
  /\ phase' = "release"
  /\ UNCHANGED <<project, next, belief, partial, astray, renders>>

\* The move fails and the scratch file is used.  When it is the bookkeeping after
\* the move that fails, the name of the scratch file is still what is returned.
KeepEnhanced(fault) ==
  /\ At("enhancement", "join") /\ fault \in Faults
  /\ files' = IF fault = "late" THEN files \ {"enhancement"} ELSE files
  /\ video' = "enhancement" /\ consumed' = video
  /\ phase' = "release"
  /\ astray' = astray \cup {fault}
  /\ UNCHANGED <<next, clip, belief, partial, render>>

\* The interpolation has nothing to add and hands its input back.
NothingToAdd(stage) ==
  /\ At(stage, "start") /\ Runs(stage) /\ project.rife = "yes" /\ project.few
  /\ consumed' = video /\ phase' = "release"
  /\ UNCHANGED <<next, files, clip, video, belief, partial, astray, render>>

\* RIFE fails, or is not there: the next stage interpolates with FFmpeg.  A
\* failure after the join leaves the joined file behind.
FallBackToFfmpeg(stage) ==
  /\ next = stage /\ Runs(stage)
  /\ \/ phase = "start" /\ (~Present \/ project.rife = "absent")
     \/ phase \in {"start", "chunks", "join"} /\ "rife" \in Faults
  /\ next' = Follower[stage] /\ phase' = "start"
  /\ astray' = astray \cup {"rife"}
  /\ UNCHANGED <<files, clip, video, consumed, belief, partial, render>>

\* Mutants: the start is not reset after the first interpolation; nothing is deleted.
ReleaseStillSeeking ==
  /\ phase = "release"
  /\ files' = files \ {consumed}
  /\ next' = Follower[next] /\ phase' = "start"
  /\ seek' = (seek /\ next \notin {"color", "enhancement"})
  /\ rate' = CASE next \in {"rife_base", "rife_final"} -> "target"
               [] next = "master" -> MasterRate(project)
               [] OTHER -> rate
  /\ converted' = CASE next \in {"color", "enhancement", "rife_base", "vfx"} -> TRUE
                    [] next = "master" -> converted \/ ColorRuns(project)
                    [] OTHER -> converted
  /\ UNCHANGED <<clip, video, consumed, partial, astray, render>>

ReleaseNothing ==
  /\ phase = "release"
  /\ next' = Follower[next] /\ phase' = "start"
  /\ seek' = (seek /\ next \notin {"color", "enhancement", "rife_base"})
  /\ rate' = CASE next \in {"rife_base", "rife_final"} -> "target"
               [] next = "master" -> MasterRate(project)
               [] OTHER -> rate
  /\ converted' = CASE next \in {"color", "enhancement", "rife_base", "vfx"} -> TRUE
                    [] next = "master" -> converted \/ ColorRuns(project)
                    [] OTHER -> converted
  /\ UNCHANGED <<files, clip, video, consumed, partial, astray, render>>

\* _release_temp_path, and what the worker then believes of its file.
Release ==
  /\ phase = "release"
  /\ files' = files \ {consumed}
  /\ next' = Follower[next] /\ phase' = "start"
  /\ seek' = (seek /\ next \notin {"color", "enhancement", "rife_base"})
  /\ rate' = CASE next \in {"rife_base", "rife_final"} -> "target"
               [] next = "master" -> MasterRate(project)
               [] OTHER -> rate
  /\ converted' = CASE next \in {"color", "enhancement", "rife_base", "vfx"} -> TRUE
                    [] next = "master" -> converted \/ ColorRuns(project)
                    [] OTHER -> converted
  /\ UNCHANGED <<clip, video, consumed, partial, astray, render>>

Encode ==
  /\ Begins("encode")
  /\ partial' = [InHand EXCEPT !.rate = Retimed(InHand, "target"),
                               !.converted = Coloured(InHand),
                               !.long = @ \/ (project.music /\ ~project.effects)]
  /\ consumed' = video /\ phase' = "release"
  /\ UNCHANGED <<next, files, clip, video, belief, astray, render>>

\* _verify_output measures the cadence and the length, not which part of the
\* source was rendered.
Verified == partial.rate = "target" /\ partial.long

End(ending) ==
  /\ next' = ending /\ phase' = "start"
  /\ files' = {}
  /\ UNCHANGED <<clip, video, consumed, belief, partial, astray, render>>

Deliver == At("verify", "start") /\ Verified /\ End("delivered")
Refuse  == At("verify", "start") /\ ~Verified /\ End("failed")

\* Any other stage fails with its media process, or without its input.
Fail ==
  /\ next \in Readers /\ Runs(next)
  /\ next \notin {"rife_base", "rife_final"}
  /\ \/ phase = "start" /\ ~Present
     \/ phase = "start" /\ next = "enhancement" /\ project.ai = "absent"
     \/ phase # "release" /\ "media" \in Faults
  /\ End("failed")

Cancel ==
  /\ next \in Readers /\ Runs(next) /\ phase # "release" /\ "cancel" \in Faults
  /\ End("cancelled")

\* Another render; the cache may have been trimmed meanwhile.
Again ==
  /\ next \in Endings /\ renders < MaxRenders
  /\ \E p \in IF Edits THEN {project, [project EXCEPT !.loop = ~@]} \cap Asked ELSE {project} : Start(p)
  /\ cache' \in {cache, {}}
  /\ renders' = renders + 1

Next ==
  \/ Skip \/ Color \/ Master \/ Transition \/ KeepMaster \/ VfxIntoFile \/ VfxIntoDelivery
  \/ Enhance \/ Hit \/ JoinEnhanced \/ Promote
  \/ KeepEnhanced("promotion") \/ KeepEnhanced("late")
  \/ \E stage \in {"rife_base", "rife_final"} :
       Interpolate(stage) \/ Take(stage) \/ NothingToAdd(stage) \/ FallBackToFfmpeg(stage)
  \/ JoinBase \/ JoinFinal
  \/ Release \/ Encode \/ Deliver \/ Refuse \/ Fail \/ Cancel \/ Again

Spec == Init /\ [][Next]_vars

(***************************************************************************)
(* Properties.                                                             *)
(***************************************************************************)
TypeOK ==
  /\ project \in Asked
  /\ next \in Readers \cup {"verify"} \cup Endings
  /\ phase \in {"start", "chunks", "join", "release"}
  /\ files \subseteq Stages
  /\ clip \in [Stages \cup {"cache"} -> Clips]
  /\ {video, consumed} \subseteq Stages \cup {"source", "cache"}
  /\ seek \in BOOLEAN /\ rate \in {"source", "target"} /\ converted \in BOOLEAN
  /\ cache \subseteq [key: BOOLEAN, clip: Clips]
  /\ partial \in Clips
  /\ astray \subseteq Faults \cup {"rife"}
  /\ renders \in 1..MaxRenders

\* A stage that is about to run still finds the file it was handed: no release
\* has deleted what a later stage reads (storage_engine.py:385: "Once the stage
\* succeeds the worker releases the consumed scratch source").
InputPresent == next \in Readers /\ phase = "start" /\ Runs(next) => Present

\* Except after the two events that make it false: an interpolation that has
\* nothing to add, and a failure of the cache's bookkeeping after the move.
Regular == ~project.few /\ "late" \notin astray
InputPresentIfRegular == Regular => InputPresent

\* What reaches the verification is what was planned: at the target rate, as long
\* as the project, cut to the loop once, its colour converted once or not at all
\* as the plan says, and interpolated at most once.  The verification itself sees
\* only the first two.
PartialAsPlanned ==
  next = "verify" /\ Regular =>
    /\ Verified
    /\ partial.at = Bit(project.loop)
    /\ partial.converted = Bit(ColorRuns(project))
    /\ partial.neural <= 1

\* The part of the source that is rendered is the loop that was asked for,
\* whatever earlier renders have left in the cache.
RightLoop == next = "verify" => partial.at = Bit(project.loop)

\* The neural stages, the transition and the effects are only handed frames whose
\* colour conversion, if the plan has one, has been made exactly once
\* (render_plan.py: "tone-mapped once before SDR-only stages").
SdrStagesSeeSdr ==
  /\ next \in {"enhancement", "rife_base", "transition", "vfx", "rife_final"}
  /\ phase = "start" /\ Runs(next) /\ Present
  => InHand.converted = Bit(ColorRuns(project))

\* The scratch space in use, chunks and frames of a neural stage included.
Held(s) == IF s \in files THEN Size[s] ELSE 0
Live ==
  Held("color") + Held("enhancement") + Held("rife_base") + Held("master") + Held("transition")
  + Held("vfx") + Held("rife_final")
  + CASE phase = "chunks" -> Size[next] + Frames[next]
      [] phase = "join"   -> Size[next]
      [] OTHER            -> 0

\* As long as no fault has changed the course of the render, the scratch in use
\* never exceeds what estimate_storage announces.
ScratchBounded ==
  astray = {} => \E peak \in Peaks(project, Size, Frames) \cup {0} : Live <= peak
===============================================================================
