------------------------- MODULE RenderPipelineProofs -------------------------
(* Theorems about RenderPipeline, for every set of projects, all sizes and   *)
(* any number of renders.                                                    *)
EXTENDS RenderPipeline, TLAPS

USE DEF Stages

(* What a plan promises, as the steps below use it.                          *)
LEMMA PlanFacts ==
    ASSUME NEW p \in Projects
    PROVE  /\ {p.music, p.effects, p.transition, p.loop, p.brief, p.few} \subseteq BOOLEAN
           /\ ColorRuns(p) \in BOOLEAN
           /\ {SourceRate(p), MasterRate(p)} \subseteq {"source", "target"}
           /\ ColorPrepass(p) => ColorRuns(p)
           /\ ColorRuns(p) /\ Attempts(Enhancement(p)) => ColorPrepass(p)
           /\ ColorRuns(p) /\ RifeBase(p) = "run" => ColorPrepass(p)
           /\ ColorRuns(p) /\ Attempts(RifeFinal(p)) /\ ~NeedsMaster(p) => ColorPrepass(p)
           /\ p.loop \/ p.music \/ p.effects \/ p.transition => NeedsMaster(p)
           /\ FusedDelivery(p) => p.effects /\ ~Attempts(RifeFinal(p)) /\ MasterRate(p) = "target"
           /\ RifeBase(p) = "run" => ~Attempts(RifeFinal(p))
<1> USE DEF Projects, Selections
<1>1. /\ {p.music, p.effects, p.transition, p.loop, p.brief, p.few} \subseteq BOOLEAN
      /\ p.loop \/ p.music \/ p.effects \/ p.transition => NeedsMaster(p)
  BY DEF NeedsMaster
<1>2. ColorRuns(p) \in BOOLEAN
  BY DEF ColorRuns, PlannedColor, ColorPipeline
<1>3. {SourceRate(p), MasterRate(p)} \subseteq {"source", "target"}
  BY DEF SourceRate, MasterRate
<1>4. /\ ColorPrepass(p) => ColorRuns(p)
      /\ ColorRuns(p) /\ Attempts(Enhancement(p)) => ColorPrepass(p)
      /\ ColorRuns(p) /\ RifeBase(p) = "run" => ColorPrepass(p)
      /\ ColorRuns(p) /\ Attempts(RifeFinal(p)) /\ ~NeedsMaster(p) => ColorPrepass(p)
  BY DEF ColorPrepass
<1>5. FusedDelivery(p) => p.effects /\ ~Attempts(RifeFinal(p)) /\ MasterRate(p) = "target"
  BY DEF FusedDelivery, MasterRate
<1>6. RifeBase(p) = "run" => ~Attempts(RifeFinal(p))
  BY DEF RifeBase, RifeFinal, VisualRate, NeedsMaster, MasterRate, TargetAbove, Attempts
<1>7. QED BY <1>1, <1>2, <1>3, <1>4, <1>5, <1>6

-----------------------------------------------------------------------------
(* Types.                                                                    *)
LEMMA SourceIsAClip == ASSUME NEW p \in Projects PROVE SourceClip(p) \in Clips
BY PlanFacts DEF SourceClip, NoClip, Clips

(* The absence of a clip is one of the values a clip takes.                  *)
LEMMA NoClipIsAClip == NoClip \in Clips
BY DEF NoClip, Clips

(* A flag counted as a number.                                               *)
LEMMA BitIsNatural == ASSUME NEW b \in BOOLEAN PROVE Bit(b) \in 0 .. 1
BY DEF Bit

(* The shape of the variables that the steps below depend on.                *)
Shape ==
  /\ project \in Asked
  /\ next \in Readers \cup {"verify"} \cup Endings
  /\ phase \in {"start", "chunks", "join", "release"}
  /\ files \subseteq Stages
  /\ clip \in [Stages \cup {"cache"} -> Clips]
  /\ {video, consumed} \subseteq Stages \cup {"source", "cache"}
  /\ seek \in BOOLEAN /\ rate \in {"source", "target"} /\ converted \in BOOLEAN
  /\ cache \subseteq [key: BOOLEAN, clip: Clips]
  /\ partial \in Clips

(* A stage that has begun is one that this project runs.                     *)
Underway == phase # "start" => next \in Readers /\ Runs(next)

(* The readers are the stages and the encoder.                               *)
LEMMA ReadersAre == Readers = Stages \cup {"encode"}
BY DEF Readers, Follower

(* The order in which the stages read each other, one by one.                *)
LEMMA FollowerIs ==
    /\ \A s \in Readers : Follower[s] \in Readers \cup {"verify"}
    /\ Follower["color"] = "enhancement" /\ Follower["enhancement"] = "rife_base"
    /\ Follower["rife_base"] = "master" /\ Follower["master"] = "transition"
    /\ Follower["transition"] = "vfx" /\ Follower["vfx"] = "rife_final"
    /\ Follower["rife_final"] = "encode" /\ Follower["encode"] = "verify"
BY ReadersAre DEF Follower

(* What a stage reads is a clip.                                             *)
LEMMA InHandIsAClip == Shape => InHand \in Clips
BY SourceIsAClip, AskedAreProjects DEF Shape, InHand

(* What a stage changes of a clip leaves a clip.                             *)
LEMMA ClipEdits ==
    \A c \in Clips, n, k, m \in Nat, r \in {"source", "target"}, l \in BOOLEAN :
       /\ [c EXCEPT !.at = n, !.converted = k] \in Clips
       /\ [c EXCEPT !.at = n, !.rate = r, !.converted = k] \in Clips
       /\ [c EXCEPT !.at = n] \in Clips
       /\ [c EXCEPT !.at = n, !.rate = r, !.neural = m] \in Clips
       /\ [c EXCEPT !.rate = r, !.neural = m] \in Clips
       /\ [c EXCEPT !.rate = r, !.converted = k, !.long = l] \in Clips
<1> TAKE c \in Clips, n, k, m \in Nat, r \in {"source", "target"}, l \in BOOLEAN
<1> QED BY DEF Clips

(* The variables have their shape initially.                                 *)
LEMMA ShapeInit == Init => Shape
BY PlanFacts, NoClipIsAClip, AskedAreProjects, ReadersAre DEF Init, Shape

(* A start, whatever it finds in the cache, keeps the shape of the variables.*)
LEMMA ShapeStart == ASSUME NEW p \in Asked, Start(p), cache' \subseteq [key: BOOLEAN, clip: Clips]
                    PROVE  Shape'
BY PlanFacts, NoClipIsAClip, AskedAreProjects, ReadersAre DEF Start, Shape

(* A stage that produces a clip keeps the shape of the variables.            *)
LEMMA Produces ==
    ASSUME Shape, NEW s \in Stages, next = s, NEW c \in Clips, Produce(s, c)
    PROVE  Shape'
BY ReadersAre DEF Shape, Produce, belief, render

(* A stage that only joins its chunks keeps the shape of the variables.      *)
LEMMA Joins ==
    ASSUME Shape, NEW s \in Stages, NEW c \in Clips, Join(s, c)
    PROVE  Shape'
BY ReadersAre DEF Shape, Join, belief, render

(* Every step of a render keeps the shape of the variables.                  *)
LEMMA ShapeStep == Shape /\ Underway /\ Next => Shape'
<1> SUFFICES ASSUME Shape, Underway, Next PROVE Shape'
  OBVIOUS
<1> DEFINE c == InHand
<1>1. /\ c \in Clips /\ c.at \in Nat /\ c.converted \in Nat /\ c.neural \in Nat
      /\ c.rate \in {"source", "target"} /\ c.long \in BOOLEAN
  BY InHandIsAClip DEF Clips
<1>2. /\ project \in Projects /\ MasterRate(project) \in {"source", "target"}
      /\ ColorRuns(project) \in BOOLEAN
      /\ project.music \in BOOLEAN /\ project.effects \in BOOLEAN
  BY PlanFacts, AskedAreProjects DEF Shape
<1>3. /\ c.at + Bit(seek) \in Nat /\ c.converted + 1 \in Nat /\ c.neural + 1 \in Nat
      /\ Coloured(c) \in Nat
      /\ (c.long \/ (project.music /\ ~project.effects)) \in BOOLEAN
  BY <1>1, <1>2 DEF Bit, Coloured, Shape
<1>4. Retimed(c, MasterRate(project)) \in {"source", "target"} /\ Retimed(c, "target") \in {"source", "target"}
  BY <1>1, <1>2 DEF Retimed
<1> HIDE DEF c
<1>5. CASE Color
  <2>1. [c EXCEPT !.at = c.at + Bit(seek), !.converted = c.converted + 1] \in Clips
    BY <1>1, <1>3, ClipEdits, Zenon
  <2>2. QED BY <1>5, <2>1, Produces DEF Color, Begins, At, c
<1>6. CASE Master
  <2>1. [c EXCEPT !.at = c.at + Bit(seek), !.rate = Retimed(c, MasterRate(project)),
                  !.converted = Coloured(c)] \in Clips
    BY <1>1, <1>3, <1>4, ClipEdits, Zenon
  <2>2. QED BY <1>6, <2>1, Produces DEF Master, Begins, At, c
<1>7. CASE Transition
  BY <1>7, <1>1, Produces DEF Transition, Begins, At, c
<1>8. CASE VfxIntoFile
  <2>1. [c EXCEPT !.long = TRUE] \in Clips
    BY <1>1 DEF Clips
  <2>2. QED BY <1>8, <2>1, Produces DEF VfxIntoFile, Begins, At, c
<1>9. CASE VfxIntoDelivery
  <2>1. [c EXCEPT !.long = TRUE] \in Clips
    BY <1>1 DEF Clips
  <2>2. QED BY <1>9, <2>1 DEF VfxIntoDelivery, Shape, belief, render, c
<1>10. CASE JoinEnhanced
  <2>1. [c EXCEPT !.at = c.at + Bit(seek)] \in Clips
    BY <1>1, <1>3, ClipEdits, Zenon
  <2>2. QED BY <1>10, <2>1, Joins DEF JoinEnhanced, c
<1>11. CASE JoinBase
  <2>1. [c EXCEPT !.at = c.at + Bit(seek), !.rate = "target", !.neural = c.neural + 1] \in Clips
    BY <1>1, <1>3, ClipEdits, Zenon
  <2>2. QED BY <1>11, <2>1, Joins DEF JoinBase, c
<1>12. CASE JoinFinal
  <2>1. [c EXCEPT !.rate = "target", !.neural = c.neural + 1] \in Clips
    BY <1>1, <1>3, ClipEdits, Zenon
  <2>2. QED BY <1>12, <2>1, Joins DEF JoinFinal, c
<1>13. CASE Encode
  <2> DEFINE l == c.long \/ (project.music /\ ~project.effects)
  <2>1. l \in BOOLEAN
    BY <1>3
  <2> HIDE DEF l
  <2>2. [c EXCEPT !.rate = Retimed(c, "target"), !.converted = Coloured(c), !.long = l] \in Clips
    BY <1>1, <1>3, <1>4, <2>1, ClipEdits, Zenon
  <2>3. partial' \in Clips
    BY <1>13, <2>2, Zenon DEF Encode, c, l
  <2>4. UNCHANGED <<project, next, files, clip, video, seek, rate, converted, cache>>
        /\ consumed' = video /\ phase' = "release"
    BY <1>13 DEF Encode, belief, render
  <2>5. QED BY <2>3, <2>4, ReadersAre DEF Shape
<1>14. CASE Hit
  BY <1>14 DEF Hit, Shape, belief, render
<1>15. CASE Promote
  BY <1>15 DEF Promote, Shape, belief
<1>16. CASE Release
  <2>1. next \in Readers /\ next' \in Readers \cup {"verify"}
    BY <1>16, FollowerIs DEF Release, Underway
  <2>2. rate' \in {"source", "target"} /\ converted' \in BOOLEAN
    BY <1>16, <1>2 DEF Release, Shape
  <2>3. QED BY <1>16, <2>1, <2>2 DEF Release, Shape, render
<1>17. CASE Again
  BY <1>17, ShapeStart DEF Again, Shape
<1>18. CASE Skip \/ KeepMaster \/ Enhance \/ KeepEnhanced("promotion") \/ KeepEnhanced("late")
            \/ Deliver \/ Refuse \/ Fail \/ Cancel
  <2> USE DEF Shape, belief, render
  <2>1. CASE Skip BY <2>1, ReadersAre DEF Skip, Follower
  <2>2. CASE KeepMaster BY <2>2, ReadersAre DEF KeepMaster, Follower
  <2>3. CASE Enhance BY <2>3 DEF Enhance, Neural
  <2>4. CASE KeepEnhanced("promotion") \/ KeepEnhanced("late") BY <2>4 DEF KeepEnhanced
  <2>5. CASE Deliver \/ Refuse \/ Fail \/ Cancel
    BY <2>5 DEF Deliver, Refuse, Fail, Cancel, End, Endings
  <2>6. QED BY <1>18, <2>1, <2>2, <2>3, <2>4, <2>5
<1>19. ASSUME NEW s \in {"rife_base", "rife_final"},
              Interpolate(s) \/ Take(s) \/ NothingToAdd(s) \/ FallBackToFfmpeg(s)
       PROVE  Shape'
  <2> USE DEF Shape, belief, render
  <2>1. CASE Interpolate(s) BY <2>1 DEF Interpolate, Neural
  <2>2. CASE Take(s)        BY <2>2 DEF Take
  <2>3. CASE NothingToAdd(s) BY <2>3 DEF NothingToAdd
  <2>4. CASE FallBackToFfmpeg(s) BY <2>4, FollowerIs, ReadersAre DEF FallBackToFfmpeg
  <2>5. QED BY <1>19, <2>1, <2>2, <2>3, <2>4
<1>20. QED
  BY <1>5, <1>6, <1>7, <1>8, <1>9, <1>10, <1>11, <1>12, <1>13, <1>14, <1>15, <1>16, <1>17, <1>18,
     <1>19 DEF Next

(* A step of a render comes to work only on a stage that this project runs.  *)
LEMMA UnderwayStep == Shape /\ Underway /\ Next => Underway'
<1> SUFFICES ASSUME Shape, Underway, Next PROVE Underway'
  OBVIOUS
<1>1. CASE phase' = "start"
  BY <1>1 DEF Underway
<1>2. ASSUME phase' # "start", UNCHANGED <<project, next>>, next \in Readers, Runs(next)
      PROVE  Underway'
  BY <1>2 DEF Underway, Runs, Readers, Follower
<1>3. phase' = "start" \/ (UNCHANGED <<project, next>> /\ next \in Readers /\ Runs(next))
  <2> USE ReadersAre DEF At, Begins, belief, render
  <2>1. CASE Color \/ Master \/ Transition \/ VfxIntoFile
    BY <2>1 DEF Color, Master, Transition, VfxIntoFile, Produce
  <2>2. CASE VfxIntoDelivery \/ Encode
    BY <2>2 DEF VfxIntoDelivery, Encode
  <2>3. CASE JoinEnhanced \/ JoinBase \/ JoinFinal
    BY <2>3 DEF JoinEnhanced, JoinBase, JoinFinal, Join, Underway
  <2>4. CASE Enhance \/ Hit \/ Promote \/ KeepEnhanced("promotion") \/ KeepEnhanced("late")
    BY <2>4 DEF Enhance, Neural, Hit, Promote, KeepEnhanced, Underway
  <2>5. CASE Skip \/ KeepMaster \/ Release \/ Deliver \/ Refuse \/ Fail \/ Cancel \/ Again
    BY <2>5 DEF Skip, KeepMaster, Release, Deliver, Refuse, Fail, Cancel, End, Again, Start
  <2>6. ASSUME NEW s \in {"rife_base", "rife_final"},
               Interpolate(s) \/ Take(s) \/ NothingToAdd(s) \/ FallBackToFfmpeg(s)
        PROVE  phase' = "start" \/ (UNCHANGED <<project, next>> /\ next \in Readers /\ Runs(next))
    BY <2>6 DEF Interpolate, Neural, Take, NothingToAdd, FallBackToFfmpeg, Underway
  <2>7. QED
    BY <2>1, <2>2, <2>3, <2>4, <2>5, <2>6 DEF Next
<1>4. QED BY <1>1, <1>2, <1>3

(* Initially no stage is at work.                                            *)
LEMMA UnderwayInit == Init => Underway
BY DEF Init, Underway

(* The settings change only from one render to the next.                     *)
LEMMA OneProject == Next => Again \/ UNCHANGED <<project, renders>>
<1> SUFFICES ASSUME Next, ~Again PROVE UNCHANGED <<project, renders>>
  OBVIOUS
<1> USE DEF render
<1>1. CASE Color \/ Master \/ Transition \/ VfxIntoFile
  BY <1>1 DEF Color, Master, Transition, VfxIntoFile, Produce
<1>2. CASE VfxIntoDelivery \/ Encode
  BY <1>2 DEF VfxIntoDelivery, Encode
<1>3. CASE JoinEnhanced \/ JoinBase \/ JoinFinal
  BY <1>3 DEF JoinEnhanced, JoinBase, JoinFinal, Join
<1>4. CASE Enhance \/ Hit \/ Promote \/ KeepEnhanced("promotion") \/ KeepEnhanced("late")
  BY <1>4 DEF Enhance, Neural, Hit, Promote, KeepEnhanced
<1>5. CASE Skip \/ KeepMaster \/ Release \/ Deliver \/ Refuse \/ Fail \/ Cancel
  BY <1>5 DEF Skip, KeepMaster, Release, Deliver, Refuse, Fail, Cancel, End
<1>6. ASSUME NEW s \in {"rife_base", "rife_final"},
             Interpolate(s) \/ Take(s) \/ NothingToAdd(s) \/ FallBackToFfmpeg(s)
      PROVE  UNCHANGED <<project, renders>>
  BY <1>6 DEF Interpolate, Neural, Take, NothingToAdd, FallBackToFfmpeg
<1>7. QED
  BY <1>1, <1>2, <1>3, <1>4, <1>5, <1>6 DEF Next

(* Type correctness, from any number of renders on.                          *)
THEOREM PipelineTyping ==
    ASSUME MaxRenders \in Nat \ {0}
    PROVE  Spec => []TypeOK
<1> DEFINE Inv == Shape /\ Underway /\ astray \subseteq Faults \cup {"rife"} /\ renders \in 1..MaxRenders
<1>1. Init => Inv
  BY ShapeInit, UnderwayInit DEF Init
<1>2. Inv /\ [Next]_vars => Inv'
  <2> SUFFICES ASSUME Inv, [Next]_vars PROVE Inv'
    OBVIOUS
  <2>1. CASE Next
    <3>1. Shape' /\ Underway'
      BY <2>1, ShapeStep, UnderwayStep
    <3>2. astray' \subseteq Faults \cup {"rife"}
      <4>1. CASE Again
        BY <4>1 DEF Again, Start
      <4>2. CASE KeepEnhanced("promotion") \/ KeepEnhanced("late")
        BY <4>2 DEF KeepEnhanced
      <4>3. ASSUME NEW s \in {"rife_base", "rife_final"}, FallBackToFfmpeg(s)
            PROVE  astray' \subseteq Faults \cup {"rife"}
        BY <4>3 DEF FallBackToFfmpeg
      <4>4. CASE UNCHANGED astray
        BY <4>4
      <4>5. QED
        BY <2>1, <4>1, <4>2, <4>3, <4>4
           DEF Next, Color, Master, Transition, VfxIntoFile, Produce, VfxIntoDelivery, Encode,
               JoinEnhanced, JoinBase, JoinFinal, Join, Enhance, Neural, Hit, Promote, Skip,
               KeepMaster, Release, Deliver, Refuse, Fail, Cancel, End, Interpolate, Take,
               NothingToAdd
    <3>3. renders' \in 1..MaxRenders
      <4>1. CASE Again
        BY <4>1 DEF Again
      <4>2. CASE UNCHANGED <<project, renders>>
        BY <4>2
      <4>3. QED BY <2>1, <4>1, <4>2, OneProject
    <3>4. QED BY <3>1, <3>2, <3>3
  <2>2. CASE UNCHANGED vars
    BY <2>2 DEF vars, Shape, Underway, Runs, Readers, Follower
  <2>3. QED BY <2>1, <2>2
<1>3. Inv => TypeOK
  BY DEF Shape, TypeOK
<1>4. QED
  BY <1>1, <1>2, <1>3, PTL DEF Spec

-----------------------------------------------------------------------------
(* The file in hand was written by an earlier stage.                         *)
Rank == [source |-> 0, color |-> 1, enhancement |-> 2, cache |-> 2, rife_base |-> 3, master |-> 4,
         transition |-> 5, vfx |-> 6, rife_final |-> 7, encode |-> 8]

Forward ==
  /\ next \in Readers /\ phase # "release" => Rank[video] < Rank[next]
  /\ phase = "release" => Rank[video] <= Rank[next]
  /\ phase = "join" => next \in files

(* Effects that go into the delivery leave nothing to the stages after them. *)
Fused == project.effects /\ FusedDelivery(project)

(* It is there when a stage starts, and while the file before it is released.*)
Handed ==
  Regular =>
    /\ next \in Readers /\ phase # "release" =>
         Present \/ (Fused /\ next \in {"rife_final", "encode"})
    /\ phase = "release" =>
         \/ video \in {"source", "cache"} \cup (files \ {consumed})
         \/ Fused /\ next = "vfx"
         \/ next = "encode"

HandedInv == Shape /\ Underway /\ Forward /\ Handed

(* A stage's rank is one less than its follower's.                           *)
LEMMA RankFacts ==
    /\ \A s \in Readers : Follower[s] # "verify" => Rank[Follower[s]] = Rank[s] + 1
    /\ \A s \in Stages \cup {"source", "cache", "encode"} : Rank[s] \in Nat
BY ReadersAre DEF Follower, Rank

(* Every step keeps the clip in hand the output of an earlier stage, on disk *)
(* and not consumed.                                                         *)
LEMMA HandedStep == HandedInv /\ Next => HandedInv'
<1> SUFFICES ASSUME HandedInv, Next PROVE HandedInv'
  OBVIOUS
<1>1. Shape' /\ Underway'
  BY ShapeStep, UnderwayStep DEF HandedInv
<1>2. Forward' /\ Handed'
  <2> USE ReadersAre, RankFacts
      DEF HandedInv, Forward, Handed, Present, Regular, Fused, At, Begins, belief, render
  <2>1. ASSUME NEW s \in Stages, Begins(s), files' = files \cup {s}, video' = s,
               consumed' = video, phase' = "release", UNCHANGED <<next, project, astray>>
        PROVE  Forward' /\ Handed'
    <3>1. Rank[video] < Rank[s] /\ Rank[s] \in Nat /\ video # s
      BY <2>1 DEF Shape
    <3>2. QED BY <2>1, <3>1 DEF Shape
  <2>2. CASE Color \/ Master \/ Transition \/ VfxIntoFile
    <3>1. CASE Color       BY <2>1, <3>1 DEF Color, Produce
    <3>2. CASE Master      BY <2>1, <3>2 DEF Master, Produce
    <3>3. CASE Transition  BY <2>1, <3>3 DEF Transition, Produce
    <3>4. CASE VfxIntoFile BY <2>1, <3>4 DEF VfxIntoFile, Produce
    <3>5. QED BY <2>2, <3>1, <3>2, <3>3, <3>4
  <2>3. CASE VfxIntoDelivery \/ Encode
    BY <2>3 DEF VfxIntoDelivery, Encode, Shape, Runs
  <2>4. CASE JoinEnhanced \/ JoinBase \/ JoinFinal
    BY <2>4 DEF JoinEnhanced, JoinBase, JoinFinal, Join, Shape
  <2>5. CASE Enhance
    BY <2>5 DEF Enhance, Neural, Shape
  <2>6. CASE Hit
    BY <2>6 DEF Hit, Shape, Rank
  <2>7. CASE Promote
    BY <2>7 DEF Promote, Shape, Rank
  <2>8. CASE KeepEnhanced("promotion") \/ KeepEnhanced("late")
    BY <2>8 DEF KeepEnhanced, Shape
  <2>9. CASE Skip
    BY <2>9, FollowerIs DEF Skip, Shape
  <2>10. CASE KeepMaster
    BY <2>10, FollowerIs DEF KeepMaster, Shape
  <2>11. CASE Release
    BY <2>11, FollowerIs DEF Release, Shape, Underway
  <2>12. CASE Deliver \/ Refuse \/ Fail \/ Cancel
    BY <2>12 DEF Deliver, Refuse, Fail, Cancel, End, Endings
  <2>13. CASE Again
    BY <2>13 DEF Again, Start, Shape, Rank
  <2>14. ASSUME NEW s \in {"rife_base", "rife_final"}, Interpolate(s) \/ Take(s) \/ NothingToAdd(s)
         PROVE  Forward' /\ Handed'
    BY <2>14 DEF Interpolate, Neural, Take, NothingToAdd, Shape
  <2>15. ASSUME NEW s \in {"rife_base", "rife_final"}, FallBackToFfmpeg(s)
         PROVE  Forward' /\ Handed'
    BY <2>15, FollowerIs DEF FallBackToFfmpeg, Shape
  <2>16. QED
    BY <2>2, <2>3, <2>4, <2>5, <2>6, <2>7, <2>8, <2>9, <2>10, <2>11, <2>12, <2>13, <2>14, <2>15
       DEF Next
<1>3. QED BY <1>1, <1>2 DEF HandedInv

(* Initially the clip in hand is the source.                                 *)
LEMMA HandedInit == Init => HandedInv
BY ShapeInit, UnderwayInit DEF Init, HandedInv, Forward, Handed, Present, Rank

(* No release deletes what a later stage reads, unless the interpolation has *)
(* nothing to add or the cache's bookkeeping fails after the move.           *)
THEOREM InputPresentIfRegularHolds == Spec => []InputPresentIfRegular
<1>1. HandedInv /\ [Next]_vars => HandedInv'
  <2>1. CASE UNCHANGED vars
    BY <2>1 DEF vars, HandedInv, Shape, Underway, Runs, Readers, Follower, Forward, Handed,
                Regular, Present, Fused
  <2>2. QED BY <2>1, HandedStep
<1>2. HandedInv => InputPresentIfRegular
  <2> SUFFICES ASSUME HandedInv, Regular, next \in Readers, phase = "start", Runs(next)
               PROVE  Present
    BY DEF InputPresentIfRegular, InputPresent
  <2>1. ~(Fused /\ next \in {"rife_final", "encode"})
    <3>1. FusedDelivery(project) => ~Attempts(RifeFinal(project))
      BY PlanFacts, AskedAreProjects DEF HandedInv, Shape
    <3>2. QED BY <3>1 DEF Runs, Fused
  <2>2. QED BY <2>1 DEF HandedInv, Handed
<1>3. QED
  BY HandedInit, <1>1, <1>2, PTL DEF Spec

-----------------------------------------------------------------------------
(* What the worker believes of the clip c in its hand when stage s is about  *)
(* to run (start sk, cadence rt, colour cv), and what is true of that clip.  *)
Early == {"color", "enhancement", "rife_base"}
Late  == {"transition", "vfx", "rife_final", "encode"}

OnCourse(s, c, sk, rt, cv) ==
  /\ c.converted = IF cv THEN Bit(ColorRuns(project)) ELSE 0
  /\ IF s = "color" THEN ~cv ELSE ColorPrepass(project) => cv
  /\ s \in Late /\ NeedsMaster(project) => cv \/ ~ColorRuns(project)
  /\ s \in Early => rt = SourceRate(project) /\ c.rate = rt /\ c.neural = 0
  /\ s \in {"transition", "vfx"} /\ NeedsMaster(project) => rt = MasterRate(project)
  /\ s \in {"master", "transition", "vfx", "rife_final"} =>
       c.neural <= Bit(RifeBase(project) = "run")
  /\ s = "encode" => c.neural <= 1
  /\ c.long \/ project.music
  /\ s \in {"rife_final", "encode"} /\ project.effects /\ ~Fused => c.long
  /\ ~project.few => c.rate = rt
  /\ ~Edits /\ (s \in Early \/ ~project.few) =>
       c.at + (IF s \in Early \cup {"master"} THEN Bit(sk) ELSE 0) = Bit(project.loop)

(* What it will believe once the file it has consumed is released.           *)
SeekAfter == seek /\ next \notin Early
RateAfter == CASE next \in {"rife_base", "rife_final"} -> "target"
               [] next = "master" -> MasterRate(project)
               [] OTHER -> rate
ConvertedAfter == CASE next \in {"color", "enhancement", "rife_base", "vfx"} -> TRUE
                    [] next = "master" -> converted \/ ColorRuns(project)
                    [] OTHER -> converted
AfterRelease(c) == OnCourse(Follower[next], c, SeekAfter, RateAfter, ConvertedAfter)

Course ==
  /\ next \in Readers /\ phase # "release" => OnCourse(next, InHand, seek, rate, converted)
  /\ phase = "join" => AfterRelease(clip[next])
  /\ phase = "release" /\ next # "encode" => AfterRelease(InHand)

(* A cached clip is a clip of this project, and cut at its loop as long as   *)
(* the loop is not switched between two renders.                             *)
Cached ==
  \A e \in cache :
     /\ e.clip.rate = SourceRate(project)
     /\ e.clip.converted = Bit(ColorRuns(project))
     /\ e.clip.long \/ project.music
     /\ e.clip.neural = 0
     /\ ~Edits => e.clip.at = Bit(project.loop)

PartialGood ==
  ~project.few =>
    /\ Verified
    /\ ~Edits => partial.at = Bit(project.loop)
    /\ partial.converted = Bit(ColorRuns(project))
    /\ partial.neural <= 1

Delivery ==
  /\ next = "verify" => PartialGood
  /\ phase = "release" /\ (next = "encode" \/ (Fused /\ next = "vfx")) => PartialGood
  /\ Fused /\ next \in {"rife_final", "encode"} => PartialGood

CourseInv == HandedInv /\ Course /\ Cached /\ Delivery

(* The facts about the state that the steps share.                           *)
LEMMA StateFacts ==
    ASSUME Shape
    PROVE  /\ project \in Projects
           /\ {project.music, project.effects, project.loop, project.few, ColorRuns(project)} \subseteq BOOLEAN
           /\ InHand \in Clips
           /\ \A c \in Clips : /\ c.at \in Nat /\ c.converted \in Nat /\ c.neural \in Nat
                                /\ c.rate \in {"source", "target"} /\ c.long \in BOOLEAN
BY PlanFacts, AskedAreProjects, InHandIsAClip DEF Shape, Clips

(* A stage that is skipped, or hands its input on as it is.                  *)
LEMMA PassOn ==
    ASSUME Shape, next \in Readers, next # "encode", NEW c \in Clips,
           OnCourse(next, c, seek, rate, converted),
           ~Runs(next) \/ next \in {"transition", "rife_base", "rife_final"}
    PROVE  OnCourse(Follower[next], c, seek, rate, converted)
<1> USE PlanFacts, StateFacts, FollowerIs DEF OnCourse, Early, Late, Runs, Fused, Bit, Shape
<1>1. CASE next = "color" BY <1>1
<1>2. CASE next = "enhancement" BY <1>2
<1>3. CASE next = "rife_base" BY <1>3
<1>4. CASE next = "master" BY <1>4
<1>5. CASE next = "transition" BY <1>5
<1>6. CASE next = "vfx" BY <1>6
<1>7. CASE next = "rife_final" BY <1>7
<1>8. QED BY ONLY ReadersAre, next \in Readers, next # "encode", <1>1, <1>2, <1>3, <1>4, <1>5, <1>6, <1>7 DEF Stages

(* A stage that writes a clip d from c.                                      *)
LEMMA ColorCourse ==
    ASSUME Shape, next = "color", Runs(next), NEW c \in Clips, NEW d \in Clips,
           OnCourse(next, c, seek, rate, converted),
           d.at = c.at + Bit(seek), d.converted = c.converted + 1,
           d.rate = c.rate, d.neural = c.neural, d.long = c.long
    PROVE  AfterRelease(d)
BY PlanFacts, StateFacts, FollowerIs
   DEF OnCourse, AfterRelease, SeekAfter, RateAfter, ConvertedAfter, Early, Late, Runs, Fused, Bit, Shape

(* The clip of the enhancement is on the course of the next stage: its start *)
(* cut once, the rest unchanged.                                             *)
LEMMA EnhancedCourse ==
    ASSUME Shape, next = "enhancement", Runs(next), NEW c \in Clips, NEW d \in Clips,
           OnCourse(next, c, seek, rate, converted),
           d.at = c.at + Bit(seek), d.converted = c.converted,
           d.rate = c.rate, d.neural = c.neural, d.long = c.long
    PROVE  AfterRelease(d)
BY PlanFacts, StateFacts, FollowerIs
   DEF OnCourse, AfterRelease, SeekAfter, RateAfter, ConvertedAfter, Early, Late, Runs, Fused, Bit, Shape

(* So is the clip RIFE interpolates before the master: at the target rate    *)
(* after one neural pass.                                                    *)
LEMMA BaseCourse ==
    ASSUME Shape, next = "rife_base", Runs(next), NEW c \in Clips, NEW d \in Clips,
           OnCourse(next, c, seek, rate, converted),
           d.at = c.at + Bit(seek), d.converted = c.converted,
           d.rate = "target", d.neural = c.neural + 1, d.long = c.long
    PROVE  AfterRelease(d)
BY PlanFacts, StateFacts, FollowerIs
   DEF OnCourse, AfterRelease, SeekAfter, RateAfter, ConvertedAfter, Early, Late, Runs, Fused, Bit, Shape

(* So is the clip it interpolates last.                                      *)
LEMMA FinalCourse ==
    ASSUME Shape, next = "rife_final", Runs(next), NEW c \in Clips, NEW d \in Clips,
           OnCourse(next, c, seek, rate, converted),
           d.at = c.at, d.converted = c.converted,
           d.rate = "target", d.neural = c.neural + 1, d.long = c.long
    PROVE  AfterRelease(d)
BY PlanFacts, StateFacts, FollowerIs
   DEF OnCourse, AfterRelease, SeekAfter, RateAfter, ConvertedAfter, Early, Late, Runs, Fused, Bit, Shape

(* So is the master: its colour converted once, at the rate the plan gives it.*)
LEMMA MasterCourse ==
    ASSUME Shape, next = "master", Runs(next), NEW c \in Clips, NEW d \in Clips,
           OnCourse(next, c, seek, rate, converted),
           d.at = c.at + Bit(seek), d.converted = c.converted + Bit(ColorRuns(project) /\ ~converted),
           d.rate = Retimed(c, MasterRate(project)), d.neural = c.neural, d.long = c.long
    PROVE  AfterRelease(d)
BY PlanFacts, StateFacts, FollowerIs
   DEF OnCourse, AfterRelease, SeekAfter, RateAfter, ConvertedAfter, Early, Late, Runs, Fused, Bit, Shape,
       Retimed

(* So is a clip after its transition, which changes nothing the course speaks of.*)
LEMMA TransitionCourse ==
    ASSUME Shape, next = "transition", NEW c \in Clips, OnCourse(next, c, seek, rate, converted)
    PROVE  AfterRelease(c)
BY PlanFacts, StateFacts, FollowerIs
   DEF OnCourse, AfterRelease, SeekAfter, RateAfter, ConvertedAfter, Early, Late, Fused, Bit, Shape

(* So is a clip with its effects, which are written into the delivery or     *)
(* lengthen the clip.                                                        *)
LEMMA VfxCourse ==
    ASSUME Shape, next = "vfx", Runs(next), NEW c \in Clips, NEW d \in Clips,
           OnCourse(next, c, seek, rate, converted),
           d.at = c.at, d.converted = c.converted, d.rate = c.rate, d.neural = c.neural,
           (Fused /\ d.long = c.long) \/ d.long
    PROVE  AfterRelease(d)
BY PlanFacts, StateFacts, FollowerIs
   DEF OnCourse, AfterRelease, SeekAfter, RateAfter, ConvertedAfter, Early, Late, Runs, Fused, Bit, Shape

(* A stage has written d, or keeps what it has, and its file is in hand.     *)
LEMMA WrittenCourse ==
    ASSUME UNCHANGED <<project, next, seek, rate, converted>>, phase' = "release",
           NEW d, InHand' = d, AfterRelease(d) \/ next = "encode"
    PROVE  Course'
BY DEF Course, AfterRelease, SeekAfter, RateAfter, ConvertedAfter, OnCourse, Fused

(* The chunks of d are joined beside the file in hand.                       *)
LEMMA JoinedCourse ==
    ASSUME UNCHANGED <<project, next, seek, rate, converted>>, phase' = "join",
           NEW c, NEW d, InHand' = c, OnCourse(next, c, seek, rate, converted),
           clip'[next] = d, AfterRelease(d)
    PROVE  Course'
BY DEF Course, AfterRelease, SeekAfter, RateAfter, ConvertedAfter, OnCourse, Fused

(* The next stage, or the chunks of this one, begin with the file in hand.   *)
LEMMA BegunCourse ==
    ASSUME UNCHANGED project, phase' \in {"start", "chunks"}, NEW c, InHand' = c,
           next' \in Readers => OnCourse(next', c, seek', rate', converted')
    PROVE  Course'
BY DEF Course, OnCourse, Fused

(* A stage that produces a clip its follower can take leaves the render on   *)
(* course.                                                                   *)
LEMMA ProducedCourse ==
    ASSUME NEW s \in Stages, next = s, NEW d \in Clips, Produce(s, d), Shape,
           AfterRelease(d)
    PROVE  Course'
<1>1. InHand' = d
  BY DEF Produce, Shape, InHand
<1>2. QED BY <1>1, WrittenCourse DEF Produce, belief, render

(* What the steps that write a clip leave in its fields.                     *)
LEMMA EnhancedFields ==
    ASSUME NEW c \in Clips, NEW n \in Nat, NEW d, d = [c EXCEPT !.at = n]
    PROVE  /\ d \in Clips /\ d.at = n /\ d.rate = c.rate /\ d.converted = c.converted
           /\ d.neural = c.neural /\ d.long = c.long
BY DEF Clips

(* The effects change only a clip's length.                                  *)
LEMMA VfxFields ==
    ASSUME NEW c \in Clips, NEW d, d = [c EXCEPT !.long = TRUE]
    PROVE  /\ d \in Clips /\ d.at = c.at /\ d.rate = c.rate /\ d.converted = c.converted
           /\ d.neural = c.neural /\ d.long = TRUE
BY DEF Clips

(* A clip of the cache is used, an interpolation has nothing to add, a render *)
(* begins.                                                                   *)
LEMMA HitCourse ==
    ASSUME Shape, next = "enhancement", rate = SourceRate(project), NEW c \in Clips,
           c.rate = SourceRate(project), c.converted = Bit(ColorRuns(project)),
           c.long \/ project.music, c.neural = 0, ~Edits => c.at = Bit(project.loop)
    PROVE  AfterRelease(c)
BY PlanFacts, StateFacts, FollowerIs
   DEF OnCourse, AfterRelease, SeekAfter, RateAfter, ConvertedAfter, Early, Late, Fused, Bit, Shape

(* A clip of too few frames to interpolate is handed on as it is, and is on  *)
(* the course.                                                               *)
LEMMA FewCourse ==
    ASSUME Shape, next \in {"rife_base", "rife_final"}, Runs(next), project.few, NEW c \in Clips,
           OnCourse(next, c, seek, rate, converted)
    PROVE  AfterRelease(c)
<1> USE PlanFacts, StateFacts, FollowerIs
    DEF OnCourse, AfterRelease, SeekAfter, RateAfter, ConvertedAfter, Early, Late, Runs, Fused, Bit, Shape
<1>1. CASE next = "rife_base" BY <1>1
<1>2. CASE next = "rife_final" BY <1>2
<1>3. QED BY <1>1, <1>2

Anew ==
  /\ project \in Projects /\ next = "color" /\ phase = "start" /\ video = "source"
  /\ seek = project.loop /\ rate = SourceRate(project) /\ converted = FALSE

(* A render that starts from the source is on course.                        *)
LEMMA AnewCourse == Anew => Course
<1> SUFFICES ASSUME Anew PROVE OnCourse("color", SourceClip(project), seek, rate, converted)
  BY DEF Course, InHand, Anew
<1> DEFINE c == SourceClip(project)
<1>1. c.at = 0 /\ c.rate = SourceRate(project) /\ c.converted = 0 /\ c.neural = 0
      /\ (c.long \/ project.music)
  BY PlanFacts DEF SourceClip, NoClip, Anew
<1> HIDE DEF c
<1>2. OnCourse("color", c, seek, rate, converted)
  BY <1>1, PlanFacts DEF Anew, OnCourse, Early, Late, Bit
<1>3. QED BY <1>2 DEF c

(* Every step leaves the render on course.                                   *)
LEMMA CourseStep == CourseInv /\ Next => Course'
<1> SUFFICES ASSUME CourseInv, Next PROVE Course'
  OBVIOUS
<1> DEFINE c == InHand
<1> USE DEF CourseInv, HandedInv
<1>1. /\ c \in Clips /\ c.at \in Nat /\ c.converted \in Nat /\ c.neural \in Nat
      /\ c.rate \in {"source", "target"} /\ c.long \in BOOLEAN
      /\ project \in Projects /\ ColorRuns(project) \in BOOLEAN
      /\ {MasterRate(project)} \subseteq {"source", "target"}
  BY StateFacts, PlanFacts
<1>0. c \in Clips
  BY <1>1
<1>2. /\ c.at + Bit(seek) \in Nat /\ c.converted + 1 \in Nat /\ c.neural + 1 \in Nat
      /\ Coloured(c) \in Nat /\ Retimed(c, MasterRate(project)) \in {"source", "target"}
  BY <1>1 DEF Bit, Coloured, Shape, Retimed
<1>3. next \in Readers /\ phase # "release" => OnCourse(next, c, seek, rate, converted)
  BY DEF Course
<1>4. ASSUME UNCHANGED <<project, clip, video>> PROVE InHand' = c
  BY <1>4 DEF InHand
<1> HIDE DEF c
<1>5. CASE Color
  <2> DEFINE n == c.at + Bit(seek)
             k == c.converted + 1
             d == [c EXCEPT !.at = n, !.converted = k]
  <2>1. n \in Nat /\ k \in Nat
    BY <1>2
  <2>2. Produce("color", d) /\ next = "color" /\ phase = "start" /\ Runs(next)
    BY <1>5, Zenon DEF Color, Begins, At, c
  <2>3. n = c.at + Bit(seek) /\ k = c.converted + 1
    OBVIOUS
  <2> HIDE DEF n, k
  <2>10. d = [c EXCEPT !.at = n, !.converted = k]
    OBVIOUS
  <2> HIDE DEF d
  <2>4. d \in Clips /\ d.at = n /\ d.rate = c.rate /\ d.converted = k
        /\ d.neural = c.neural /\ d.long = c.long
    BY ONLY <1>0, <2>1, <2>10 DEF Clips
  <2>5. AfterRelease(d)
    BY <1>1, <1>3, <2>2, <2>3, <2>4, ReadersAre, ColorCourse
  <2>6. QED BY <2>2, <2>4, <2>5, ProducedCourse
<1>6. CASE Master
  <2> DEFINE n == c.at + Bit(seek)
             r == Retimed(c, MasterRate(project))
             k == Coloured(c)
             d == [c EXCEPT !.at = n, !.rate = r, !.converted = k]
  <2>1. n \in Nat /\ r \in {"source", "target"} /\ k \in Nat
    BY <1>2
  <2>2. Produce("master", d) /\ next = "master" /\ phase = "start" /\ Runs(next)
    BY <1>6, Zenon DEF Master, Begins, At, c
  <2>3. n = c.at + Bit(seek) /\ r = Retimed(c, MasterRate(project)) /\ k = Coloured(c)
    OBVIOUS
  <2> HIDE DEF n, r, k
  <2>10. d = [c EXCEPT !.at = n, !.rate = r, !.converted = k]
    OBVIOUS
  <2> HIDE DEF d
  <2>4. d \in Clips /\ d.at = n /\ d.rate = r /\ d.converted = k
        /\ d.neural = c.neural /\ d.long = c.long
    BY ONLY <1>0, <2>1, <2>10 DEF Clips
  <2>5. AfterRelease(d)
    BY <1>1, <1>3, <2>2, <2>3, <2>4, ReadersAre, MasterCourse DEF Coloured
  <2>6. QED BY <2>2, <2>4, <2>5, ProducedCourse
<1>7. CASE Transition
  <2>1. Produce("transition", c) /\ next = "transition" /\ phase = "start"
    BY <1>7 DEF Transition, Begins, At, c
  <2>2. AfterRelease(c)
    BY <1>1, <1>3, <2>1, ReadersAre, TransitionCourse
  <2>3. QED BY <1>1, <2>1, <2>2, ProducedCourse
<1>8. CASE VfxIntoFile
  <2> DEFINE d == [c EXCEPT !.long = TRUE]
  <2>1. d \in Clips /\ d.at = c.at /\ d.rate = c.rate /\ d.converted = c.converted
        /\ d.neural = c.neural /\ d.long
    BY <1>1, VfxFields, Zenon
  <2>2. Produce("vfx", d) /\ next = "vfx" /\ phase = "start" /\ Runs(next)
    BY <1>8, Zenon DEF VfxIntoFile, Begins, At, c
  <2> HIDE DEF d
  <2>3. AfterRelease(d)
    BY <1>1, <1>3, <2>1, <2>2, ReadersAre, VfxCourse
  <2>4. QED BY <2>1, <2>2, <2>3, ProducedCourse
<1>9. CASE VfxIntoDelivery
  <2>1. next = "vfx" /\ phase = "start" /\ Runs(next) /\ Fused
    BY <1>9 DEF VfxIntoDelivery, Begins, At, Runs, Fused
  <2>2. AfterRelease(c)
    BY <1>1, <1>3, <2>1, ReadersAre, VfxCourse
  <2>3. QED BY <1>4, <1>9, <2>2, WrittenCourse DEF VfxIntoDelivery, belief, render
<1>10. CASE Encode
  BY <1>4, <1>10, WrittenCourse DEF Encode, Begins, At, belief, render
<1>11. CASE JoinEnhanced
  <2> DEFINE n == c.at + Bit(seek)
             d == [c EXCEPT !.at = n]
  <2>1. n \in Nat
    BY <1>2
  <2>2. Join("enhancement", d)
    BY <1>11, Zenon DEF JoinEnhanced, c
  <2>3. n = c.at + Bit(seek)
    OBVIOUS
  <2> HIDE DEF n
  <2>10. d = [c EXCEPT !.at = n]
    OBVIOUS
  <2> HIDE DEF d
  <2>4. d \in Clips /\ d.at = n /\ d.rate = c.rate /\ d.converted = c.converted
        /\ d.neural = c.neural /\ d.long = c.long
    BY ONLY <1>0, <2>1, <2>10, EnhancedFields
  <2>5. next = "enhancement" /\ phase = "chunks" /\ Runs(next)
    BY <2>2 DEF Join, At, Underway
  <2>6. AfterRelease(d)
    BY <1>1, <1>3, <2>3, <2>4, <2>5, ReadersAre, EnhancedCourse
  <2>7. InHand' = c /\ clip'[next] = d
    BY <2>2, <2>5, ReadersAre, RankFacts DEF Join, Forward, InHand, Shape, c, render
  <2>8. QED
    BY <1>3, <2>2, <2>5, <2>6, <2>7, ReadersAre, JoinedCourse DEF Join, belief, render
<1>12. CASE JoinBase
  <2> DEFINE n == c.at + Bit(seek)
             m == c.neural + 1
             d == [c EXCEPT !.at = n, !.rate = "target", !.neural = m]
  <2>1. n \in Nat /\ m \in Nat
    BY <1>2
  <2>2. Join("rife_base", d)
    BY <1>12, Zenon DEF JoinBase, c
  <2>3. n = c.at + Bit(seek) /\ m = c.neural + 1
    OBVIOUS
  <2> HIDE DEF n, m
  <2>10. d = [c EXCEPT !.at = n, !.rate = "target", !.neural = m]
    OBVIOUS
  <2> HIDE DEF d
  <2>4. d \in Clips /\ d.at = n /\ d.rate = "target" /\ d.converted = c.converted
        /\ d.neural = m /\ d.long = c.long
    BY ONLY <1>0, <2>1, <2>10 DEF Clips
  <2>5. next = "rife_base" /\ phase = "chunks" /\ Runs(next)
    BY <2>2 DEF Join, At, Underway
  <2>6. AfterRelease(d)
    BY <1>1, <1>3, <2>3, <2>4, <2>5, ReadersAre, BaseCourse
  <2>7. InHand' = c /\ clip'[next] = d
    BY <2>2, <2>5, ReadersAre, RankFacts DEF Join, Forward, InHand, Shape, c, render
  <2>8. QED
    BY <1>3, <2>2, <2>5, <2>6, <2>7, ReadersAre, JoinedCourse DEF Join, belief, render
<1>13. CASE JoinFinal
  <2> DEFINE m == c.neural + 1
             d == [c EXCEPT !.rate = "target", !.neural = m]
  <2>1. m \in Nat
    BY <1>2
  <2>2. Join("rife_final", d)
    BY <1>13, Zenon DEF JoinFinal, c
  <2>3. m = c.neural + 1
    OBVIOUS
  <2> HIDE DEF m
  <2>10. d = [c EXCEPT !.rate = "target", !.neural = m]
    OBVIOUS
  <2> HIDE DEF d
  <2>4. d \in Clips /\ d.at = c.at /\ d.rate = "target" /\ d.converted = c.converted
        /\ d.neural = m /\ d.long = c.long
    BY ONLY <1>0, <2>1, <2>10 DEF Clips
  <2>5. next = "rife_final" /\ phase = "chunks" /\ Runs(next)
    BY <2>2 DEF Join, At, Underway
  <2>6. AfterRelease(d)
    BY <1>1, <1>3, <2>3, <2>4, <2>5, ReadersAre, FinalCourse
  <2>7. InHand' = c /\ clip'[next] = d
    BY <2>2, <2>5, ReadersAre, RankFacts DEF Join, Forward, InHand, Shape, c, render
  <2>8. QED
    BY <1>3, <2>2, <2>5, <2>6, <2>7, ReadersAre, JoinedCourse DEF Join, belief, render
<1>14. ASSUME NEW s \in Stages, Neural(s) PROVE Course'
  BY <1>3, <1>4, <1>14, BegunCourse DEF Neural, Begins, At, belief, render
<1>15. CASE Hit
  <2>1. PICK e \in cache : clip' = [clip EXCEPT !["cache"] = e.clip]
    BY <1>15 DEF Hit
  <2>2. next = "enhancement" /\ phase = "start" /\ video' = "cache" /\ e.clip \in Clips
    BY <1>15 DEF Hit, At, Shape
  <2>3. AfterRelease(e.clip)
    BY <1>3, <2>2, ReadersAre, HitCourse DEF Cached, OnCourse, Early
  <2>4. InHand' = e.clip
    BY <2>1, <2>2 DEF InHand, Shape
  <2>5. QED BY <1>15, <2>3, <2>4, WrittenCourse DEF Hit, belief, render
<1>16. CASE Promote \/ KeepEnhanced("promotion") \/ KeepEnhanced("late")
  <2>1. AfterRelease(clip["enhancement"])
    BY <1>16 DEF Promote, KeepEnhanced, At, Course
  <2>2. InHand' = clip["enhancement"]
    BY <1>16 DEF Promote, KeepEnhanced, InHand, Shape
  <2>3. QED BY <1>16, <2>1, <2>2, WrittenCourse DEF Promote, KeepEnhanced, belief, render
<1>17. ASSUME NEW s \in {"rife_base", "rife_final"}, Take(s) PROVE Course'
  <2>1. AfterRelease(clip[s])
    BY <1>17 DEF Take, At, Course
  <2>2. InHand' = clip[s]
    BY <1>17 DEF Take, InHand
  <2>3. QED BY <1>17, <2>1, <2>2, WrittenCourse DEF Take, belief, render
<1>18. ASSUME NEW s \in {"rife_base", "rife_final"}, NothingToAdd(s) PROVE Course'
  <2>1. AfterRelease(c)
    BY <1>1, <1>3, <1>18, ReadersAre, FewCourse DEF NothingToAdd, At
  <2>2. QED BY <1>4, <1>18, <2>1, WrittenCourse DEF NothingToAdd, belief, render
<1>19. ASSUME next \in Readers, phase # "release", next # "encode",
              ~Runs(next) \/ next \in {"transition", "rife_base", "rife_final"},
              next' = Follower[next], phase' = "start", UNCHANGED <<clip, video, project, belief>>
       PROVE  Course'
  <2>1. OnCourse(next', c, seek', rate', converted')
    BY <1>1, <1>3, <1>19, PassOn DEF belief
  <2>2. QED BY <1>4, <1>19, <2>1, BegunCourse
<1>20. ASSUME NEW s \in {"rife_base", "rife_final"}, FallBackToFfmpeg(s) PROVE Course'
  BY <1>19, <1>20, ReadersAre DEF FallBackToFfmpeg, render
<1>21. CASE KeepMaster
  BY <1>19, <1>21, ReadersAre DEF KeepMaster, Begins, At, render
<1>22. ASSUME next' \notin Readers, phase' = "start", UNCHANGED <<clip, video, project>>
       PROVE  Course'
  BY <1>4, <1>22, BegunCourse
<1>23. CASE Skip
  <2>1. CASE next = "encode"
    BY <1>22, <1>23, <2>1, ReadersAre, FollowerIs DEF Skip, render
  <2>2. CASE next # "encode"
    BY <1>19, <1>23, <2>2 DEF Skip, render
  <2>3. QED BY <2>1, <2>2
<1>24. CASE Release
  <2>1. CASE next = "encode"
    BY <1>22, <1>24, <2>1, ReadersAre, FollowerIs DEF Release, render
  <2>2. CASE next # "encode"
    <3>1. AfterRelease(c)
      BY <1>24, <2>2 DEF Release, Course, c
    <3>2. seek' = SeekAfter /\ rate' = RateAfter /\ converted' = ConvertedAfter
      BY <1>24 DEF Release, SeekAfter, RateAfter, ConvertedAfter, Early
    <3>3. OnCourse(next', c, seek', rate', converted')
      BY <1>24, <3>1, <3>2 DEF Release, AfterRelease
    <3>4. QED BY <1>4, <1>24, <3>3, BegunCourse DEF Release, render
  <2>3. QED BY <2>1, <2>2
<1>25. CASE Deliver \/ Refuse \/ Fail \/ Cancel
  BY <1>22, <1>25, ReadersAre DEF Deliver, Refuse, Fail, Cancel, End, Endings, render
<1>26. CASE Again
  <2>1. Anew'
    BY <1>26, AskedAreProjects DEF Again, Start, Anew, Shape
  <2>2. QED BY <2>1, AnewCourse, PTL
<1>27. QED
  BY <1>5, <1>6, <1>7, <1>8, <1>9, <1>10, <1>11, <1>12, <1>13, <1>14, <1>15, <1>16, <1>17, <1>18,
     <1>20, <1>21, <1>23, <1>24, <1>25, <1>26 DEF Next, Enhance, Interpolate

-----------------------------------------------------------------------------
(* The cache: only the loop of a project is edited.                          *)
LEMMA Relooped ==
    ASSUME NEW p \in Projects, NEW q, q = [p EXCEPT !.loop = ~@]
    PROVE  SourceRate(q) = SourceRate(p) /\ ColorRuns(q) = ColorRuns(p) /\ q.music = p.music
<1>1. /\ q.music = p.music /\ q.effects = p.effects /\ q.transition = p.transition /\ q.ai = p.ai
      /\ q.rife = p.rife /\ q.cadence = p.cadence /\ q.colour = p.colour
  BY DEF Projects
<1>2. QED
  BY <1>1 DEF SourceRate, ColorRuns, PlannedColor, ColorPipeline, Raises

(* Every step keeps in the cache only clips at the source's rate, converted  *)
(* as the project asks and untouched by a neural pass.                       *)
LEMMA CachedStep == CourseInv /\ Next => Cached'
<1> SUFFICES ASSUME CourseInv, Next PROVE Cached'
  OBVIOUS
<1>1. CASE UNCHANGED <<project, cache>>
  BY <1>1 DEF CourseInv, Cached
<1>2. CASE Promote
  <2> DEFINE c == clip["enhancement"]
  <2>1. OnCourse("rife_base", c, FALSE, rate, TRUE)
    BY <1>2, FollowerIs
       DEF CourseInv, Course, Promote, At, AfterRelease, SeekAfter, RateAfter, ConvertedAfter, Early
  <2>2. c \in Clips /\ project \in Projects
    BY AskedAreProjects DEF CourseInv, HandedInv, Shape
  <2> HIDE DEF c
  <2>3. /\ c.rate = SourceRate(project) /\ c.converted = Bit(ColorRuns(project))
        /\ c.long \/ project.music
        /\ c.neural = 0
        /\ ~Edits => c.at = Bit(project.loop)
    BY <2>1, <2>2 DEF OnCourse, Early, Bit, Clips
  <2>4. QED
    BY <1>2, <2>3 DEF CourseInv, Cached, Promote, c
<1>3. CASE Again
  <2>1. /\ project \in Projects
        /\ \E p \in IF Edits THEN {project, [project EXCEPT !.loop = ~@]} \cap Asked ELSE {project} : project' = p
        /\ cache' \subseteq cache
    BY <1>3, AskedAreProjects DEF Again, Start, CourseInv, HandedInv, Shape
  <2>2. /\ SourceRate(project') = SourceRate(project) /\ ColorRuns(project') = ColorRuns(project)
        /\ project'.music = project.music
        /\ ~Edits => project' = project
    BY <2>1, Relooped
  <2>3. QED BY <2>1, <2>2 DEF CourseInv, Cached
<1>4. QED
  BY <1>1, <1>2, <1>3
     DEF Next, Skip, Color, Master, Transition, KeepMaster, VfxIntoFile, VfxIntoDelivery, Enhance,
         Interpolate, Neural, Hit, JoinEnhanced, JoinBase, JoinFinal, Join, Produce, KeepEnhanced,
         Take, NothingToAdd, FallBackToFfmpeg, Release, Encode, Deliver, Refuse, Fail, Cancel, End,
         render

(* What is encoded.                                                          *)
LEMMA EncodedGood == CourseInv /\ Encode => PartialGood'
<1> SUFFICES ASSUME CourseInv, Encode PROVE PartialGood'
  OBVIOUS
<1> DEFINE c == InHand
           r == Retimed(c, "target")
           k == Coloured(c)
           l == c.long \/ (project.music /\ ~project.effects)
<1>1. OnCourse("encode", c, seek, rate, converted) /\ ~Fused /\ project' = project
  BY ReadersAre DEF Encode, Begins, At, Runs, CourseInv, Course, Fused, render
<1>2. /\ c \in Clips /\ c.converted \in Nat /\ c.rate \in {"source", "target"} /\ c.long \in BOOLEAN
      /\ ColorRuns(project) \in BOOLEAN /\ {project.music, project.effects} \subseteq BOOLEAN
  BY StateFacts DEF CourseInv, HandedInv
<1>3. partial' = [c EXCEPT !.rate = r, !.converted = k, !.long = l]
  BY Zenon DEF Encode
<1>4. ~project.few => r = "target"
  BY <1>1 DEF OnCourse, Retimed
<1>5. k = Bit(ColorRuns(project))
  BY <1>1, <1>2 DEF OnCourse, Coloured, Bit
<1>6. l = TRUE
  BY <1>1, <1>2 DEF OnCourse
<1>7. ~Edits /\ ~project.few => c.at = Bit(project.loop)
  BY <1>1, <1>2 DEF OnCourse, Early, Bit, Clips
<1>8. c.neural <= 1
  BY <1>1 DEF OnCourse
<1> HIDE DEF c, r, k, l
<1>9. /\ partial'.rate = r /\ partial'.converted = k /\ partial'.long = l
      /\ partial'.at = c.at /\ partial'.neural = c.neural
  BY ONLY <1>2, <1>3 DEF Clips
<1>10. QED
  BY <1>1, <1>4, <1>5, <1>6, <1>7, <1>8, <1>9 DEF PartialGood, Verified

(* The effects written into the delivery leave a partial that is what was    *)
(* asked for.                                                                *)
LEMMA FusedGood == CourseInv /\ VfxIntoDelivery => PartialGood'
<1> SUFFICES ASSUME CourseInv, VfxIntoDelivery PROVE PartialGood'
  OBVIOUS
<1> DEFINE c == InHand
<1>1. OnCourse("vfx", c, seek, rate, converted) /\ FusedDelivery(project) /\ project' = project
  BY ReadersAre DEF VfxIntoDelivery, Begins, At, CourseInv, Course, render
<1>2. c \in Clips /\ project \in Projects /\ ColorRuns(project) \in BOOLEAN
  BY StateFacts DEF CourseInv, HandedInv
<1>3. partial' = [c EXCEPT !.long = TRUE]
  BY Zenon DEF VfxIntoDelivery
<1> HIDE DEF c
<1>4. MasterRate(project) = "target" /\ NeedsMaster(project)
  BY <1>1, <1>2, PlanFacts DEF NeedsMaster
<1>5. ~project.few => c.rate = "target"
  BY <1>1, <1>4 DEF OnCourse
<1>6. c.converted = Bit(ColorRuns(project))
  BY <1>1, <1>2, <1>4 DEF OnCourse, Late, Bit
<1>7. ~Edits /\ ~project.few => c.at = Bit(project.loop)
  BY <1>1, <1>2 DEF OnCourse, Early, Bit, Clips
<1>8. c.neural <= 1
  BY <1>1, <1>2 DEF OnCourse, Bit, Clips
<1>9. /\ partial'.rate = c.rate /\ partial'.converted = c.converted /\ partial'.long
      /\ partial'.at = c.at /\ partial'.neural = c.neural
  BY ONLY <1>2, <1>3 DEF Clips
<1>10. QED
  BY <1>1, <1>5, <1>6, <1>7, <1>8, <1>9 DEF PartialGood, Verified

(* Every step keeps what comes to be verified what was asked for.            *)
LEMMA DeliveryStep == CourseInv /\ Next => Delivery'
<1> SUFFICES ASSUME CourseInv, Next PROVE Delivery'
  OBVIOUS
<1> USE ReadersAre, FollowerIs DEF Delivery, Fused
<1>1. CASE Encode
  BY <1>1, EncodedGood DEF Encode, Begins, At, Runs, render
<1>2. CASE VfxIntoDelivery
  BY <1>2, FusedGood DEF VfxIntoDelivery, Begins, At, render
<1>3. ASSUME UNCHANGED <<project, partial>> PROVE PartialGood' = PartialGood
  BY <1>3 DEF PartialGood, Verified
<1>4. CASE Release
  <2>1. next \in Readers /\ next' = Follower[next] /\ phase' = "start" /\ phase = "release"
    BY <1>4 DEF Release, CourseInv, HandedInv, Underway
  <2>2. UNCHANGED <<project, partial>>
    BY <1>4 DEF Release, render
  <2>3. FusedDelivery(project') = FusedDelivery(project) /\ project'.effects = project.effects
    BY <2>2
  <2>4. CASE next \in {"vfx", "rife_final", "encode"}
    <3>1. Delivery /\ (PartialGood' <=> PartialGood)
      BY <1>3, <2>2 DEF CourseInv
    <3>2. CASE next = "vfx"
      BY <2>1, <2>3, <3>1, <3>2
    <3>3. CASE next = "rife_final"
      BY <2>1, <2>3, <3>1, <3>3
    <3>4. CASE next = "encode"
      <4>1. next' = "verify" /\ phase' = "start"
        BY <2>1, <3>4
      <4>2. PartialGood'
        BY <2>1, <3>1, <3>4
      <4>3. QED BY <4>1, <4>2
    <3>5. QED BY <2>4, <3>2, <3>3, <3>4
  <2>5. CASE next \notin {"vfx", "rife_final", "encode"}
    <3>1. next' \notin {"rife_final", "encode", "verify"}
      BY <2>1, <2>5
    <3>2. QED BY <2>1, <3>1
  <2>6. QED BY <2>4, <2>5
<1>5. CASE Skip
  BY <1>3, <1>5 DEF Skip, CourseInv, render, Runs
<1>6. CASE Color \/ Master \/ Transition \/ VfxIntoFile
  BY <1>3, <1>6 DEF Color, Master, Transition, VfxIntoFile, Begins, At, Produce, CourseInv, render
<1>7. CASE KeepMaster
  BY <1>3, <1>7 DEF KeepMaster, Begins, At, CourseInv, render
<1>8. ASSUME NEW s \in {"enhancement", "rife_base", "rife_final"}, Neural(s) PROVE Delivery'
  BY <1>3, <1>8 DEF Neural, Begins, At, CourseInv, render
<1>9. ASSUME NEW s \in {"enhancement", "rife_base", "rife_final"}, NEW d, Join(s, d) PROVE Delivery'
  BY <1>3, <1>9 DEF Join, At, CourseInv, render
<1>10. CASE Hit \/ Promote \/ KeepEnhanced("promotion") \/ KeepEnhanced("late")
  BY <1>3, <1>10 DEF Hit, Promote, KeepEnhanced, At, CourseInv, render
<1>11. ASSUME NEW s \in {"rife_base", "rife_final"}, Take(s) \/ NothingToAdd(s) PROVE Delivery'
  BY <1>3, <1>11 DEF Take, NothingToAdd, At, CourseInv, render
<1>12. ASSUME NEW s \in {"rife_base", "rife_final"}, FallBackToFfmpeg(s) PROVE Delivery'
  BY <1>3, <1>12 DEF FallBackToFfmpeg, CourseInv, render
<1>13. CASE Deliver \/ Refuse \/ Fail \/ Cancel
  BY <1>13 DEF Deliver, Refuse, Fail, Cancel, End, Endings
<1>14. CASE Again
  BY <1>14 DEF Again, Start
<1>15. QED
  BY <1>1, <1>2, <1>4, <1>5, <1>6, <1>7, <1>8, <1>9, <1>10, <1>11, <1>12, <1>13, <1>14
     DEF Next, Enhance, Interpolate, JoinEnhanced, JoinBase, JoinFinal

(* The invariant of the course holds initially.                              *)
LEMMA CourseInit == Init => CourseInv
<1> SUFFICES ASSUME Init PROVE CourseInv
  OBVIOUS
<1>1. Anew
  BY AskedAreProjects DEF Init, Anew
<1>2. Cached /\ Delivery
  BY DEF Init, Cached, Delivery
<1>3. QED BY <1>1, <1>2, AnewCourse, HandedInit DEF CourseInv

(* The invariant of the course holds in every behaviour.                     *)
LEMMA CourseHolds == Spec => []CourseInv
<1>1. CourseInv /\ [Next]_vars => CourseInv'
  <2>1. CASE UNCHANGED vars
    <3>1. HandedInv => HandedInv'
      BY <2>1 DEF vars, HandedInv, Shape, Underway, Runs, Readers, Follower, Forward, Handed,
                  Regular, Present, Fused
    <3>2. Course => Course'
      BY <2>1 DEF vars, Course, AfterRelease, OnCourse, SeekAfter, RateAfter, ConvertedAfter, InHand, Fused
    <3>3. Cached => Cached'
      BY <2>1 DEF vars, Cached
    <3>4. Delivery => Delivery'
      BY <2>1 DEF vars, Delivery, PartialGood, Verified, Fused
    <3>5. QED BY <3>1, <3>2, <3>3, <3>4 DEF CourseInv
  <2>2. QED BY <2>1, HandedStep, CourseStep, CachedStep, DeliveryStep DEF CourseInv
<1>2. QED BY CourseInit, <1>1, PTL DEF Spec

(* The stages that know only SDR are never handed a frame whose colour is    *)
(* still to be converted, nor one that was converted twice (color_pipeline). *)
THEOREM SdrStagesSeeSdrHolds == Spec => []SdrStagesSeeSdr
<1>1. CourseInv => SdrStagesSeeSdr
  <2> SUFFICES ASSUME CourseInv, next \in {"enhancement", "rife_base", "transition", "vfx", "rife_final"},
                      phase = "start", Runs(next)
               PROVE  InHand.converted = Bit(ColorRuns(project))
    BY DEF SdrStagesSeeSdr
  <2>1. OnCourse(next, InHand, seek, rate, converted)
    BY ReadersAre DEF CourseInv, Course
  <2>2. QED
    BY <2>1, PlanFacts, StateFacts DEF CourseInv, HandedInv, OnCourse, Late, Runs, Bit, NeedsMaster
<1>2. QED BY CourseHolds, <1>1, PTL

(* As long as the loop is not switched between two renders of one source,    *)
(* what is verified is what was planned, whatever fails on the way: the      *)
(* cache (its key names the start the worker holds), RIFE, the promotion.    *)
THEOREM PartialAsPlannedHolds == ASSUME ~Edits PROVE Spec => []PartialAsPlanned
<1>1. CourseInv => PartialAsPlanned
  BY DEF CourseInv, Delivery, PartialGood, PartialAsPlanned, Regular
<1>2. QED BY CourseHolds, <1>1, PTL

-----------------------------------------------------------------------------
(* The scratch in use.  Only the file in hand is kept between two stages, it *)
(* was written by a stage of the plan, and it is no larger than what the     *)
(* estimate keeps for the stage that reads it, except after the transition   *)
(* of a clip too short for it: nothing is written beside its master.         *)
Neurals == {"enhancement", "rife_base", "rife_final"}
Before(stage) == Kept(project, Size)[stage]
Written(v) == v \in Stages => Planned(project, v) /\ ~(v = "vfx" /\ FusedDelivery(project))
Spared(stage) == project.transition /\ project.brief /\ stage \in {"vfx", "rife_final", "encode"}
Within(v, stage) == v \in files => Spared(stage) \/ Size[v] <= Before(stage)

Space ==
  astray = {} =>
    /\ Written(video) /\ Written(consumed)
    /\ phase \in {"start", "chunks"} => files \subseteq {video}
    /\ phase = "join" => files \subseteq {video, next}
    /\ phase \in {"chunks", "join"} => next \in Neurals /\ Planned(project, next)
    /\ next \in Readers /\ phase # "release" => Within(video, next)
    /\ phase = "release" =>
         /\ files \subseteq {video, consumed}
         /\ Within(consumed, next)
         /\ video \in files => \/ video = consumed
                               \/ /\ video = next /\ next \in Stages /\ ~Spared(next)
                                  /\ Size[next] <= Before(Follower[next])

(* What the estimate keeps, from one stage to the next.                      *)
LEMMA KeptFacts ==
    ASSUME NEW p \in Projects
    PROVE  LET K == Kept(p, Size)
           IN /\ \A s \in Readers : K[s] \in Nat
              /\ ColorPrepass(p) => Size["color"] <= K["enhancement"]
              /\ RifeBase(p) = "run" => Size["rife_base"] <= K["master"]
              /\ NeedsMaster(p) => Size["master"] <= K["transition"]
              /\ p.transition => Size["transition"] <= K["vfx"]
              /\ p.effects /\ ~FusedDelivery(p) => Size["vfx"] <= K["rife_final"]
              /\ RifeFinal(p) = "run" => Size["rife_final"] <= K["encode"]
              /\ K["color"] <= K["enhancement"]
              /\ Enhancement(p) # "run" => K["enhancement"] <= K["rife_base"]
              /\ RifeBase(p) # "run" => K["rife_base"] <= K["master"]
              /\ ~NeedsMaster(p) => K["master"] <= K["transition"]
              /\ ~p.transition => K["transition"] <= K["vfx"]
              /\ ~p.effects => K["vfx"] <= K["rife_final"]
              /\ RifeFinal(p) # "run" => K["rife_final"] <= K["encode"]
<1>1. \A s \in Stages : Size[s] \in Nat
  BY SizesAreNatural
<1>2. QED BY <1>1, ReadersAre DEF Kept

(* A transition asks for music, and effects over music go into the delivery: *)
(* nothing is written beside a file once the loop is closed.                 *)
LEMMA TransitionLast ==
    ASSUME NEW p \in Projects, p.transition
    PROVE  /\ NeedsMaster(p) /\ ~Attempts(RifeFinal(p))
           /\ p.effects => FusedDelivery(p)
BY DEF Projects, Selections, NeedsMaster, FusedDelivery, RifeFinal, VisualRate, MasterRate, TargetAbove,
       Attempts

(* A neural stage that is attempted and installed is planned.                *)
LEMMA InstalledIsPlanned ==
    ASSUME NEW p \in Projects
    PROVE  /\ Attempts(Enhancement(p)) /\ p.ai = "yes" => Enhancement(p) = "run"
           /\ Attempts(RifeFinal(p)) /\ p.rife = "yes" => RifeFinal(p) = "run"
           /\ RifeBase(p) = "run" => p.rife = "yes"
           /\ Enhancement(p) = "run" => Attempts(Enhancement(p))
           /\ RifeFinal(p) = "run" => Attempts(RifeFinal(p))
BY DEF Projects, Selections, Enhancement, RifeFinal, RifeBase, Available, Attempts

(* The peaks of a stage that is planned, as the scratch in use meets them.   *)
LEMMA PeakFacts ==
    ASSUME NEW p \in Projects, NEW s \in Stages, Planned(p, s)
    PROVE  /\ ~(s = "vfx" /\ FusedDelivery(p)) =>
                \E peak \in Peaks(p, Size, Frames) : peak \in Int /\ Kept(p, Size)[s] + Size[s] <= peak
           /\ s \in Neurals =>
                /\ \E peak \in Peaks(p, Size, Frames) :
                     peak \in Int /\ Kept(p, Size)[s] + Size[s] + Frames[s] <= peak
                /\ \E peak \in Peaks(p, Size, Frames) :
                     peak \in Int /\ Kept(p, Size)[s] + Size[s] + Size[s] <= peak
<1> DEFINE k == Kept(p, Size)[s]
<1>1. k \in Nat /\ Size[s] \in Nat /\ Frames[s] \in Nat
  BY KeptFacts, SizesAreNatural, ReadersAre
<1>2. StagePeaks(p, Size, Frames, s) \subseteq Peaks(p, Size, Frames)
  BY DEF Peaks
<1>3. s \in Neurals => k + Size[s] + Frames[s] \in StagePeaks(p, Size, Frames, s)
  BY DEF StagePeaks, Neurals
<1>4. s \in Neurals => k + 2 * Size[s] \in StagePeaks(p, Size, Frames, s)
  BY DEF StagePeaks, Neurals
<1>5. s \notin Neurals /\ ~(s = "vfx" /\ FusedDelivery(p)) => k + Size[s] \in StagePeaks(p, Size, Frames, s)
  BY DEF StagePeaks, Neurals
<1> HIDE DEF k
<1>6. /\ k + Size[s] + Frames[s] \in Int /\ k + 2 * Size[s] \in Int /\ k + Size[s] \in Int
      /\ k + Size[s] <= k + Size[s] + Frames[s] /\ k + Size[s] + Size[s] <= k + 2 * Size[s]
      /\ k + Size[s] + Frames[s] <= k + Size[s] + Frames[s] /\ k + Size[s] <= k + Size[s]
  BY <1>1
<1>7. QED BY <1>2, <1>3, <1>4, <1>5, <1>6 DEF k

(* At most two files exist: the scratch in use is at most theirs.            *)
Used == Held("color") + Held("enhancement") + Held("rife_base") + Held("master") + Held("transition")
        + Held("vfx") + Held("rife_final")

LEMMA UsedBound ==
    ASSUME NEW a, NEW b, files \subseteq {a, b}, files \subseteq Stages,
           NEW m \in Nat, NEW n \in Nat,
           a \in files => Size[a] <= m,
           b \in files => Size[b] <= n
    PROVE  Used \in Nat /\ Used <= m + n
<1> DEFINE D(s, x, w) == IF x = s THEN w ELSE 0
<1>1. \A s \in Stages : Size[s] \in Nat
  BY SizesAreNatural
<1>2. ASSUME NEW s \in Stages
      PROVE  /\ Held(s) \in Nat /\ D(s, a, m) \in Nat /\ D(s, b, n) \in Nat
             /\ Held(s) <= D(s, a, m) + D(s, b, n)
  BY <1>1 DEF Held
<1> DEFINE Sum(x, w) == D("color", x, w) + D("enhancement", x, w) + D("rife_base", x, w)
                        + D("master", x, w) + D("transition", x, w) + D("vfx", x, w) + D("rife_final", x, w)
<1>3. ASSUME NEW x, NEW w \in Nat PROVE Sum(x, w) \in Nat /\ Sum(x, w) <= w
  <2>1. CASE x \in Stages BY <2>1
  <2>2. CASE x \notin Stages BY <2>2
  <2>3. QED BY <2>1, <2>2
<1>4. Sum(a, m) \in Nat /\ Sum(a, m) <= m /\ Sum(b, n) \in Nat /\ Sum(b, n) <= n
  BY <1>3
<1>5. Used \in Nat /\ Used <= Sum(a, m) + Sum(b, n)
  <2> HIDE DEF D
  <2> QED BY <1>2 DEF Used
<1> HIDE DEF Sum
<1>6. QED BY <1>4, <1>5

SpaceInv == HandedInv /\ Space

(* A stage that writes a file for the next one keeps the scratch as planned. *)
LEMMA ProducedSpace ==
    ASSUME SpaceInv, NEW s \in Stages, Begins(s), Planned(project, s),
           ~(s = "vfx" /\ FusedDelivery(project)), Size[s] <= Before(Follower[s]), ~Spared(s),
           files' = files \cup {s}, video' = s, consumed' = video, phase' = "release",
           UNCHANGED <<next, project, astray>>
    PROVE  Space'
<1> SUFFICES ASSUME astray = {} PROVE Space'
  BY DEF Space
<1> USE DEF SpaceInv, Space, Begins, At, Written, Within, Spared, Before
<1>1. Written(video) /\ files \subseteq {video} /\ Within(video, s)
  BY ReadersAre
<1>2. video # s
  BY RankFacts, ReadersAre DEF HandedInv, Forward, Shape
<1>3. QED BY <1>1, <1>2, ReadersAre

(* What the steps of a render do to the scratch, by what they leave behind.  *)
LEMMA SpaceStep == SpaceInv /\ Next => Space'
<1> SUFFICES ASSUME SpaceInv, Next, astray' = {} PROVE Space'
  BY DEF Space
<1> DEFINE p == project
<1>1. p \in Projects
  BY AskedAreProjects DEF SpaceInv, HandedInv, Shape
<1> USE DEF At, Begins, belief, render
<1>2. ASSUME NEW s \in Stages, Begins(s), Planned(project, s),
             ~(s = "vfx" /\ FusedDelivery(project)), Size[s] <= Before(Follower[s]), ~Spared(s),
             NEW c, Produce(s, c)
      PROVE  Space'
  BY <1>2, ProducedSpace DEF Produce
<1>4. CASE Color
  <2>1. Planned(p, "color") /\ Size["color"] <= Before(Follower["color"])
    BY <1>1, <1>4, KeptFacts, FollowerIs DEF Color, Runs, Planned, Before
  <2>2. QED BY <1>2, <1>4, <2>1 DEF Color, Spared
<1>5. CASE Master
  <2>1. Planned(p, "master") /\ Size["master"] <= Before(Follower["master"])
    BY <1>1, <1>5, KeptFacts, FollowerIs DEF Master, Runs, Planned, Before
  <2>2. QED BY <1>2, <1>5, <2>1 DEF Master, Spared
<1>6. CASE Transition
  <2>1. Planned(p, "transition") /\ Size["transition"] <= Before(Follower["transition"])
    BY <1>1, <1>6, KeptFacts, FollowerIs DEF Transition, Runs, Planned, Before
  <2>2. QED BY <1>2, <1>6, <2>1 DEF Transition, Spared
<1>7. CASE VfxIntoFile
  <2>1. Planned(p, "vfx") /\ Size["vfx"] <= Before(Follower["vfx"]) /\ ~Spared("vfx")
    BY <1>1, <1>7, KeptFacts, FollowerIs, TransitionLast DEF VfxIntoFile, Runs, Planned, Before, Spared
  <2>2. QED BY <1>2, <1>7, <2>1 DEF VfxIntoFile
<1>8. astray = {} => Space
  BY DEF SpaceInv
<1> USE DEF Space, Written, Within, Spared, Before
<1>9. CASE VfxIntoDelivery \/ Encode
  BY <1>8, <1>9, ReadersAre DEF VfxIntoDelivery, Encode
<1>10. CASE Skip
  <2>1. Before(next) <= Before(Follower[next]) \/ Follower[next] = "verify"
    <3>1. CASE next = "color" BY <1>1, <1>10, <3>1, KeptFacts, FollowerIs, InstalledIsPlanned DEF Skip, Runs, Before
    <3>2. CASE next = "enhancement" BY <1>1, <1>10, <3>2, KeptFacts, FollowerIs, InstalledIsPlanned DEF Skip, Runs, Before
    <3>3. CASE next = "rife_base" BY <1>1, <1>10, <3>3, KeptFacts, FollowerIs, InstalledIsPlanned DEF Skip, Runs, Before
    <3>4. CASE next = "master" BY <1>1, <1>10, <3>4, KeptFacts, FollowerIs, InstalledIsPlanned DEF Skip, Runs, Before
    <3>5. CASE next = "transition" BY <1>1, <1>10, <3>5, KeptFacts, FollowerIs, InstalledIsPlanned DEF Skip, Runs, Before
    <3>6. CASE next = "vfx" BY <1>1, <1>10, <3>6, KeptFacts, FollowerIs, InstalledIsPlanned DEF Skip, Runs, Before
    <3>7. CASE next = "rife_final" BY <1>1, <1>10, <3>7, KeptFacts, FollowerIs, InstalledIsPlanned DEF Skip, Runs, Before
    <3>8. CASE next = "encode" BY <1>1, <1>10, <3>8, KeptFacts, FollowerIs, InstalledIsPlanned DEF Skip, Runs, Before
    <3>9. QED BY <1>10, <3>1, <3>2, <3>3, <3>4, <3>5, <3>6, <3>7, <3>8, ReadersAre DEF Skip
  <2>2. \A s \in Readers : Before(s) \in Nat
    BY <1>1, KeptFacts
  <2>3. \A s \in Stages : Size[s] \in Nat
    BY SizesAreNatural
  <2>4. files \subseteq Stages /\ (Follower[next] = "verify" \/ Follower[next] \in Readers)
    BY <1>10, FollowerIs DEF Skip, SpaceInv, HandedInv, Shape
  <2> HIDE DEF Before
  <2>5. Within(video, Follower[next]) \/ Follower[next] = "verify"
    <3>1. Spared(next) => Spared(Follower[next]) \/ Follower[next] = "verify"
      BY FollowerIs
    <3>2. Within(video, next) /\ next \in Readers
      BY <1>8, <1>10 DEF Skip
    <3>3. video \in files => Size[video] \in Nat
      BY <2>3, <2>4
    <3> HIDE DEF Spared
    <3>4. QED BY <2>1, <2>2, <2>4, <3>1, <3>2, <3>3
  <2> USE DEF Before
  <2>6. QED BY <1>8, <1>10, <2>4, <2>5, ReadersAre DEF Skip
<1>11. CASE KeepMaster
  BY <1>8, <1>11, FollowerIs, ReadersAre DEF KeepMaster, Runs
<1>12. ASSUME NEW s \in Neurals, Neural(s), Planned(p, s) PROVE Space'
  BY <1>8, <1>12, ReadersAre DEF Neural, Neurals
<1>13. CASE Enhance
  BY <1>1, <1>12, <1>13, InstalledIsPlanned DEF Enhance, Neurals, Neural, Runs, Planned
<1>14. ASSUME NEW s \in {"rife_base", "rife_final"}, Interpolate(s) PROVE Space'
  BY <1>1, <1>12, <1>14, InstalledIsPlanned DEF Interpolate, Neurals, Neural, Runs, Planned
<1>15. ASSUME NEW s \in Stages, NEW c, Join(s, c) PROVE Space'
  BY <1>8, <1>15, ReadersAre, RankFacts DEF Join, SpaceInv, HandedInv, Forward, Shape
<1>16. CASE JoinEnhanced \/ JoinBase \/ JoinFinal
  BY <1>15, <1>16 DEF JoinEnhanced, JoinBase, JoinFinal
<1>17. CASE Hit
  BY <1>8, <1>17, ReadersAre DEF Hit
<1>18. CASE Promote
  BY <1>8, <1>18, ReadersAre DEF Promote, SpaceInv, HandedInv, Shape
<1>19. ASSUME NEW s \in {"rife_base", "rife_final"}, Take(s) PROVE Space'
  <2>1. Planned(p, s) \/ astray # {}
    BY <1>8, <1>19 DEF Take
  <2>2. Planned(p, s) => Size[s] <= Before(Follower[s]) /\ ~Spared(s)
    BY <1>1, KeptFacts, FollowerIs, TransitionLast, InstalledIsPlanned DEF Planned
  <2>3. QED BY <1>8, <1>19, <2>1, <2>2, ReadersAre DEF Take
<1>20. ASSUME NEW s \in {"rife_base", "rife_final"}, NothingToAdd(s) PROVE Space'
  BY <1>8, <1>20, ReadersAre DEF NothingToAdd
<1>21. CASE Release
  BY <1>8, <1>21, ReadersAre, FollowerIs DEF Release, SpaceInv, HandedInv, Underway
<1>22. CASE Deliver \/ Refuse \/ Fail \/ Cancel
  BY <1>8, <1>22, ReadersAre DEF Deliver, Refuse, Fail, Cancel, End, Endings
<1>23. CASE Again
  BY <1>23 DEF Again, Start
<1>24. ~KeepEnhanced("promotion") /\ ~KeepEnhanced("late")
  BY DEF KeepEnhanced
<1>25. \A s \in {"rife_base", "rife_final"} : ~FallBackToFfmpeg(s)
  BY DEF FallBackToFfmpeg
<1>26. QED
  BY <1>4, <1>5, <1>6, <1>7, <1>9, <1>10, <1>11, <1>13, <1>14, <1>16, <1>17, <1>18, <1>19, <1>20, <1>21,
     <1>22, <1>23, <1>24, <1>25 DEF Next

(* A file on disk that the plan has written is within some peak.             *)
LEMMA OneFile ==
    ASSUME SpaceInv, NEW v \in Stages, Written(v)
    PROVE  \E peak \in Peaks(project, Size, Frames) : peak \in Int /\ Size[v] <= peak
<1>1. project \in Projects
  BY AskedAreProjects DEF SpaceInv, HandedInv, Shape
<1>2. Kept(project, Size)[v] \in Nat /\ Size[v] \in Nat
  BY <1>1, KeptFacts, SizesAreNatural, ReadersAre
<1>3. PICK peak \in Peaks(project, Size, Frames) : peak \in Int /\ Kept(project, Size)[v] + Size[v] <= peak
  BY <1>1, PeakFacts DEF Written
<1>4. Size[v] <= peak
  BY ONLY <1>2, <1>3
<1>5. QED BY <1>3, <1>4

(* The files of a render without a fault, chunks and frames included, never  *)
(* exceed the scratch that the estimate announces (estimate_storage).        *)
THEOREM ScratchBoundedHolds == Spec => []ScratchBounded
<1>1. Init => SpaceInv
  BY HandedInit DEF Init, SpaceInv, Space, Written, Within
<1>2. SpaceInv /\ [Next]_vars => SpaceInv'
  <2>1. CASE UNCHANGED vars
    <3>1. HandedInv => HandedInv'
      BY <2>1 DEF vars, HandedInv, Shape, Underway, Runs, Readers, Follower, Forward, Handed,
                  Regular, Present, Fused
    <3>2. Space => Space'
      BY <2>1 DEF vars, Space, Written, Within, Spared, Before, Readers, Follower
    <3>3. QED BY <3>1, <3>2 DEF SpaceInv
  <2>2. QED BY <2>1, HandedStep, SpaceStep DEF SpaceInv
<1>3. SpaceInv => ScratchBounded
  <2> SUFFICES ASSUME SpaceInv, astray = {}
               PROVE  \E peak \in Peaks(project, Size, Frames) \cup {0} : Live <= peak
    BY DEF ScratchBounded
  <2> DEFINE peaks == Peaks(project, Size, Frames)
  <2>1. Space /\ astray = {} /\ project \in Projects /\ files \subseteq Stages
        /\ phase \in {"start", "chunks", "join", "release"}
    BY AskedAreProjects DEF SpaceInv, HandedInv, Shape
  <2>2. \A s \in Stages : Size[s] \in Nat /\ Frames[s] \in Nat /\ Before(s) \in Nat
    BY <2>1, SizesAreNatural, KeptFacts, ReadersAre DEF Before
  <2>3. ASSUME NEW v, files \subseteq {v}, Written(v), Live = Used + 0
        PROVE  \E peak \in peaks \cup {0} : Live <= peak
    <3>1. CASE files = {}
      <4>1. Used <= 0 + 0
        BY <2>1, <3>1, UsedBound
      <4>2. Used \in Nat
        BY <2>1, <3>1, UsedBound
      <4>3. QED BY <2>3, <4>1, <4>2
    <3>2. CASE v \in files
      <4>1. v \in Stages /\ Size[v] \in Nat
        BY <2>1, <2>2, <3>2
      <4>2. Used \in Nat /\ Used <= Size[v] + 0
        BY <2>1, <2>3, <4>1, UsedBound
      <4>3. PICK peak \in peaks : peak \in Int /\ Size[v] <= peak
        BY <2>3, <4>1, OneFile
      <4>4. Used + 0 <= peak
        BY ONLY <4>1, <4>2, <4>3
      <4>5. QED BY <2>3, <4>3, <4>4
    <3>3. QED BY <2>3, <3>1, <3>2
  <2>4. CASE phase = "start"
    <3>1. Live = Used + 0
      BY <2>4 DEF Live, Used
    <3>2. files \subseteq {video} /\ Written(video)
      BY <2>1, <2>4 DEF Space
    <3>3. QED BY <2>3, <3>1, <3>2
  <2>5. CASE phase \in {"chunks", "join"}
    <3>1. /\ next \in Neurals /\ next \in Stages /\ next \in Readers /\ Planned(project, next)
          /\ Within(video, next)
      BY <2>1, <2>5, ReadersAre DEF Space, Neurals
    <3>2. ~Spared(next)
      BY <2>1, <3>1, TransitionLast, InstalledIsPlanned DEF Spared, Neurals, Planned
    <3>3. video \in files => Size[video] <= Before(next)
      BY <3>1, <3>2 DEF Within
    <3>4. CASE phase = "chunks"
      <4>1. Used \in Nat /\ Used <= Before(next) + 0
        BY <2>1, <2>2, <3>1, <3>3, <3>4, UsedBound DEF Space
      <4>2. Live = Used + (Size[next] + Frames[next])
        BY <3>4 DEF Live, Used
      <4>3. PICK peak \in peaks : peak \in Int /\ Before(next) + Size[next] + Frames[next] <= peak
        BY <2>1, <3>1, PeakFacts DEF Before
      <4>4. Size[next] \in Nat /\ Frames[next] \in Nat /\ Before(next) \in Nat
        BY <2>2, <3>1
      <4>5. Live <= peak
        BY ONLY <4>1, <4>2, <4>3, <4>4
      <4>6. QED BY <4>3, <4>5
    <3>5. CASE phase = "join"
      <4>1. Used \in Nat /\ Used <= Before(next) + Size[next]
        <5>1. files \subseteq {video, next} /\ files \subseteq Stages
          BY <2>1, <3>5 DEF Space
        <5>2. Before(next) \in Nat /\ Size[next] \in Nat /\ (next \in files => Size[next] <= Size[next])
          BY <2>2, <3>1
        <5> HIDE DEF Used
        <5>3. QED BY <3>3, <5>1, <5>2, UsedBound
      <4>2. Live = Used + Size[next]
        BY <3>5 DEF Live, Used
      <4>3. PICK peak \in peaks : peak \in Int /\ Before(next) + Size[next] + Size[next] <= peak
        BY <2>1, <3>1, PeakFacts DEF Before
      <4>4. Size[next] \in Nat /\ Before(next) \in Nat
        BY <2>2, <3>1
      <4>5. Live <= peak
        BY ONLY <4>1, <4>2, <4>3, <4>4
      <4>6. QED BY <4>3, <4>5
    <3>6. QED BY <2>5, <3>4, <3>5
  <2>6. CASE phase = "release"
    <3>1. Live = Used + 0
      BY <2>6 DEF Live, Used
    <3>2. CASE video \notin files \/ video = consumed
      <4>1. files \subseteq {consumed}
        BY <2>1, <2>6, <3>2 DEF Space
      <4>2. QED BY <2>1, <2>3, <3>1, <4>1 DEF Space
    <3>3. CASE video \in files /\ video = next /\ next \in Stages /\ ~Spared(next)
      <4>1. /\ Planned(project, next) /\ ~(next = "vfx" /\ FusedDelivery(project))
            /\ consumed \in files => Size[consumed] <= Before(next)
            /\ files \subseteq {consumed, next}
        BY <2>1, <2>6, <3>3 DEF Space, Written, Within
      <4>2. Used \in Nat /\ Used <= Before(next) + Size[next]
        <5>1. Before(next) \in Nat /\ Size[next] \in Nat /\ (next \in files => Size[next] <= Size[next])
          BY <2>2, <3>3
        <5>2. files \subseteq Stages
          BY <2>1
        <5> HIDE DEF Used
        <5>3. QED BY <4>1, <5>1, <5>2, UsedBound
      <4>3. PICK peak \in peaks : peak \in Int /\ Before(next) + Size[next] <= peak
        BY <2>1, <3>3, <4>1, PeakFacts DEF Before
      <4>4. Size[next] \in Nat /\ Before(next) \in Nat
        BY <2>2, <3>3
      <4>5. Live <= peak
        BY ONLY <3>1, <4>2, <4>3, <4>4
      <4>6. QED BY <4>3, <4>5
    <3>4. QED BY <2>1, <2>6, <3>2, <3>3 DEF Space
  <2>7. QED BY <2>1, <2>4, <2>5, <2>6
<1>4. QED BY <1>1, <1>2, <1>3, PTL DEF Spec
=============================================================================
