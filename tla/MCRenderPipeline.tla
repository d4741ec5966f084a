--------------------------- MODULE MCRenderPipeline ---------------------------
(***************************************************************************)
(* Projects and sizes for TLC.  A choice that has no effect on a project   *)
(* keeps one value.                                                        *)
(***************************************************************************)
EXTENDS RenderPipeline

Meant(p) == /\ (p.ai = "no" => ~p.upscale)
            /\ (p.brief => p.transition)
            /\ (p.few => p.rife = "yes" /\ Raises(p))

AllClips   == {p \in Projects : Meant(p) /\ (p.few => ~p.brief)}
\* Clips to which the interpolation has nothing to add.
ShortClips == {p \in Projects : Meant(p) /\ p.few /\ p.ai = "no" /\ ~p.brief}
HdrClips   == {p \in Projects : Meant(p) /\ ~p.few /\ p.rife = "no" /\ p.colour = "hdr" /\ ~p.brief}

\* Sizes of which no two sums are equal.
MCSize == [color |-> 1, enhancement |-> 2, rife_base |-> 4, master |-> 8, transition |-> 16,
           vfx |-> 32, rife_final |-> 64]
MCFrames == [s \in Stages |-> IF s = "enhancement" THEN 3 ELSE 5]

\* The render thread works out the colour contract for itself: it is the plan's.
ASSUME ColorAgrees == \A p \in Projects : WorkerColor(p) = PlannedColor(p)
\* RIFE is planned at most once in a render (render_plan.py, CP-002).
ASSUME RifeOnce == \A p \in Projects : RifeCalls(p) <= 1
===============================================================================
