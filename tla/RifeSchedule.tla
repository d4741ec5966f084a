----------------------------- MODULE RifeSchedule -----------------------------
(***************************************************************************)
(* The frame arithmetic of a chunked RIFE render: how the source frames are *)
(* cut into chunks, and how many target frames each chunk must produce, in  *)
(* the render itself (rife_engine.py), in a resumed one and in the counts   *)
(* that a resume accepts (rife_recovery.py).  Ratios are exact here; the    *)
(* code computes them in binary floating point.                             *)
(***************************************************************************)
EXTENDS Integers

CONSTANTS Source, Target, \* total frames before and after the interpolation
          Chunk,          \* source frames of a chunk
          RateNum, RateDen \* target fps / source fps

ASSUME ScheduleAssumption ==
    /\ Source \in Nat /\ Source >= 2 /\ Target \in Nat /\ Target > Source
    /\ Chunk \in Nat /\ Chunk >= 2
    /\ RateNum \in Nat \ {0} /\ RateDen \in Nat \ {0}

(* round(a / b): the nearest integer, the even one of two                    *)
Round(a, b) == LET q == a \div b
                   r == a % b
               IN  IF 2 * r > b \/ (2 * r = b /\ q % 2 = 1) THEN q + 1 ELSE q

(* source_chunk_counts: equal chunks; a tail of one frame joins its neighbour *)
Chunks == IF Source % Chunk \in {0, 1} THEN Source \div Chunk ELSE Source \div Chunk + 1
End(k) == IF k >= Chunks THEN Source ELSE k * Chunk     \* source frames of chunks 1..k
Count(k) == End(k) - End(k - 1)

(* The loop's own step, from the frames already covered                      *)
LoopCount(processed) ==
    LET remaining == Source - processed
        count == IF Chunk <= remaining THEN Chunk ELSE remaining
    IN  IF remaining - count = 1 THEN count + 1 ELSE count

(* original_target_counts: every chunk rounded by itself                     *)
Nominal(k) == LET frames == Round(Count(k) * RateNum, RateDen)
              IN  IF frames < 2 THEN 2 ELSE frames

-----------------------------------------------------------------------------
(* Mutant: the rounding of each chunk by itself, as before the redistribution *)
ShareAlone(done, produced, k) == Nominal(k)

(* remaining_schedule: after the `done' first chunks produced `produced'     *)
(* frames, the rest of Target is spread over the other chunks by rounding    *)
(* its cumulative share; distributed_chunk_target_count is the case 0, 0     *)
After(done, produced, k) ==
    Round((End(k) - End(done)) * (Target - produced), Source - End(done))
Share(done, produced, k) == After(done, produced, k) - After(done, produced, k - 1)

(* It raises rather than plan a chunk of fewer than two frames or a total    *)
(* other than Target                                                         *)
Feasible(done, produced) ==
    IF done = Chunks THEN produced = Target
    ELSE /\ Target - produced >= 2 * (Chunks - done)
         /\ \A k \in done + 1 .. Chunks : Share(done, produced, k) >= 2

(* acceptable_segment_frame_counts: what validate_contract takes for chunk k *)
Acceptable(k) == {Nominal(k), Nominal(k) + 1, Share(0, 0, k)}
=============================================================================
