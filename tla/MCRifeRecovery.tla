---------------------------- MODULE MCRifeRecovery ----------------------------
(* Instances of RifeRecovery for TLC, and the closed form of the chunks       *)
(* against the loop of source_chunk_counts, step by step.                    *)
EXTENDS RifeRecovery

ASSUME ChunksAreTheLoops ==
    /\ End(0) = 0 /\ End(Chunks) = Source
    /\ \A k \in 1 .. Chunks : Count(k) = LoopCount(End(k - 1)) /\ Count(k) >= 2
=============================================================================
