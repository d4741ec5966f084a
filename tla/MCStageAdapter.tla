---------------------------- MODULE MCStageAdapter ----------------------------
(* Instances of StageAdapter for TLC.                                        *)
EXTENDS StageAdapter

CONSTANTS a, b, first, second
=============================================================================
