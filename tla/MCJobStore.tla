------------------------------ MODULE MCJobStore ------------------------------
(* Instances of JobStore for TLC.                                            *)
EXTENDS JobStore

CONSTANTS a, b
=============================================================================
