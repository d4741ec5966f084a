------------------------------- MODULE MCStudio -------------------------------
(* Instances of Studio for TLC.                                              *)
EXTENDS Studio

MCOutputs == 1 .. MaxItems + 1
MCLives   == 1 .. MaxLives
=============================================================================
