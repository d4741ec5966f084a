------------------------------ MODULE MCJobLease ------------------------------
(* Instances of JobLease for TLC.                                            *)
EXTENDS JobLease

CONSTANTS a, b, c, here, there

OneHost  == [w \in Workers |-> here]
TwoHosts == [w \in Workers |-> IF w = a THEN there ELSE here]
OwnPids  == [w \in Workers |-> w]
Recycle  == [w \in Workers |-> IF w = c THEN a ELSE w]  \* c reuses the pid of a
=============================================================================
