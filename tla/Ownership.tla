------------------------------ MODULE Ownership ------------------------------
(***************************************************************************)
(* What a job lease promises: a job has at most one owner, and it changes   *)
(* hands only through a moment without one.                                 *)
(***************************************************************************)
CONSTANT Workers
VARIABLE owners

Init == owners = {}

Take(w) == owners = {} /\ owners' = {w}
Drop == owners # {} /\ owners' = {}

Next == Drop \/ \E w \in Workers : Take(w)

Spec == Init /\ [][Next]_owners
=============================================================================
