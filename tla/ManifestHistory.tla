--------------------------- MODULE ManifestHistory ---------------------------
(***************************************************************************)
(* What the manifest store promises: a job has one current manifest, which  *)
(* moves on one legal revision at a time, and only once the revision it     *)
(* leaves is covered by the backup.  Losing the current one falls back to   *)
(* what the backup covers, never further and never to nothing.              *)
(***************************************************************************)
EXTENDS RenderJob

CONSTANTS Writers, None
VARIABLES current, covered

Init == current = None /\ covered = None

Create == /\ current = None
          /\ \E w \in Writers : current' = NewManifest(w)
          /\ UNCHANGED covered

Cover == /\ current # None
         /\ covered' = current
         /\ UNCHANGED current

Publish == /\ current # None
           /\ covered = current
           /\ \E w \in Writers : current' \in Successors(current, w)
           /\ UNCHANGED covered

LoseCurrent == /\ covered # None
               /\ current' = covered
               /\ UNCHANGED covered

LoseCovered == /\ current # None
               /\ covered' = None
               /\ UNCHANGED current

Next == Create \/ Cover \/ Publish \/ LoseCurrent \/ LoseCovered

Spec == Init /\ [][Next]_<<current, covered>>
=============================================================================
