--------------------------- MODULE ComponentInstall ---------------------------
(***************************************************************************)
(* Installing an optional component (experimental_components.py,           *)
(* component_manager.py, Install-VerifiedArchive in Start-CinePulse.ps1):   *)
(* a model file is downloaded with resumption and checked against the       *)
(* catalogue; an archive is unpacked aside and swapped with the installed   *)
(* tree, which is kept as ".previous" until the new one has its marker.     *)
(***************************************************************************)
EXTENDS Integers, Sequences, FiniteSets

CONSTANTS
  Versions,     \* the catalogue may pin another one after an update
  SizeOf,       \* blocks of each version's model file
  MaxCrashes,
  MaxCalls,
  Faults        \* a subset of {"network", "corrupt", "disk", "tamper"}

VARIABLES
  wanted,       \* the version the catalogue pins
  asset,        \* the model file, << >> when absent: the version of each block
  part,         \* its ".part"
  current, previous, \* the installed tree and ".previous": see Tree
  pc, result,
  before,       \* the tree that was installed when this call began
  calls, crashes

vars == <<wanted, asset, part, current, previous, pc, result, before, calls, crashes>>
files == <<asset, part>>
trees == <<current, previous>>

\* marker: the version the marker in the tree vouches for; spoiled: the files are no
\* longer those that were unpacked.
Tree(v, m) == [version |-> v, marker |-> m, spoiled |-> FALSE]
NoTree == Tree("none", "none")
Trees  == {NoTree} \cup [version: Versions, marker: Versions \cup {"none"}, spoiled: BOOLEAN]

Whole(v) == [b \in 1..SizeOf[v] |-> v]

Init ==
  /\ wanted \in Versions
  /\ asset = << >> /\ part = << >>
  /\ \E v \in Versions \cup {"none"} : current = Tree(v, v)
  /\ before = current /\ previous = NoTree
  /\ pc = "idle" /\ result = "none"
  /\ calls = 0 /\ crashes = 0

Goto(step) == pc' = step /\ UNCHANGED <<wanted, result, before, calls, crashes>>
End(r) == pc' = "idle" /\ result' = r /\ UNCHANGED <<wanted, before, calls, crashes>>

Install ==
  /\ pc = "idle" /\ calls < MaxCalls
  /\ calls' = calls + 1 /\ result' = "none" /\ before' = current
  /\ pc' = "asset"
  /\ UNCHANGED <<wanted, files, trees, crashes>>

(***************************************************************************)
(* _download.                                                              *)
(***************************************************************************)
HaveAsset ==
  /\ pc = "asset" /\ asset = Whole(wanted)
  /\ Goto("archive") /\ UNCHANGED <<files, trees>>

\* A file that is not the pinned one goes first; so does a partial that is too long.
Request ==
  /\ pc = "asset" /\ asset # Whole(wanted)
  /\ asset' = << >>
  /\ LET kept == IF Len(part) > SizeOf[wanted] THEN << >> ELSE part
     IN /\ kept # << >> => Len(kept) < SizeOf[wanted]   \* else the server refuses the range
        \* The server may ignore the range and send everything.
        /\ part' \in {kept, << >>}
  /\ Goto("receive") /\ UNCHANGED trees

RangeRefused ==
  /\ pc = "asset" /\ asset # Whole(wanted) /\ Len(part) = SizeOf[wanted]
  /\ asset' = << >>
  /\ End("failed") /\ UNCHANGED <<part, trees>>

Receive ==
  /\ pc = "receive" /\ Len(part) < SizeOf[wanted]
  /\ \E block \in {wanted} \cup (IF "corrupt" \in Faults THEN {"bad"} ELSE {}) :
       part' = Append(part, block)
  /\ Goto("receive") /\ UNCHANGED <<asset, trees>>

\* A connection that breaks leaves the partial; one that ends early, or sends too
\* much, takes it away.
NetworkFails ==
  /\ pc = "receive" /\ "network" \in Faults
  /\ \/ UNCHANGED part
     \/ part' = << >>
  /\ End("failed") /\ UNCHANGED <<asset, trees>>

\* Mutant: the size alone is checked.
CheckAssetSize ==
  /\ pc = "receive" /\ Len(part) = SizeOf[wanted]
  /\ part' = << >> /\ asset' = part /\ Goto("archive")
  /\ UNCHANGED trees

CheckAsset ==
  /\ pc = "receive" /\ Len(part) = SizeOf[wanted]
  /\ part' = << >>
  /\ IF part = Whole(wanted) THEN asset' = part /\ Goto("archive")
                             ELSE asset' = asset /\ End("failed")
  /\ UNCHANGED trees

(***************************************************************************)
(* _install_archive.  The archive is downloaded and unpacked in a           *)
(* directory of this call.                                                  *)
(***************************************************************************)
\* The marker holds a fingerprint of the whole tree, which is computed again.
Trusted == current = Tree(wanted, wanted)

HaveArchive ==
  /\ pc = "archive" /\ Trusted
  /\ End("done") /\ UNCHANGED <<files, trees>>

Unpack ==
  /\ pc = "archive" /\ ~Trusted
  /\ Goto("discard") /\ UNCHANGED <<files, trees>>

UnpackFails ==
  /\ pc = "archive" /\ ~Trusted /\ Faults \cap {"network", "corrupt", "disk"} # {}
  /\ End("failed") /\ UNCHANGED <<files, trees>>

DiscardPrevious ==
  /\ pc = "discard"
  /\ previous' = NoTree
  /\ Goto("setaside") /\ UNCHANGED <<files, current>>

SetAside ==
  /\ pc = "setaside"
  /\ previous' = current /\ current' = NoTree
  /\ Goto("promote") /\ UNCHANGED files

Promote ==
  /\ pc = "promote"
  /\ current' = Tree(wanted, "none")
  /\ Goto("mark") /\ UNCHANGED <<files, previous>>

Mark ==
  /\ pc = "mark"
  /\ current' = Tree(wanted, wanted)
  /\ Goto("finish") /\ UNCHANGED <<files, previous>>

Finish ==
  /\ pc = "finish"
  /\ previous' = NoTree
  /\ End("done") /\ UNCHANGED <<files, current>>

\* Before the tree is set aside a failure changes nothing more.
FailsBefore ==
  /\ pc \in {"discard", "setaside"} /\ "disk" \in Faults
  /\ End("failed") /\ UNCHANGED <<files, trees>>

\* After that what has been put in place is removed and the old tree comes back,
\* with its marker.
RollBack ==
  /\ pc \in {"promote", "mark"} /\ "disk" \in Faults
  /\ current' = previous /\ previous' = NoTree
  /\ End("failed") /\ UNCHANGED files

Crash ==
  /\ pc # "idle" /\ crashes < MaxCrashes
  /\ pc' = "idle" /\ result' = "crashed" /\ crashes' = crashes + 1
  /\ UNCHANGED <<wanted, files, trees, before, calls>>

NewCatalogue ==
  /\ pc = "idle"
  /\ wanted' \in Versions \ {wanted}
  /\ result' = "none"
  /\ UNCHANGED <<files, trees, pc, before, calls, crashes>>

Tamper ==
  /\ pc = "idle" /\ "tamper" \in Faults /\ current # NoTree /\ ~current.spoiled
  /\ current' = [current EXCEPT !.spoiled = TRUE] /\ result' = "none"
  /\ UNCHANGED <<wanted, files, previous, pc, before, calls, crashes>>

Next ==
  \/ Install \/ HaveAsset \/ Request \/ RangeRefused \/ Receive \/ NetworkFails \/ CheckAsset
  \/ HaveArchive \/ Unpack \/ UnpackFails \/ DiscardPrevious \/ SetAside \/ Promote \/ Mark
  \/ Finish \/ FailsBefore \/ RollBack \/ Crash \/ NewCatalogue \/ Tamper

Spec == Init /\ [][Next]_vars

(***************************************************************************)
(* Properties.                                                             *)
(***************************************************************************)
TypeOK ==
  /\ wanted \in Versions
  /\ {asset, part} \subseteq Seq(Versions \cup {"bad"})
  /\ {current, previous, before} \subseteq Trees
  /\ pc \in {"idle", "asset", "receive", "archive", "discard", "setaside", "promote", "mark", "finish"}
  /\ result \in {"none", "done", "failed", "crashed"}
  /\ calls \in 0..MaxCalls /\ crashes \in 0..MaxCrashes

\* An installation that succeeds has left what the catalogue pins, whatever earlier
\* calls left half done: every block of the model file, and an unaltered tree under
\* its marker.
DoneIsPinned == result = "done" => asset = Whole(wanted) /\ Trusted

\* One that fails has left the installed tree as it was ("nada foi instalado"), even
\* after an earlier call was killed.
FailedKeepsTree == result = "failed" => current = before

\* A component that is installed is never without a whole tree, set aside or in
\* place; only a killed call, which leaves it set aside, followed by another call,
\* which discards it first, can lose both.
TreeKept == before # NoTree /\ crashes = 0 => {current, previous} # {NoTree}

\* A partial model file mixes versions only if the catalogue changed; it is never
\* installed.
AssetIsWhole == asset # << >> => \E v \in Versions : asset = Whole(v)

(* The inductive invariant (ComponentProofs): until the tree is set aside it is the one this call *)
(* found, then ".previous" is; the model file is the pinned one from the archive on.              *)
Kept ==
  /\ pc \in {"asset", "receive", "archive", "discard", "setaside"} => current = before
  /\ pc \in {"promote", "mark"} => previous = before
  /\ pc = "idle" /\ crashes = 0 /\ before # NoTree => current # NoTree
Placed ==
  /\ pc \in {"archive", "discard", "setaside", "promote", "mark", "finish"} => asset = Whole(wanted)
  /\ pc = "mark" => current = Tree(wanted, "none")
  /\ pc = "finish" => Trusted
  /\ pc # "idle" => result = "none"
Inv == TypeOK /\ Kept /\ Placed /\ DoneIsPinned /\ FailedKeepsTree /\ TreeKept /\ AssetIsWhole
===============================================================================
