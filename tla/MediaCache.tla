------------------------------- MODULE MediaCache -------------------------------
(***************************************************************************)
(* The media cache shared by the renders of a user (studio.py,               *)
(* storage_engine.py): the enhanced master of Real-ESRGAN, the stems of      *)
(* Demucs and their mix, published by rename and pruned to a quota, by       *)
(* renders of several processes that are killed anywhere.                    *)
(***************************************************************************)
EXTENDS Integers, FiniteSets, FiniteSetsExt

CONSTANTS
  Renders,     \* processes with one render each
  Stems,       \* DEMUX_STEMS
  Quota,       \* of the cache, in files
  MaxStarts,
  Faults       \* a subset of {"disk", "demucs", "kill"}

VARIABLES
  target,      \* stems in the final directory; none when there is none
  staged,      \* render -> stems of its .demucs-partial directory
  displaced,   \* render -> stems of the directory it has moved aside
  left,        \* stems of directories moved aside by renders that were killed
  mixed,       \* the reactive mix
  master,      \* the enhanced master
  pc,
  want,        \* render -> the stems of its focus
  reading,     \* render -> files its later stages read
  pruned,      \* a prune has removed a stem
  starts

vars == <<target, staged, displaced, left, mixed, master, pc, want, reading, pruned, starts>>
stems == <<target, staged, displaced, left>>

\* The focus decides on one stem, or on a mix of several.
Wanted == {{s} : s \in Stems} \cup {Stems}
Mixes(r) == Cardinality(want[r]) > 1

Mix    == <<"mix", "", "">>
Master == <<"master", "", "">>

Init ==
  /\ target = {} /\ left = {} /\ mixed = FALSE /\ master = FALSE
  /\ staged = [r \in Renders |-> {}] /\ displaced = [r \in Renders |-> {}]
  /\ pc = [r \in Renders |-> "off"] /\ want \in [Renders -> Wanted]
  /\ reading = [r \in Renders |-> {}] /\ pruned = FALSE /\ starts = 0

Goto(r, label) == pc' = [pc EXCEPT ![r] = label]

(* --------------------------- the files --------------------------- *)

\* A file has a place, the render the place belongs to, and a name.
Under(place, owner, names) == {<<place, owner, s>> : s \in names}
Files ==
  Under("target", "", target) \cup Under("left", "", left)
    \cup (UNION {Under("staged", r, staged[r]) \cup Under("displaced", r, displaced[r]) : r \in Renders})
    \cup (IF mixed THEN {Mix} ELSE {}) \cup (IF master THEN {Master} ELSE {})

\* enforce_cache_quota: as many files as exceed the quota are removed, the protected ones excepted;
\* which are the oldest is left open.
Prunes(safe) ==
  LET free   == Files \ safe
      excess == Cardinality(Files) - Quota
  IN  IF excess <= 0 THEN {{}} ELSE kSubset(IF excess < Cardinality(free) THEN excess ELSE Cardinality(free), free)

Remove(D) ==
  /\ target' = {s \in target : <<"target", "", s>> \notin D}
  /\ left' = {s \in left : <<"left", "", s>> \notin D}
  /\ staged' = [r \in Renders |-> {s \in staged[r] : <<"staged", r, s>> \notin D}]
  /\ displaced' = [r \in Renders |-> {s \in displaced[r] : <<"displaced", r, s>> \notin D}]
  /\ mixed' = (mixed /\ Mix \notin D)
  /\ master' = (master /\ Master \notin D)
  /\ pruned' = (pruned \/ \E f \in D : f[3] \in Stems)

(* --------------------------- master and quota --------------------------- *)

\* The render prunes before it looks for anything; a start chooses the focus.
Start(r) ==
  /\ pc[r] = "off" /\ starts < MaxStarts
  /\ starts' = starts + 1
  /\ \E S \in Wanted : want' = [want EXCEPT ![r] = S]
  /\ \E D \in Prunes({}) : Remove(D)
  /\ reading' = [reading EXCEPT ![r] = {}]
  /\ Goto(r, "ai")

\* The entry is found whole, or is made and promoted; without Real-ESRGAN neither happens.
Enhance(r) ==
  /\ pc[r] = "ai"
  /\ \/ Goto(r, "locate") /\ UNCHANGED <<master, reading>>
     \/ /\ reading' = [reading EXCEPT ![r] = {Master}] /\ master' = TRUE
        /\ Goto(r, IF master THEN "locate" ELSE "prune")
  /\ UNCHANGED <<stems, mixed, want, pruned, starts>>

\* Mutant: the clip that has just been enhanced is not protected.
PruneAfterEnhanceAll(r) ==
  /\ pc[r] = "prune" /\ Goto(r, "locate")
  /\ \E D \in Prunes({}) : Remove(D)
  /\ UNCHANGED <<want, reading, starts>>

PruneAfterEnhance(r) ==
  /\ pc[r] = "prune" /\ Goto(r, "locate")
  /\ \E D \in Prunes({Master}) : Remove(D)
  /\ UNCHANGED <<want, reading, starts>>

(* --------------------------- stems --------------------------- *)

\* locate: the final directory, then whatever lies below the root but the partial directories.
Places(s) ==
  IF s \in target THEN {<<"target", "", s>>} ELSE {f \in Files : f[1] \in {"left", "displaced"} /\ f[3] = s}
Found(S) == \A s \in S : Places(s) # {}

Locate(r) ==
  /\ pc[r] = "locate"
  /\ Goto(r, IF Found(Stems) THEN "use" ELSE "separate")
  /\ UNCHANGED <<stems, mixed, master, want, reading, pruned, starts>>

\* Demucs leaves all the stems, or fewer when it is not as good as its exit code.
Separate(r) ==
  /\ pc[r] = "separate"
  /\ \/ staged' = [staged EXCEPT ![r] = Stems] /\ Goto(r, "check")
     \/ /\ "demucs" \in Faults
        /\ \E S \in SUBSET Stems : S # Stems /\ staged' = [staged EXCEPT ![r] = S]
        /\ Goto(r, "check")
  /\ UNCHANGED <<target, displaced, left, mixed, master, want, reading, pruned, starts>>

\* Mutant: the staging is not checked.
CheckNothing(r) ==
  /\ pc[r] = "check"
  /\ Goto(r, IF target = Stems THEN "clean" ELSE IF target = {} THEN "promote" ELSE "displace")
  /\ UNCHANGED <<stems, mixed, master, want, reading, pruned, starts>>

\* _promote_demucs_stem_cache: an incomplete staging is refused, a complete winner is kept.
Check(r) ==
  /\ pc[r] = "check"
  /\ Goto(r, IF staged[r] # Stems THEN "refuse" ELSE IF target = Stems THEN "clean"
             ELSE IF target = {} THEN "promote" ELSE "displace")
  /\ UNCHANGED <<stems, mixed, master, want, reading, pruned, starts>>

\* What is moved is what lies there now.
Displace(r) ==
  /\ pc[r] = "displace"
  /\ \/ /\ displaced' = [displaced EXCEPT ![r] = target] /\ target' = {}
        /\ Goto(r, "promote")
     \/ /\ "disk" \in Faults /\ Goto(r, IF target = Stems THEN "clean" ELSE "refuse")
        /\ UNCHANGED <<target, displaced>>
  /\ UNCHANGED <<staged, left, mixed, master, want, reading, pruned, starts>>

\* The rename fails on a directory that is not empty; a winner is kept, else the old one comes back.
Promote(r) ==
  /\ pc[r] = "promote"
  /\ \/ /\ target = {} /\ target' = staged[r] /\ staged' = [staged EXCEPT ![r] = {}]
        /\ Goto(r, "clean") /\ UNCHANGED displaced
     \/ /\ target # {} \/ "disk" \in Faults
        /\ IF target = {} THEN target' = displaced[r] /\ displaced' = [displaced EXCEPT ![r] = {}]
           ELSE UNCHANGED <<target, displaced>>
        /\ Goto(r, IF target = Stems THEN "clean" ELSE "refuse")
        /\ UNCHANGED staged
  /\ UNCHANGED <<left, mixed, master, want, reading, pruned, starts>>

\* The two finally blocks; a displaced directory stays when no complete one is in its place.
Clean(r) ==
  /\ pc[r] \in {"clean", "refuse"}
  /\ displaced' = [displaced EXCEPT ![r] = {}]
  /\ left' = IF pc[r] = "refuse" /\ target # Stems THEN left \cup displaced[r] ELSE left
  /\ staged' = [staged EXCEPT ![r] = {}]
  /\ Goto(r, IF pc[r] = "clean" THEN "use" ELSE "render")
  /\ UNCHANGED <<target, mixed, master, want, reading, pruned, starts>>

\* The stems of the focus are looked for again: one is read where it lies, several are mixed, and
\* a missing one leaves the render with the original audio.
Use(r) ==
  /\ pc[r] = "use"
  /\ \/ /\ ~Found(want[r]) /\ UNCHANGED <<mixed, reading>>
     \/ /\ Found(want[r]) /\ ~Mixes(r) /\ UNCHANGED mixed
        /\ \E f \in UNION {Places(s) : s \in want[r]} : reading' = [reading EXCEPT ![r] = @ \cup {f}]
     \/ /\ Found(want[r]) /\ Mixes(r) /\ mixed' = TRUE
        /\ reading' = [reading EXCEPT ![r] = @ \cup {Mix}]
  /\ Goto(r, "render")
  /\ UNCHANGED <<stems, master, want, pruned, starts>>

\* The visual effects read master and audio; a file that has gone fails the render.
Finish(r) ==
  /\ pc[r] = "render" /\ Goto(r, "off")
  /\ reading' = [reading EXCEPT ![r] = {}]
  /\ UNCHANGED <<stems, mixed, master, want, pruned, starts>>

\* What the render was separating stays below its partial directory until a prune: not kept here.
Kill(r) ==
  /\ pc[r] # "off" /\ Goto(r, "off")
  /\ left' = left \cup displaced[r] /\ displaced' = [displaced EXCEPT ![r] = {}]
  /\ staged' = [staged EXCEPT ![r] = {}] /\ reading' = [reading EXCEPT ![r] = {}]
  /\ UNCHANGED <<target, mixed, master, want, pruned, starts>>

Render(r) == \/ Start(r) \/ Enhance(r) \/ PruneAfterEnhance(r) \/ Locate(r) \/ Separate(r) \/ Check(r) \/ Displace(r)
             \/ Promote(r) \/ Clean(r) \/ Use(r) \/ Finish(r)
Next == \E r \in Renders : Render(r) \/ ("kill" \in Faults /\ Kill(r))

Spec == Init /\ [][Next]_vars

(* --------------------------- properties --------------------------- *)

Labels == {"off", "ai", "prune", "locate", "separate", "check", "displace", "promote", "clean", "refuse", "use",
           "render"}
TypeOK ==
  /\ target \subseteq Stems /\ left \subseteq Stems /\ mixed \in BOOLEAN /\ master \in BOOLEAN
  /\ staged \in [Renders -> SUBSET Stems] /\ displaced \in [Renders -> SUBSET Stems]
  /\ pc \in [Renders -> Labels] /\ want \in [Renders -> Wanted]

\* Whatever interleaving of renders, failing renames and kills: as long as no prune has taken a
\* stem, the published directory is complete or empty.
PublishedComplete == pruned \/ target \in {{}, Stems}

\* No step of a render removes a file this very render has chosen to read later: neither its prune
\* after Real-ESRGAN nor the removal of the directory it has displaced.
OwnFilesKept ==
  \A r \in Renders : pc'[r] # pc[r] /\ pc'[r] # "off" => reading[r] \cap Files \subseteq Files'
OwnFilesStay == [][OwnFilesKept]_vars

\* "without deleting a good winner": does not hold, the winner published between the check and the
\* rename is displaced and removed.
WinnerStays ==
  [][\A r \in Renders : pc[r] = "displace" => (target = Stems => target' = Stems)]_vars

(* The inductive invariant (ComponentProofs): what is moved to or from the published directory is *)
(* complete or nothing, and until a render uses its stems it reads no more than the master.       *)
Complete ==
  pruned \/ /\ target \in {{}, Stems}
            /\ \A r \in Renders :
                 /\ displaced[r] \in {{}, Stems}
                 /\ pc[r] \in {"displace", "promote"} => staged[r] = Stems
Readable == {Master, Mix} \cup ({"target", "left", "displaced"} \X ({""} \cup Renders) \X Stems)
ReadsMaster ==
  /\ reading \in [Renders -> SUBSET Readable]
  /\ \A r \in Renders : /\ pc[r] \in {"off", "ai"} => reading[r] = {}
                        /\ pc[r] # "render" => reading[r] \subseteq {Master}
Inv == TypeOK /\ Complete /\ ReadsMaster
================================================================================
