----------------------------- MODULE ApplicationState -----------------------------
(***************************************************************************)
(* The queue and the presets kept from one session to the next             *)
(* (state_store.py), and what studio.py does around them: one primary file, *)
(* one backup, a load that repairs, and a queue saved again at closing.     *)
(***************************************************************************)
EXTENDS Integers

CONSTANTS
  MaxEdits,    \* bound on the changes of the list
  MaxCrashes,
  Faults       \* a subset of {"rot", "disk", "newer"}

VARIABLES
  what,        \* "queue" or "presets"
  primary,     \* the file: what it is, and the version of the list in it
  backup,      \* the .bak file
  memory,      \* version of the list in memory, 0 when it is empty
  pc,
  closing,
  saved,       \* version of the last save, or recovery, that completed
  before,      \* and of the one before it
  damaged,     \* storage damaged a file since
  thin,        \* the last save could not refresh the backup
  edits, crashes

vars == <<what, primary, backup, memory, pc, closing, saved, before, damaged, thin, edits, crashes>>
files   == <<primary, backup>>
history == <<saved, before, damaged, thin, edits, crashes>>

Absent == [is |-> "absent", list |-> 0]
Good(f) == f.is \in {"current", "legacy"}

\* A first start finds nothing, or the list an older version left.
Init ==
  /\ what \in {"queue", "presets"}
  /\ primary \in {Absent, [is |-> "legacy", list |-> 1]} /\ backup = Absent
  /\ memory = 0 /\ pc = "off" /\ closing = FALSE
  /\ saved = primary.list /\ before = 0
  /\ damaged = FALSE /\ thin = TRUE /\ edits = primary.list /\ crashes = 0

\* _load_queue and _load_custom_presets look at the primary before anything else.
Open ==
  /\ pc = "off"
  /\ memory' = 0 /\ closing' = FALSE
  /\ pc' = IF primary = Absent THEN "ready" ELSE "load"
  /\ UNCHANGED <<what, files, history>>

\* _load_with_backup: a future schema is refused, of an invalid primary the backup is tried.
Load ==
  /\ pc = "load"
  /\ \/ /\ Good(primary)
        /\ memory' = primary.list /\ pc' = IF primary.is = "legacy" THEN "backup" ELSE "ready"
     \/ /\ primary.is = "future" /\ pc' = "ready" /\ UNCHANGED memory
     \/ /\ primary.is = "bad"
        /\ IF Good(backup) THEN pc' = "aside" ELSE pc' = "ready"
        /\ UNCHANGED memory
  /\ UNCHANGED <<what, files, closing, history>>

\* The invalid file is kept as evidence, when it can be moved.
SetAside ==
  /\ pc = "aside"
  /\ primary' \in {Absent} \cup (IF "disk" \in Faults THEN {primary} ELSE {})
  /\ pc' = "restore"
  /\ UNCHANGED <<what, backup, memory, closing, history>>

\* The bytes of the backup become the primary; the recovered list is then saved again.
Restore ==
  /\ pc = "restore"
  /\ \/ /\ primary' = backup /\ memory' = backup.list /\ pc' = "backup"
        /\ saved' = backup.list /\ damaged' = FALSE
     \/ "disk" \in Faults /\ pc' = "ready" /\ UNCHANGED <<primary, memory, saved, damaged>>
  /\ UNCHANGED <<what, backup, closing, before, thin, edits, crashes>>

Edit ==
  /\ pc = "ready" /\ edits < MaxEdits
  /\ edits' = edits + 1 /\ memory' = edits + 1 /\ pc' = "backup"
  /\ UNCHANGED <<what, files, closing, saved, before, damaged, thin, crashes>>

\* _backup copies the bytes of the primary, whatever they are; its failure is ignored.
Backup ==
  /\ pc = "backup" /\ pc' = "write"
  /\ \/ /\ primary # Absent
        /\ backup' = primary /\ thin' = (primary.is = "bad" \/ primary.list # saved)
     \/ /\ primary = Absent \/ "disk" \in Faults
        /\ thin' = TRUE /\ UNCHANGED backup
  /\ UNCHANGED <<what, primary, memory, closing, saved, before, damaged, edits, crashes>>

Write ==
  /\ pc = "write"
  /\ \/ /\ primary' = [is |-> "current", list |-> memory]
        /\ saved' = memory /\ before' = saved
        /\ damaged' = (damaged /\ backup.is = "bad")
     \/ "disk" \in Faults /\ UNCHANGED <<primary, saved, before, damaged>>
  /\ pc' = IF closing THEN "off" ELSE "ready"
  /\ UNCHANGED <<what, backup, memory, closing, thin, edits, crashes>>

\* _on_close saves the queue once more; presets are saved only when one changes.
Close ==
  /\ pc = "ready"
  /\ closing' = TRUE /\ pc' = IF what = "queue" THEN "backup" ELSE "off"
  /\ UNCHANGED <<what, files, memory, history>>

Crash ==
  /\ pc # "off" /\ crashes < MaxCrashes
  /\ crashes' = crashes + 1 /\ pc' = "off"
  /\ UNCHANGED <<what, files, memory, closing, saved, before, damaged, thin, edits>>

Rot ==
  /\ "rot" \in Faults /\ pc = "off" /\ ~damaged
  /\ \/ Good(primary) /\ primary' = [primary EXCEPT !.is = "bad"] /\ UNCHANGED backup
     \/ Good(backup) /\ backup' = [backup EXCEPT !.is = "bad"] /\ UNCHANGED primary
  /\ damaged' = TRUE
  /\ UNCHANGED <<what, memory, pc, closing, saved, before, thin, edits, crashes>>

\* A newer CinePulse has run, changed the list and saved it with its own schema.
Newer ==
  /\ "newer" \in Faults /\ pc = "off" /\ Good(primary) /\ edits < MaxEdits
  /\ backup' = primary /\ primary' = [is |-> "future", list |-> edits + 1]
  /\ edits' = edits + 1 /\ saved' = edits + 1 /\ before' = saved
  /\ damaged' = FALSE /\ thin' = FALSE
  /\ UNCHANGED <<what, memory, pc, closing, crashes>>

Next == \/ Open \/ Load \/ SetAside \/ Restore \/ Edit \/ Backup \/ Write \/ Close
        \/ Crash \/ Rot \/ Newer

Spec == Init /\ [][Next]_vars

(* --------------------------- properties --------------------------- *)

Files == [is : {"absent", "current", "legacy", "future", "bad"}, list : 0 .. MaxEdits]
TypeOK ==
  /\ what \in {"queue", "presets"} /\ primary \in Files /\ backup \in Files
  /\ memory \in 0 .. MaxEdits /\ saved \in 0 .. MaxEdits /\ before \in 0 .. MaxEdits
  /\ pc \in {"off", "load", "aside", "restore", "backup", "write", "ready"}

Sound(f) == f.is \notin {"absent", "bad"}

\* At every moment, also in the middle of a save or of a recovery, a crash leaves a readable file
\* with the last list saved, or the one before when storage has damaged the newer file.
Recoverable ==
  saved # 0 /\ ~thin =>
    \/ Sound(primary) /\ primary.list = saved
    \/ Sound(backup) /\ backup.list \in {saved, before}

\* An undamaged file is what the next start shows.
LoadShowsSaved == pc = "load" /\ Good(primary) => memory' = saved \/ pc' = "off"
LastSaveShown == [][LoadShowsSaved]_vars

\* The document's word: a list of a newer version is never silently downgraded.  Does not hold: it
\* is refused by the load, and replaced by the empty list at closing.
NeverDowngraded == [][primary.is = "future" => primary' = primary]_vars

(* The inductive invariant (ComponentProofs): only damage takes away the primary, a recovery runs *)
(* from a readable backup, and a save that could refresh the backup has the last list in it       *)
(* before it writes the next one.                                                                 *)
Shape ==
  /\ TypeOK /\ edits \in 0 .. MaxEdits /\ damaged \in BOOLEAN /\ thin \in BOOLEAN
  /\ \A f \in {primary, backup} : f.is = "absent" => f = Absent
Undamaged ==
  ~damaged => /\ primary.is # "bad" /\ backup.is # "bad"
              /\ saved # 0 => Sound(primary)
              /\ saved # 0 /\ ~thin => Sound(backup) /\ backup.list \in {saved, before}
Recovering ==
  /\ pc \in {"aside", "restore"} => Good(backup)
  /\ pc = "aside" => primary.is = "bad"
  /\ pc = "write" /\ ~thin => Sound(backup) /\ backup.list = saved
Inv == Shape /\ Undamaged /\ Recovering /\ Recoverable /\ (Sound(primary) => primary.list = saved)
================================================================================
