------------------------------- MODULE JobStore -------------------------------
(***************************************************************************)
(* The durable manifest of a job: job_store.py on top of the machine-wide   *)
(* path transaction of path_transaction.py.  One manifest.json with its     *)
(* manifest.json.bak, used by several processes; the model has a step for   *)
(* every file operation, so that a process may die between any two.         *)
(*                                                                          *)
(* The transaction is reentrant and held by the outermost call; the kernel  *)
(* releases it when its holder dies.  An atomic write (temporary, fsync,    *)
(* replace) is one step.  Within one transaction the files change only by   *)
(* the holder's hand: storage damages a file at rest, and never the second  *)
(* one before the first is repaired.                                        *)
(***************************************************************************)
EXTENDS RenderJob, FiniteSets

CONSTANTS Procs,
          Creator,   \* the one that initializes the job
          Savers,    \* those that call save() with a manifest read earlier
          MayCrash,
          Rot,       \* the files storage may damage
          DiskFull,  \* may a write fail
          MaxRev,    \* bound on the revisions of a run
          NoFile, Bad, Nobody

ASSUME StoreAssumption ==
    /\ Creator \in Procs
    /\ Savers \subseteq Procs
    /\ MayCrash \subseteq Procs
    /\ Rot \subseteq {"primary", "backup"}
    /\ DiskFull \in BOOLEAN
    /\ MaxRev \in Nat
    /\ Nobody \notin Procs
    /\ NoFile # Bad
    /\ {NoFile, Bad} \cap Manifests(Procs) = {}

VARIABLES primary, backup,  \* manifest.json and its .bak
          mutex,            \* who is inside path_mutation_transaction
          op, pc,           \* the call a process makes and where it is in it
          base,             \* the manifest it has read and will build upon
          draft             \* the manifest it wants to store

vars == <<primary, backup, mutex, op, pc, base, draft>>

Manifest == Manifests(Procs)
Valid(f) == f \notin {NoFile, Bad}

Calls == {"create", "load", "peek", "update", "save"}
Inside == {"make", "read", "aside", "restore", "mutate", "check", "backup",
           "promote", "confirm"}

At(p, loc) == pc[p] = loc
Goto(p, loc) == pc' = [pc EXCEPT ![p] = loc]

(* The call returns m or raises; only those that save() keep what they read. *)
Return(p, m) ==
    /\ Goto(p, "idle")
    /\ mutex' = IF mutex = p THEN Nobody ELSE mutex
    /\ base' = [base EXCEPT ![p] = IF p \in Savers THEN m ELSE NoFile]
    /\ draft' = [draft EXCEPT ![p] = NoFile]
Raise(p) == Return(p, base[p])

-----------------------------------------------------------------------------
Init == /\ primary = NoFile
        /\ backup = NoFile
        /\ mutex = Nobody
        /\ op = [p \in Procs |-> "load"]
        /\ pc = [p \in Procs |-> "idle"]
        /\ base = [p \in Procs |-> NoFile]
        /\ draft = [p \in Procs |-> NoFile]

(* A job is initialized by one process, in a fresh directory; save() takes a *)
(* manifest the caller derived from one it got earlier.                      *)
Call(p, c) ==
    /\ At(p, "idle")
    /\ c = "create" => p = Creator /\ primary = NoFile /\ backup = NoFile
    /\ IF c = "save"
       THEN /\ p \in Savers /\ Valid(base[p]) /\ base[p].rev < MaxRev
            /\ \E m \in Successors(base[p], p) : draft' = [draft EXCEPT ![p] = m]
       ELSE UNCHANGED draft
    /\ op' = [op EXCEPT ![p] = c]
    /\ Goto(p, "enter")
    /\ UNCHANGED <<primary, backup, mutex, base>>

Enter(p) ==
    /\ At(p, "enter") /\ mutex = Nobody
    /\ mutex' = p
    /\ Goto(p, IF op[p] = "create" THEN "make" ELSE "read")
    /\ UNCHANGED <<primary, backup, op, base, draft>>

(* TimeoutError: somebody else has kept the transaction for 30 s.            *)
EnterTimesOut(p) ==
    /\ At(p, "enter") /\ mutex # Nobody
    /\ Raise(p)
    /\ UNCHANGED <<primary, backup, op>>

(* create: refused if the primary exists, whatever the backup is.            *)
Make(p) ==
    /\ At(p, "make")
    /\ IF primary = NoFile
       THEN /\ primary' = NewManifest(p)
            /\ Goto(p, "confirm")
            /\ UNCHANGED <<mutex, base, draft>>
       ELSE /\ Raise(p)
            /\ UNCHANGED primary
    /\ UNCHANGED <<backup, op>>

(* The parse that starts load, peek, update and save.                        *)
ReadPrimary(p) ==
    /\ At(p, "read") /\ Valid(primary)
    /\ \/ /\ op[p] \in {"load", "peek"}
          /\ Return(p, primary)
       \/ /\ op[p] = "update"
          /\ base' = [base EXCEPT ![p] = primary]
          /\ Goto(p, "mutate")
          /\ UNCHANGED <<mutex, draft>>
       \/ /\ op[p] = "save"
          /\ Goto(p, "check")
          /\ UNCHANGED <<mutex, base, draft>>
    /\ UNCHANGED <<primary, backup, op>>

(* peek answers from the backup and touches nothing.                         *)
PeekBackup(p) ==
    /\ At(p, "read") /\ ~Valid(primary) /\ Valid(backup)
    /\ op[p] = "peek"
    /\ Return(p, backup)
    /\ UNCHANGED <<primary, backup, op>>

(* load has found a damaged or missing primary and a good backup.            *)
BeginRepair(p) ==
    /\ At(p, "read") /\ ~Valid(primary) /\ Valid(backup)
    /\ op[p] # "peek"
    /\ Goto(p, IF primary = NoFile THEN "restore" ELSE "aside")
    /\ UNCHANGED <<primary, backup, mutex, op, base, draft>>

(* ManifestStoreError: neither file can be read.                             *)
ReadFails(p) ==
    /\ At(p, "read") /\ ~Valid(primary) /\ ~Valid(backup)
    /\ Raise(p)
    /\ UNCHANGED <<primary, backup, op>>

(* The damaged primary is kept as evidence, unless the rename fails.         *)
SetAside(p) ==
    /\ At(p, "aside")
    /\ primary' \in {NoFile, primary}
    /\ Goto(p, "restore")
    /\ UNCHANGED <<backup, mutex, op, base, draft>>

Restore(p) ==
    /\ At(p, "restore")
    /\ primary' = backup
    /\ Goto(p, "read")
    /\ UNCHANGED <<backup, mutex, op, base, draft>>

(* update: the mutator derives a new manifest, or raises.                    *)
Mutate(p) ==
    /\ At(p, "mutate") /\ base[p].rev < MaxRev
    /\ \E m \in Successors(base[p], p) : draft' = [draft EXCEPT ![p] = m]
    /\ Goto(p, "check")
    /\ UNCHANGED <<primary, backup, mutex, op, base>>

MutatorRaises(p) ==
    /\ At(p, "mutate")
    /\ Raise(p)
    /\ UNCHANGED <<primary, backup, op>>

(* Mutant: the expected revision is not compared.                            *)
CheckRevisionNever(p) ==
    /\ At(p, "check")
    /\ Goto(p, "backup")
    /\ UNCHANGED <<primary, backup, mutex, op, base, draft>>

(* save: ManifestConflict unless the current revision is the expected one.   *)
CheckRevision(p) ==
    /\ At(p, "check")
    /\ IF primary.rev = base[p].rev /\ draft[p].rev = primary.rev + 1
       THEN Goto(p, "backup") /\ UNCHANGED <<mutex, base, draft>>
       ELSE Raise(p)
    /\ UNCHANGED <<primary, backup, op>>

(* Mutants: the new manifest goes to the backup; the backup is made once.    *)
WriteBackupOfDraft(p) ==
    /\ At(p, "backup")
    /\ backup' = draft[p]
    /\ Goto(p, "promote")
    /\ UNCHANGED <<primary, mutex, op, base, draft>>

WriteBackupOnce(p) ==
    /\ At(p, "backup")
    /\ backup' = IF backup = NoFile THEN primary ELSE backup
    /\ Goto(p, "promote")
    /\ UNCHANGED <<primary, mutex, op, base, draft>>

WriteBackup(p) ==
    /\ At(p, "backup")
    /\ backup' = IF primary = NoFile THEN backup ELSE primary
    /\ Goto(p, "promote")
    /\ UNCHANGED <<primary, mutex, op, base, draft>>

Promote(p) ==
    /\ At(p, "promote")
    /\ primary' = draft[p]
    /\ Goto(p, "confirm")
    /\ UNCHANGED <<backup, mutex, op, base, draft>>

(* create and save re-read what they have promoted and return it.            *)
Confirm(p) ==
    /\ At(p, "confirm")
    /\ Return(p, primary)
    /\ UNCHANGED <<primary, backup, op>>

(* An atomic write fails before its replace: the call raises.                *)
WriteFails(p) ==
    /\ DiskFull
    /\ pc[p] \in {"make", "restore", "backup", "promote"}
    /\ Raise(p)
    /\ UNCHANGED <<primary, backup, op>>

Crash(p) ==
    /\ p \in MayCrash /\ ~At(p, "idle")
    /\ Return(p, NoFile)
    /\ UNCHANGED <<primary, backup, op>>

DamagePrimary ==
    /\ "primary" \in Rot /\ mutex = Nobody
    /\ Valid(primary) /\ Valid(backup)
    /\ primary' = Bad
    /\ UNCHANGED <<backup, mutex, op, pc, base, draft>>

DamageBackup ==
    /\ "backup" \in Rot /\ mutex = Nobody
    /\ Valid(primary) /\ Valid(backup)
    /\ backup' = Bad
    /\ UNCHANGED <<primary, mutex, op, pc, base, draft>>

-----------------------------------------------------------------------------
Load(p) == ReadPrimary(p) \/ PeekBackup(p) \/ BeginRepair(p) \/ ReadFails(p)
           \/ SetAside(p) \/ Restore(p)

Save(p) == Mutate(p) \/ MutatorRaises(p) \/ CheckRevision(p) \/ WriteBackup(p)
           \/ Promote(p) \/ Confirm(p)

Step(p) == Enter(p) \/ EnterTimesOut(p) \/ Make(p) \/ Load(p) \/ Save(p)
           \/ WriteFails(p)

Next == \/ \E p \in Procs : Step(p) \/ Crash(p)
        \/ \E p \in Procs, c \in Calls : Call(p, c)
        \/ DamagePrimary
        \/ DamageBackup

Spec == Init /\ [][Next]_vars

-----------------------------------------------------------------------------
TypeOK ==
    /\ primary \in Manifest \cup {NoFile, Bad}
    /\ backup \in Manifest \cup {NoFile, Bad}
    /\ mutex \in Procs \cup {Nobody}
    /\ op \in [Procs -> Calls]
    /\ pc \in [Procs -> {"idle", "enter"} \cup Inside]
    /\ base \in [Procs -> Manifest \cup {NoFile}]
    /\ draft \in [Procs -> Manifest \cup {NoFile}]

(* A manifest that has been covered by a backup stays readable whatever      *)
(* process dies in the middle of whatever step, repairs included, and the    *)
(* backup never lags more than one revision behind the primary.              *)
OneRevisionBack ==
    /\ backup # NoFile => Valid(primary) \/ Valid(backup)
    /\ Valid(primary) /\ Valid(backup) => primary.rev - backup.rev \in {0, 1}

(* JobStore's docstring: "CAS/revision checks remain mandatory so stale      *)
(* callers are rejected".  What a save or an update replaces is the very     *)
(* manifest its caller derived the new one from.                             *)
StaleSaverRejected ==
    [][\A p \in Procs : Promote(p) => primary = base[p]]_vars

(* The store implements its promise: what a reader gets is the primary, or   *)
(* the backup when the primary cannot be read.                               *)
Readable == IF Valid(primary) THEN primary
            ELSE IF Valid(backup) THEN backup ELSE NoFile
Covered == IF Valid(backup) THEN backup ELSE NoFile

History == INSTANCE ManifestHistory
           WITH Writers <- Procs, None <- NoFile,
                current <- Readable, covered <- Covered
HistoryHolds == History!Spec
=============================================================================
