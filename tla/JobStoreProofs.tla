---------------------------- MODULE JobStoreProofs ----------------------------
(* Theorems about JobStore, for any set of processes and any bound.          *)
EXTENDS JobStore, TLAPS

(* What the holder of the transaction knows at each point of its call.       *)
Knows(p) ==
    /\ pc[p] \in Inside => mutex = p
    /\ pc[p] # "idle" /\ op[p] = "create" => p = Creator
    /\ pc[p] \in {"enter", "make"} /\ op[p] = "create" => primary = NoFile /\ backup = NoFile
    /\ pc[p] = "make" => op[p] = "create"
    /\ pc[p] # "idle" /\ op[p] = "save" => draft[p] # NoFile
    /\ pc[p] \in {"aside", "restore"} => ~Valid(primary) /\ Valid(backup)
    /\ pc[p] \in {"mutate", "check", "backup", "promote"} => Valid(primary)
    /\ pc[p] = "mutate" => base[p] = primary
    /\ pc[p] \in {"check", "backup", "promote"} => draft[p] # NoFile
    /\ pc[p] \in {"backup", "promote"} => draft[p].rev = primary.rev + 1
    /\ pc[p] = "promote" => backup = primary
    /\ pc[p] = "confirm" => Valid(primary)

StoreInv == OneRevisionBack /\ \A p \in Procs : Knows(p)

(* Nobody calls save() by hand: every new manifest is made inside an update, *)
(* from the manifest that update has just read.                              *)
OnlyUpdates == Savers = {}

Derived(p) ==
    /\ pc[p] # "idle" => op[p] # "save"
    /\ pc[p] \in {"check", "backup", "promote"}
           => base[p] = primary /\ draft[p] \in Successors(primary, p)

-----------------------------------------------------------------------------
(* What a save starts from when there is none is a manifest.                 *)
LEMMA NewIsManifest ==
    ASSUME NEW p \in Procs
    PROVE  NewManifest(p) \in Manifest
BY DEF NewManifest, Manifest, Manifests, JobStates

(* What a save writes is a manifest, one revision later.                     *)
LEMMA SuccessorIsManifest ==
    ASSUME NEW m \in Manifest, NEW p \in Procs, NEW n \in Successors(m, p)
    PROVE  n \in Manifest /\ n.rev = m.rev + 1
<1>1. PICK s \in NextStates(m.state) \cup {m.state} :
          n = [rev |-> m.rev + 1, state |-> s, by |-> p]
  BY DEF Successors
<1>2. m.state \in JobStates /\ m.rev \in Nat
  BY DEF Manifest, Manifests
<1>3. s \in JobStates
  BY <1>2 DEF NextStates
<1>4. QED
  BY <1>1, <1>2, <1>3 DEF Manifest, Manifests

(* Every manifest passes the validation of a load.                           *)
LEMMA ManifestIsValid ==
    ASSUME NEW m \in Manifest
    PROVE  Valid(m) /\ m # NoFile
BY StoreAssumption DEF Valid, Manifest

(* What passes the validation is a manifest, not a damaged file.             *)
LEMMA ValidIsManifest ==
    ASSUME TypeOK
    PROVE  /\ Valid(primary) => primary \in Manifest
           /\ Valid(backup) => backup \in Manifest
BY DEF Valid, TypeOK

(* A call that ends leaves its locals and the mutex well typed.              *)
LEMMA ReturnTypes ==
    ASSUME TypeOK, NEW p \in Procs, NEW m \in Manifest \cup {NoFile}, Return(p, m)
    PROVE  /\ mutex' \in Procs \cup {Nobody}
           /\ pc' \in [Procs -> {"idle", "enter"} \cup Inside]
           /\ base' \in [Procs -> Manifest \cup {NoFile}]
           /\ draft' \in [Procs -> Manifest \cup {NoFile}]
BY DEF Return, TypeOK, Goto

(* Every step keeps the shape of the files and of what each process holds.   *)
LEMMA TypeStep ==
    ASSUME TypeOK, StoreInv, [Next]_vars
    PROVE  TypeOK'
<1>a. ASSUME NEW p \in Procs, Raise(p), UNCHANGED <<primary, backup, op>> PROVE TypeOK'
  <2>1. base[p] \in Manifest \cup {NoFile}
    BY DEF TypeOK
  <2>2. QED BY <1>a, <2>1, ReturnTypes DEF Raise, TypeOK
<1>b. ASSUME NEW p \in Procs, NEW m \in Manifest, Return(p, m),
             UNCHANGED <<primary, backup, op>>
      PROVE  TypeOK'
  BY <1>b, ReturnTypes DEF TypeOK
<1> USE DEF Goto, Inside
<1>1. ASSUME NEW p \in Procs, Enter(p)         PROVE TypeOK' BY <1>1 DEF Enter, TypeOK
<1>2. ASSUME NEW p \in Procs, EnterTimesOut(p) PROVE TypeOK' BY <1>2, <1>a DEF EnterTimesOut
<1>3. ASSUME NEW p \in Procs, Make(p)          PROVE TypeOK'
  <2>1. CASE primary = NoFile
    BY <1>3, <2>1, NewIsManifest DEF Make, TypeOK
  <2>2. CASE primary # NoFile
    BY <1>3, <2>2, <1>a DEF Make
  <2>3. QED BY <2>1, <2>2
<1>4. ASSUME NEW p \in Procs, Load(p) PROVE TypeOK'
  <2>1. CASE ReadPrimary(p)
    <3>0. primary \in Manifest
      BY <2>1, ValidIsManifest DEF ReadPrimary
    <3>1. CASE op[p] \in {"load", "peek"}
      BY <2>1, <3>0, <3>1, <1>b DEF ReadPrimary
    <3>2. CASE op[p] \notin {"load", "peek"}
      BY <2>1, <3>0, <3>2 DEF ReadPrimary, TypeOK
    <3>3. QED BY <3>1, <3>2
  <2>2. CASE PeekBackup(p)
    BY <2>2, <1>b, ValidIsManifest DEF PeekBackup
  <2>3. CASE BeginRepair(p) BY <2>3 DEF BeginRepair, TypeOK
  <2>4. CASE ReadFails(p)   BY <2>4, <1>a DEF ReadFails
  <2>5. CASE SetAside(p)    BY <2>5 DEF SetAside, TypeOK
  <2>6. CASE Restore(p)     BY <2>6 DEF Restore, TypeOK
  <2>7. QED BY <1>4, <2>1, <2>2, <2>3, <2>4, <2>5, <2>6 DEF Load
<1>5. ASSUME NEW p \in Procs, Save(p) PROVE TypeOK'
  <2>1. CASE Mutate(p)
    <3>1. base[p] \in Manifest
      BY <2>1, ValidIsManifest DEF StoreInv, Knows, Mutate, At
    <3>2. \A m \in Successors(base[p], p) : m \in Manifest
      BY <3>1, SuccessorIsManifest
    <3>3. QED BY <2>1, <3>2 DEF Mutate, TypeOK
  <2>2. CASE MutatorRaises(p) BY <2>2, <1>a DEF MutatorRaises
  <2>3. CASE CheckRevision(p) BY <2>3, <1>a DEF CheckRevision, TypeOK
  <2>4. CASE WriteBackup(p)   BY <2>4 DEF WriteBackup, TypeOK
  <2>5. CASE Promote(p)       BY <2>5 DEF Promote, TypeOK
  <2>6. CASE Confirm(p)       BY <2>6, <1>b, ValidIsManifest DEF Confirm, At, StoreInv, Knows
  <2>7. QED BY <1>5, <2>1, <2>2, <2>3, <2>4, <2>5, <2>6 DEF Save
<1>6. ASSUME NEW p \in Procs, WriteFails(p) PROVE TypeOK' BY <1>6, <1>a DEF WriteFails
<1>7. ASSUME NEW p \in Procs, Crash(p)      PROVE TypeOK'
  BY <1>7, ReturnTypes DEF Crash, TypeOK
<1>8. ASSUME NEW p \in Procs, NEW c \in Calls, Call(p, c) PROVE TypeOK'
  <2>1. CASE c = "save"
    <3>1. base[p] \in Manifest
      BY <1>8, <2>1, StoreAssumption DEF TypeOK, Call, Valid
    <3>2. \A m \in Successors(base[p], p) : m \in Manifest
      BY <3>1, SuccessorIsManifest
    <3>3. QED BY <1>8, <2>1, <3>2 DEF Call, TypeOK
  <2>2. CASE c # "save" BY <1>8, <2>2 DEF Call, TypeOK
  <2>3. QED BY <2>1, <2>2
<1>9. CASE DamagePrimary BY <1>9 DEF DamagePrimary, TypeOK
<1>10. CASE DamageBackup BY <1>10 DEF DamageBackup, TypeOK
<1>11. CASE UNCHANGED vars BY <1>11 DEF vars, TypeOK
<1>12. QED
  BY <1>1, <1>2, <1>3, <1>4, <1>5, <1>6, <1>7, <1>8, <1>9, <1>10, <1>11 DEF Next, Step

-----------------------------------------------------------------------------
(* A step of p leaves the knowledge of every other process alone: whoever    *)
(* is outside the transaction knows only whether the job exists.             *)
LEMMA Bystander ==
    ASSUME NEW q \in Procs, Knows(q), pc[q] \notin Inside,
           pc'[q] = pc[q], op'[q] = op[q], draft'[q] = draft[q],
           pc[q] = "enter" /\ op[q] = "create" => primary' = NoFile /\ backup' = NoFile
    PROVE  Knows(q)'
BY DEF Knows, Inside

(* A process that returns knows what it read or wrote, and disturbs no other.*)
LEMMA ReturnKnows ==
    ASSUME TypeOK, NEW p \in Procs, NEW m, Return(p, m), op' = op
    PROVE  /\ Knows(p)'
           /\ \A q \in Procs \ {p} : pc'[q] = pc[q] /\ draft'[q] = draft[q]
BY DEF Return, Goto, Knows, TypeOK, Inside

(* Every step keeps the backup a revision behind, and what each process      *)
(* inside the lock knows of the files true.                                  *)
LEMMA KnowsStep ==
    ASSUME TypeOK, TypeOK', StoreInv, [Next]_vars
    PROVE  StoreInv'
<1> USE DEF Goto, At
<1>0. \A p \in Procs : Knows(p)
  BY DEF StoreInv
<1>1. /\ Valid(primary) => primary \in Manifest /\ primary # NoFile
      /\ Valid(backup) => backup \in Manifest /\ backup # NoFile
  BY ValidIsManifest, ManifestIsValid
<1>2. ASSUME NEW p \in Procs, pc[p] \in Inside, NEW q \in Procs \ {p}
      PROVE  pc[q] \notin Inside
  BY <1>2, <1>0 DEF Knows
<1>a. ASSUME NEW p \in Procs, NEW m, Return(p, m), UNCHANGED <<primary, backup, op>>
      PROVE  StoreInv'
  <2>1. ASSUME NEW q \in Procs \ {p} PROVE Knows(q)'
    <3>1. pc'[q] = pc[q] /\ draft'[q] = draft[q]
      BY <1>a, <2>1, ReturnKnows
    <3>2. mutex = q => mutex' = q
      BY <1>a DEF Return
    <3>3. base'[q] = base[q]
      BY <1>a DEF Return, TypeOK
    <3>4. Knows(q)
      BY <1>0
    <3>5. QED BY <1>a, <3>1, <3>2, <3>3, <3>4 DEF Knows
  <2>2. Knows(p)'
    BY <1>a, ReturnKnows
  <2>3. OneRevisionBack'
    BY <1>a DEF StoreInv, OneRevisionBack, Valid
  <2>4. QED BY <2>1, <2>2, <2>3 DEF StoreInv
<1>b. ASSUME NEW p \in Procs, Raise(p), UNCHANGED <<primary, backup, op>> PROVE StoreInv'
  BY <1>a, <1>b DEF Raise
<1>3. ASSUME NEW p \in Procs, Enter(p) PROVE StoreInv'
  <2>1. Knows(p)'
    BY <1>0, <1>3 DEF Enter, Knows, TypeOK, Inside
  <2>2. ASSUME NEW q \in Procs \ {p} PROVE Knows(q)'
    <3>1. pc[q] \notin Inside
      BY <1>0, <1>3, StoreAssumption DEF Enter, Knows
    <3>2. pc'[q] = pc[q]
      BY <1>3 DEF Enter, TypeOK
    <3>3. Knows(q)
      BY <1>0
    <3>4. QED BY <1>3, <3>1, <3>2, <3>3 DEF Enter, Knows, Inside
  <2>3. OneRevisionBack'
    BY <1>3 DEF Enter, StoreInv, OneRevisionBack, Valid
  <2>4. QED BY <2>1, <2>2, <2>3 DEF StoreInv
<1>4. ASSUME NEW p \in Procs, EnterTimesOut(p) PROVE StoreInv'
  BY <1>4, <1>b DEF EnterTimesOut
<1>5. ASSUME NEW p \in Procs, Make(p) PROVE StoreInv'
  <2>1. CASE primary = NoFile
    <3>1. op[p] = "create" /\ p = Creator /\ backup = NoFile /\ pc[p] \in Inside
      BY <1>0, <1>5 DEF Make, Knows, Inside
    <3>2. Valid(primary')
      BY <1>5, <2>1, NewIsManifest, ManifestIsValid DEF Make
    <3>3. Knows(p)'
      BY <1>0, <1>5, <2>1, <3>1, <3>2 DEF Make, Knows, TypeOK, Inside
    <3>4. ASSUME NEW q \in Procs \ {p} PROVE Knows(q)'
      <4>1. pc[q] \notin Inside /\ Knows(q)
        BY <1>0, <1>2, <3>1
      <4>2. ~(pc[q] = "enter" /\ op[q] = "create")
        BY <3>1, <4>1 DEF Knows
      <4>3. pc'[q] = pc[q] /\ op'[q] = op[q] /\ draft'[q] = draft[q]
        BY <1>5, <2>1 DEF Make, TypeOK
      <4>4. QED BY <4>1, <4>2, <4>3, Bystander
    <3>5. OneRevisionBack'
      BY <1>5, <2>1, <3>1 DEF Make, OneRevisionBack, Valid
    <3>6. QED BY <3>3, <3>4, <3>5 DEF StoreInv
  <2>2. CASE primary # NoFile
    BY <1>5, <2>2, <1>b DEF Make
  <2>3. QED BY <2>1, <2>2
(* Moving on inside the transaction without touching a file.                 *)
<1>c. ASSUME NEW p \in Procs, pc[p] \in Inside, NEW l \in Inside, Goto(p, l),
             UNCHANGED <<primary, backup, mutex, op>>,
             \A q \in Procs \ {p} : draft'[q] = draft[q],
             Knows(p)'
      PROVE  StoreInv'
  <2>1. ASSUME NEW q \in Procs \ {p} PROVE Knows(q)'
    <3>1. pc[q] \notin Inside /\ Knows(q)
      BY <1>0, <1>2, <1>c
    <3>2. pc'[q] = pc[q] /\ op'[q] = op[q] /\ draft'[q] = draft[q]
      BY <1>c DEF TypeOK
    <3>3. pc[q] = "enter" /\ op[q] = "create" => primary' = NoFile /\ backup' = NoFile
      BY <1>c, <3>1 DEF Knows
    <3>4. QED BY <3>1, <3>2, <3>3, Bystander
  <2>2. OneRevisionBack'
    BY <1>c DEF StoreInv, OneRevisionBack, Valid
  <2>3. QED BY <1>c, <2>1, <2>2 DEF StoreInv
(* Writing a file inside the transaction of a job that exists.               *)
<1>d. ASSUME NEW p \in Procs, pc[p] \in Inside, NEW l \in Inside, Goto(p, l),
             UNCHANGED <<mutex, op, base, draft>>,
             backup # NoFile \/ primary # NoFile,
             Knows(p)', OneRevisionBack'
      PROVE  StoreInv'
  <2>1. ASSUME NEW q \in Procs \ {p} PROVE Knows(q)'
    <3>1. pc[q] \notin Inside /\ Knows(q)
      BY <1>0, <1>2, <1>d
    <3>2. pc'[q] = pc[q] /\ op'[q] = op[q] /\ draft'[q] = draft[q]
      BY <1>d DEF TypeOK
    <3>3. ~(pc[q] = "enter" /\ op[q] = "create")
      BY <1>d, <3>1 DEF Knows
    <3>4. QED BY <3>1, <3>2, <3>3, Bystander
  <2>2. QED BY <1>d, <2>1 DEF StoreInv
<1>6. ASSUME NEW p \in Procs, Load(p) PROVE StoreInv'
  <2>1. CASE ReadPrimary(p)
    <3>1. CASE op[p] \in {"load", "peek"}
      BY <1>a, <2>1, <3>1 DEF ReadPrimary
    <3>2. CASE op[p] = "update"
      <4>1. Knows(p)'
        BY <1>0, <2>1, <3>2 DEF ReadPrimary, Knows, TypeOK, Inside
      <4>2. QED BY <1>c, <2>1, <3>2, <4>1 DEF ReadPrimary, Inside
    <3>3. CASE op[p] = "save"
      <4>1. Knows(p)'
        BY <1>0, <2>1, <3>3 DEF ReadPrimary, Knows, TypeOK, Inside
      <4>2. QED BY <1>c, <2>1, <3>3, <4>1 DEF ReadPrimary, Inside
    <3>4. QED BY <2>1, <3>1, <3>2, <3>3 DEF ReadPrimary
  <2>2. CASE PeekBackup(p)
    BY <1>a, <2>2 DEF PeekBackup
  <2>3. CASE BeginRepair(p)
    <3>1. Knows(p)'
      BY <1>0, <2>3 DEF BeginRepair, Knows, TypeOK, Inside
    <3>2. QED BY <1>c, <2>3, <3>1 DEF BeginRepair, Inside
  <2>4. CASE ReadFails(p)
    BY <1>b, <2>4 DEF ReadFails
  <2>5. CASE SetAside(p)
    <3>1. ~Valid(primary) /\ ~Valid(primary') /\ Valid(backup)
      BY <1>0, <2>5 DEF SetAside, Knows, Valid
    <3>2. Knows(p)'
      BY <1>0, <2>5, <3>1 DEF SetAside, Knows, TypeOK, Inside, Valid
    <3>3. OneRevisionBack'
      BY <2>5, <3>1 DEF SetAside, OneRevisionBack, Valid
    <3>4. QED BY <1>1, <1>d, <2>5, <3>1, <3>2, <3>3 DEF SetAside, Inside
  <2>6. CASE Restore(p)
    <3>1. Valid(backup) /\ backup \in Manifest
      BY <1>0, <1>1, <2>6 DEF Restore, Knows
    <3>2. Knows(p)'
      BY <1>0, <2>6, <3>1 DEF Restore, Knows, TypeOK, Inside
    <3>3. backup.rev - backup.rev = 0
      BY <3>1 DEF Manifest, Manifests
    <3>4. OneRevisionBack'
      BY <2>6, <3>1, <3>3 DEF Restore, OneRevisionBack, Valid
    <3>5. QED BY <1>1, <1>d, <2>6, <3>1, <3>2, <3>4 DEF Restore, Inside
  <2>7. QED BY <1>6, <2>1, <2>2, <2>3, <2>4, <2>5, <2>6 DEF Load
<1>7. ASSUME NEW p \in Procs, Save(p) PROVE StoreInv'
  <2>1. CASE Mutate(p)
    <3>1. base[p] \in Manifest
      BY <1>0, <1>1, <2>1 DEF Mutate, Knows
    <3>2. draft'[p] # NoFile
      BY <2>1, <3>1, SuccessorIsManifest, ManifestIsValid DEF Mutate, TypeOK
    <3>3. Knows(p)'
      BY <1>0, <2>1, <3>2 DEF Mutate, Knows, TypeOK, Inside
    <3>4. QED BY <1>c, <2>1, <3>3 DEF Mutate, Inside, TypeOK
  <2>2. CASE MutatorRaises(p)
    BY <1>b, <2>2 DEF MutatorRaises
  <2>3. CASE CheckRevision(p)
    <3>1. CASE primary.rev = base[p].rev /\ draft[p].rev = primary.rev + 1
      <4>1. Knows(p)'
        BY <1>0, <2>3, <3>1 DEF CheckRevision, Knows, TypeOK, Inside
      <4>2. QED BY <1>c, <2>3, <3>1, <4>1 DEF CheckRevision, Inside
    <3>2. CASE ~(primary.rev = base[p].rev /\ draft[p].rev = primary.rev + 1)
      BY <1>b, <2>3, <3>2 DEF CheckRevision
    <3>3. QED BY <3>1, <3>2
  <2>4. CASE WriteBackup(p)
    <3>1. Valid(primary) /\ primary \in Manifest /\ primary # NoFile
      BY <1>0, <1>1, <2>4 DEF WriteBackup, Knows
    <3>2. backup' = primary /\ primary' = primary
      BY <2>4, <3>1 DEF WriteBackup
    <3>3. Knows(p)'
      BY <1>0, <2>4, <3>1, <3>2 DEF WriteBackup, Knows, TypeOK, Inside
    <3>4. primary.rev - primary.rev = 0
      BY <3>1 DEF Manifest, Manifests
    <3>5. OneRevisionBack'
      BY <3>1, <3>2, <3>4 DEF OneRevisionBack, Valid
    <3>6. QED BY <1>d, <2>4, <3>1, <3>3, <3>5 DEF WriteBackup, Inside
  <2>5. CASE Promote(p)
    <3>1. /\ Valid(primary) /\ primary \in Manifest /\ primary # NoFile
          /\ draft[p] \in Manifest /\ draft[p].rev = primary.rev + 1 /\ backup = primary
      BY <1>0, <1>1, <2>5 DEF Promote, Knows, TypeOK
    <3>2. Valid(primary')
      BY <2>5, <3>1, ManifestIsValid DEF Promote
    <3>3. Knows(p)'
      BY <1>0, <2>5, <3>2 DEF Promote, Knows, TypeOK, Inside
    <3>4. draft[p].rev - primary.rev = 1
      BY <3>1 DEF Manifest, Manifests
    <3>5. OneRevisionBack'
      BY <2>5, <3>1, <3>2, <3>4 DEF Promote, OneRevisionBack, Valid
    <3>6. QED BY <1>d, <2>5, <3>1, <3>3, <3>5 DEF Promote, Inside
  <2>6. CASE Confirm(p)
    BY <1>a, <2>6 DEF Confirm
  <2>7. QED BY <1>7, <2>1, <2>2, <2>3, <2>4, <2>5, <2>6 DEF Save
<1>8. ASSUME NEW p \in Procs, WriteFails(p) PROVE StoreInv'
  BY <1>b, <1>8 DEF WriteFails
<1>9. ASSUME NEW p \in Procs, Crash(p) PROVE StoreInv'
  BY <1>a, <1>9 DEF Crash
<1>10. ASSUME NEW p \in Procs, NEW c \in Calls, Call(p, c) PROVE StoreInv'
  <2>1. c = "save" => draft'[p] # NoFile
    <3>1. SUFFICES ASSUME c = "save" PROVE draft'[p] # NoFile
      OBVIOUS
    <3>2. base[p] \in Manifest
      BY <1>10, <3>1, StoreAssumption DEF TypeOK, Call, Valid
    <3>3. QED
      BY <1>10, <3>1, <3>2, SuccessorIsManifest, ManifestIsValid DEF Call, TypeOK
  <2>2. Knows(p)'
    BY <1>0, <1>10, <2>1 DEF Call, Knows, TypeOK, Inside
  <2>3. ASSUME NEW q \in Procs \ {p} PROVE Knows(q)'
    <3>1. Knows(q)
      BY <1>0
    <3>2. pc'[q] = pc[q] /\ op'[q] = op[q] /\ draft'[q] = draft[q] /\ base'[q] = base[q]
      BY <1>10 DEF Call, TypeOK
    <3>3. UNCHANGED <<primary, backup, mutex>>
      BY <1>10 DEF Call
    <3>4. QED BY <3>1, <3>2, <3>3 DEF Knows
  <2>4. OneRevisionBack'
    BY <1>10 DEF Call, StoreInv, OneRevisionBack, Valid
  <2>5. QED BY <2>2, <2>3, <2>4 DEF StoreInv
(* Damage strikes while nobody is inside the transaction.                    *)
<1>e. ASSUME mutex = Nobody, UNCHANGED <<mutex, op, pc, base, draft>>,
             primary # NoFile, OneRevisionBack'
      PROVE  StoreInv'
  <2>1. ASSUME NEW q \in Procs PROVE Knows(q)'
    <3>1. pc[q] \notin Inside /\ Knows(q)
      BY <1>0, <1>e, StoreAssumption DEF Knows
    <3>2. ~(pc[q] = "enter" /\ op[q] = "create")
      BY <1>e, <3>1 DEF Knows
    <3>3. QED BY <1>e, <3>1, <3>2, Bystander
  <2>2. QED BY <1>e, <2>1 DEF StoreInv
<1>11. CASE DamagePrimary
  <2>1. OneRevisionBack'
    BY <1>11 DEF DamagePrimary, OneRevisionBack, Valid
  <2>2. QED BY <1>1, <1>11, <1>e, <2>1 DEF DamagePrimary
<1>12. CASE DamageBackup
  <2>1. OneRevisionBack'
    BY <1>12 DEF DamageBackup, OneRevisionBack, Valid
  <2>2. QED BY <1>1, <1>12, <1>e, <2>1 DEF DamageBackup
<1>13. CASE UNCHANGED vars
  BY <1>13 DEF vars, StoreInv, OneRevisionBack, Valid, Knows
<1>14. QED
  BY <1>3, <1>4, <1>5, <1>6, <1>7, <1>8, <1>9, <1>10, <1>11, <1>12, <1>13 DEF Next, Step

(* The types and the invariant of the store hold in every behaviour.         *)
LEMMA StoreInvariant == Spec => [](TypeOK /\ StoreInv)
<1>1. Init => TypeOK /\ StoreInv
  BY DEF Init, TypeOK, Calls, Inside, StoreInv, OneRevisionBack, Knows, Valid
<1>2. TypeOK /\ StoreInv /\ [Next]_vars => (TypeOK /\ StoreInv)'
  BY TypeStep, KnowsStep
<1>3. QED
  BY <1>1, <1>2, PTL DEF Spec

(* Every file holds a manifest, garbage or nothing, and every process is at  *)
(* a known point of a known call.                                            *)
THEOREM StoreTyping == Spec => []TypeOK
BY StoreInvariant, PTL

(* Whoever dies wherever, whichever write fails and whichever file at rest   *)
(* is damaged, a manifest once backed up stays readable and the backup is at *)
(* most one revision behind.  Stale savers included.                         *)
THEOREM OneRevisionBackHolds == Spec => []OneRevisionBack
<1>1. StoreInv => OneRevisionBack
  BY DEF StoreInv
<1>2. QED
  BY <1>1, StoreInvariant, PTL

-----------------------------------------------------------------------------
DerivedInv == \A p \in Procs : Derived(p)

(* If nobody saves by hand, each step keeps what is about to be written the  *)
(* successor of what was read.                                               *)
LEMMA DerivedStep ==
    ASSUME OnlyUpdates, TypeOK, StoreInv, DerivedInv, [Next]_vars
    PROVE  DerivedInv'
<1> USE DEF Goto, At
<1>0. \A p \in Procs : Knows(p) /\ Derived(p)
  BY DEF StoreInv, DerivedInv
<1>1. ASSUME NEW p \in Procs, pc[p] \in Inside, NEW q \in Procs \ {p}
      PROVE  pc[q] \notin Inside
  BY <1>0, <1>1 DEF Knows
<1>2. ASSUME NEW p \in Procs, Step(p), pc[p] \in Inside, NEW q \in Procs \ {p}
      PROVE  pc'[q] = pc[q] /\ op'[q] = op[q] /\ pc[q] \notin {"check", "backup", "promote"}
  <2>1. pc[q] \notin {"check", "backup", "promote"}
    BY <1>1, <1>2 DEF Inside
  <2>2. QED
    BY <1>2, <2>1 DEF Step, Enter, EnterTimesOut, Make, Load, Save, ReadPrimary,
       PeekBackup, BeginRepair, ReadFails, SetAside, Restore, Mutate, MutatorRaises,
       CheckRevision, WriteBackup, Promote, Confirm, WriteFails, Raise, Return, TypeOK
<1>3. ASSUME NEW p \in Procs, Step(p), pc[p] \in Inside, Derived(p)' PROVE DerivedInv'
  BY <1>0, <1>2, <1>3 DEF DerivedInv, Derived
<1>4. ASSUME NEW p \in Procs, NEW m, Return(p, m), UNCHANGED <<primary, backup, op>>
      PROVE  DerivedInv'
  BY <1>0, <1>4 DEF Return, DerivedInv, Derived, TypeOK
<1>5. ASSUME NEW p \in Procs, Step(p) PROVE DerivedInv'
  <2>1. CASE Enter(p)
    BY <1>0, <2>1 DEF Enter, DerivedInv, Derived, TypeOK
  <2>2. CASE EnterTimesOut(p) \/ ReadFails(p) \/ MutatorRaises(p) \/ WriteFails(p)
    BY <1>4, <2>2 DEF EnterTimesOut, ReadFails, MutatorRaises, WriteFails, Raise
  <2>3. CASE PeekBackup(p) \/ Confirm(p)
    BY <1>4, <2>3 DEF PeekBackup, Confirm
  <2>4. CASE Make(p)
    <3>1. Derived(p)'
      BY <1>0, <2>4 DEF Make, Raise, Return, Derived, TypeOK
    <3>2. QED BY <1>3, <1>5, <2>4, <3>1 DEF Make, Inside
  <2>5. CASE ReadPrimary(p)
    <3>1. CASE op[p] \in {"load", "peek"}
      BY <1>4, <2>5, <3>1 DEF ReadPrimary
    <3>2. CASE op[p] \notin {"load", "peek"}
      <4>1. Derived(p)'
        BY <1>0, <2>5, <3>2 DEF ReadPrimary, Derived, TypeOK
      <4>2. QED BY <1>3, <1>5, <2>5, <4>1 DEF ReadPrimary, Inside
    <3>3. QED BY <3>1, <3>2
  <2>6. CASE BeginRepair(p) \/ SetAside(p) \/ Restore(p)
    <3>1. Derived(p)'
      BY <1>0, <2>6 DEF BeginRepair, SetAside, Restore, Derived, TypeOK
    <3>2. QED BY <1>3, <1>5, <2>6, <3>1 DEF BeginRepair, SetAside, Restore, Inside
  <2>7. CASE Mutate(p)
    <3>1. base[p] = primary
      BY <1>0, <2>7 DEF Mutate, Knows
    <3>2. draft'[p] \in Successors(primary, p)
      BY <2>7, <3>1 DEF Mutate, TypeOK
    <3>3. Derived(p)'
      BY <1>0, <2>7, <3>1, <3>2 DEF Mutate, Derived, TypeOK
    <3>4. QED BY <1>3, <1>5, <2>7, <3>3 DEF Mutate, Inside
  <2>8. CASE CheckRevision(p)
    <3>1. Derived(p)'
      BY <1>0, <2>8 DEF CheckRevision, Raise, Return, Derived, TypeOK
    <3>2. QED BY <1>3, <1>5, <2>8, <3>1 DEF CheckRevision, Inside
  <2>9. CASE WriteBackup(p) \/ Promote(p)
    <3>1. Derived(p)'
      BY <1>0, <2>9 DEF WriteBackup, Promote, Derived, TypeOK
    <3>2. QED BY <1>3, <1>5, <2>9, <3>1 DEF WriteBackup, Promote, Inside
  <2>10. QED
    BY <1>5, <2>1, <2>2, <2>3, <2>4, <2>5, <2>6, <2>7, <2>8, <2>9 DEF Step, Load, Save
<1>6. ASSUME NEW p \in Procs, Crash(p) PROVE DerivedInv'
  BY <1>4, <1>6 DEF Crash
<1>7. ASSUME NEW p \in Procs, NEW c \in Calls, Call(p, c) PROVE DerivedInv'
  BY <1>0, <1>7 DEF Call, OnlyUpdates, DerivedInv, Derived, TypeOK
<1>8. CASE DamagePrimary \/ DamageBackup
  <2>1. \A p \in Procs : pc[p] \notin Inside
    BY <1>0, <1>8, StoreAssumption DEF DamagePrimary, DamageBackup, Knows
  <2>2. QED BY <1>0, <1>8, <2>1 DEF DamagePrimary, DamageBackup, DerivedInv, Derived, Inside
<1>9. CASE UNCHANGED vars
  BY <1>0, <1>9 DEF vars, DerivedInv, Derived
<1>10. QED
  BY <1>5, <1>6, <1>7, <1>8, <1>9 DEF Next

(* If nobody saves by hand, what is about to be written is always the        *)
(* successor of what was read.                                               *)
LEMMA DerivedInvariant == ASSUME OnlyUpdates PROVE Spec => []DerivedInv
<1>1. Init => DerivedInv
  BY DEF Init, DerivedInv, Derived
<1>2. TypeOK /\ StoreInv /\ DerivedInv /\ [Next]_vars => DerivedInv'
  BY DerivedStep
<1>3. QED
  BY <1>1, <1>2, StoreInvariant, PTL DEF Spec

(* What an update replaces is what its mutator was given.                    *)
THEOREM UpdatesAreCurrent == ASSUME OnlyUpdates PROVE Spec => StaleSaverRejected
<1>1. TypeOK /\ DerivedInv /\ [Next]_vars
          => [\A p \in Procs : Promote(p) => primary = base[p]]_vars
  BY DEF DerivedInv, Derived, Promote, At
<1>2. QED
  BY <1>1, DerivedInvariant, StoreTyping, PTL DEF Spec, StaleSaverRejected

(* The files of the store are a manifest history: legal revisions one at a   *)
(* time, each covered before it is left, and no loss beyond the covered one. *)
LEMMA HistoryInit == Init => History!Init
BY DEF Init, History!Init, Readable, Covered, Valid

(* A step of the store is a step of the abstract history or leaves it alone. *)
LEMMA HistoryStep ==
    ASSUME TypeOK, StoreInv, DerivedInv, [Next]_vars
    PROVE  [History!Next]_<<Readable, Covered>>
<1> USE DEF Goto, At
<1>0. \A p \in Procs : Knows(p) /\ Derived(p)
  BY DEF StoreInv, DerivedInv
<1>1. /\ Valid(primary) => primary # NoFile
      /\ Valid(backup) => backup # NoFile
  BY DEF Valid
<1>a. ASSUME UNCHANGED <<primary, backup>> PROVE UNCHANGED <<Readable, Covered>>
  BY <1>a DEF Readable, Covered, Valid
<1>2. ASSUME NEW p \in Procs, Step(p) PROVE [History!Next]_<<Readable, Covered>>
  <2>1. CASE Make(p) /\ primary = NoFile
    <3>1. backup = NoFile /\ primary' = NewManifest(p) /\ backup' = backup
      BY <1>0, <2>1 DEF Make, Knows
    <3>2. Valid(primary')
      BY <3>1, NewIsManifest, ManifestIsValid
    <3>3. History!Create
      BY <2>1, <3>1, <3>2 DEF History!Create, History!NewManifest, NewManifest,
         Readable, Covered, Valid
    <3>4. QED BY <3>3 DEF History!Next
  <2>2. CASE SetAside(p)
    <3>1. ~Valid(primary) /\ ~Valid(primary') /\ backup' = backup
      BY <1>0, <2>2 DEF SetAside, Knows, Valid
    <3>2. QED BY <3>1 DEF Readable, Covered, Valid
  <2>3. CASE Restore(p)
    <3>1. ~Valid(primary) /\ Valid(backup) /\ backup' = backup /\ primary' = backup
      BY <1>0, <2>3 DEF Restore, Knows
    <3>2. QED BY <3>1 DEF Readable, Covered, Valid
  <2>4. CASE WriteBackup(p)
    <3>1. Valid(primary) /\ primary' = primary /\ backup' = primary
      BY <1>0, <1>1, <2>4 DEF WriteBackup, Knows
    <3>2. History!Cover
      BY <1>1, <3>1 DEF History!Cover, Readable, Covered, Valid
    <3>3. QED BY <3>2 DEF History!Next
  <2>5. CASE Promote(p)
    <3>1. /\ Valid(primary) /\ backup = primary
          /\ primary' \in Successors(primary, p) /\ backup' = backup
      BY <1>0, <2>5 DEF Promote, Knows, Derived
    <3>2. Valid(primary')
      BY <3>1, SuccessorIsManifest, ManifestIsValid, ValidIsManifest
    <3>3. /\ Readable = primary /\ Readable' = primary'
          /\ Covered = primary /\ Covered' = Covered
      BY <3>1, <3>2 DEF Readable, Covered, Valid
    <3>4. History!Publish
      BY <1>1, <3>1, <3>3 DEF History!Publish, History!Successors, Successors,
         History!NextStates, NextStates, History!JobStates, JobStates,
         History!AllowedTransitions, AllowedTransitions
    <3>5. QED BY <3>4 DEF History!Next
  <2>6. CASE ~(Make(p) /\ primary = NoFile) /\ ~SetAside(p) /\ ~Restore(p)
             /\ ~WriteBackup(p) /\ ~Promote(p)
    <3>1. UNCHANGED <<primary, backup>>
      BY <1>2, <2>6 DEF Step, Enter, EnterTimesOut, Make, Load, ReadPrimary, PeekBackup,
         BeginRepair, ReadFails, Save, Mutate, MutatorRaises, CheckRevision, Confirm, WriteFails
    <3>2. QED BY <1>a, <3>1
  <2>7. QED BY <2>1, <2>2, <2>3, <2>4, <2>5, <2>6
<1>3. ASSUME NEW p \in Procs, Crash(p) \/ \E c \in Calls : Call(p, c)
      PROVE  [History!Next]_<<Readable, Covered>>
  BY <1>a, <1>3 DEF Crash, Call
<1>4. CASE DamagePrimary
  <2>1. Valid(primary) /\ Valid(backup) /\ ~Valid(primary') /\ backup' = backup
    BY <1>4 DEF DamagePrimary, Valid
  <2>2. History!LoseCurrent
    BY <1>1, <2>1 DEF History!LoseCurrent, Readable, Covered, Valid
  <2>3. QED BY <2>2 DEF History!Next
<1>5. CASE DamageBackup
  <2>1. Valid(primary) /\ ~Valid(backup') /\ primary' = primary
    BY <1>5 DEF DamageBackup, Valid
  <2>2. History!LoseCovered
    BY <1>1, <2>1 DEF History!LoseCovered, Readable, Covered, Valid
  <2>3. QED BY <2>2 DEF History!Next
<1>6. CASE UNCHANGED vars
  BY <1>6, <1>a DEF vars
<1>7. QED
  BY <1>2, <1>3, <1>4, <1>5, <1>6 DEF Next

(* If nobody saves by hand, the store implements the abstract history of     *)
(* revisions: what can be read back changes as the history does, or not at   *)
(* all.                                                                      *)
THEOREM StoreImplementsHistory == ASSUME OnlyUpdates PROVE Spec => HistoryHolds
<1>1. TypeOK /\ StoreInv /\ DerivedInv /\ [Next]_vars => [History!Next]_<<Readable, Covered>>
  BY HistoryStep
<1>2. QED
  BY <1>1, HistoryInit, StoreInvariant, DerivedInvariant, PTL
  DEF Spec, HistoryHolds, History!Spec
=============================================================================
