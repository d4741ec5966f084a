----------------------------- MODULE ComponentProofs -----------------------------
(***************************************************************************)
(* Proofs about the components of Components, for every value of their      *)
(* constants.  Each component has an inductive invariant (Inv, in its own   *)
(* module) that holds initially and is kept by every step; what the          *)
(* component promises follows from it, and the last section combines the     *)
(* components into the properties that the run of MCComponents checks.       *)
(***************************************************************************)
EXTENDS Components, FiniteSetTheorems, WellFoundedInduction, TLAPS

(***************************************************************************)
(* What the proofs share: induction over the natural numbers in terms of    *)
(* sets, from the theorem that every set of them has a least element.       *)
(***************************************************************************)
(* Every set of naturals that is not empty has a least member.               *)
LEMMA LeastNatural ==
    ASSUME NEW T, T \subseteq Nat, T # {}
    PROVE  \E x \in T : \A y \in T : x <= y
<1> DEFINE R == OpToRel(<, Nat)
<1>1. IsWellFoundedOn(R, Nat)
  BY NatLessThanWellFounded
<1> HIDE DEF R
<1>2. \E x \in T : \A y \in T : ~ (<<y, x>> \in R)
  BY <1>1, WFMin
<1>3. \A x, y \in Nat : y < x => <<y, x>> \in R
  BY DEF R, OpToRel
<1>4. PICK x \in T : \A y \in T : ~ (<<y, x>> \in R)
  BY <1>2
<1>5. ASSUME NEW y \in T PROVE x <= y
  <2>1. x \in Nat /\ y \in Nat /\ ~(<<y, x>> \in R) BY <1>4
  <2>2. ~(y < x) BY <2>1, <1>3
  <2>3. QED BY <2>1, <2>2
<1>6. QED BY <1>5

(* Induction: a set of naturals with 0 and the successor of each of its      *)
(* members is all of them.                                                   *)
LEMMA NaturalInduction ==
    ASSUME NEW S, 0 \in S, \A n \in Nat : n \in S => n + 1 \in S
    PROVE  Nat \subseteq S
<1> SUFFICES ASSUME Nat \ S # {} PROVE FALSE
  OBVIOUS
<1>1. PICK m \in Nat \ S : \A y \in Nat \ S : m <= y
  BY LeastNatural
<1>2. m # 0 /\ m - 1 \in Nat OBVIOUS
<1>3. m - 1 \in S BY <1>1, <1>2
<1>4. (m - 1) + 1 \in S BY <1>2, <1>3
<1>5. QED BY <1>1, <1>4

(* The first of a triple.                                                    *)
LEMMA FirstOfTriple == \A a, b, c : <<a, b, c>>[1] = a
  OBVIOUS

(***************************************************************************)
(* The instance guard.                                                     *)
(***************************************************************************)
(* The invariant of the guard holds initially.                               *)
LEMMA GuardInit == Guard!Init => Guard!Inv
<1> SUFFICES ASSUME Guard!Init PROVE Guard!Inv
  OBVIOUS
<1>m. MaxStarts \in Nat BY BoundsAreNatural
<1> USE GuardAssumption, <1>m DEF Guard!Init, Guard!Absent
<1>1. Guard!Shape
  <2>1. Guard!TypeOK
    <3>1. v1.pid \in Processes \cup {"absent", "unwritten"} /\ v1.token \in 0..MaxStarts
      BY DEF Guard!Init
    <3>2. v2 \in [Processes -> 0..MaxStarts] /\ v5 \in [Processes -> 0..3]
      BY DEF Guard!Init
    <3>3. v3 \in [Processes -> {"none", "open", "write", "found", "judge", "owner", "refused"}]
      BY DEF Guard!Init
    <3>4. v7 \in BOOLEAN
      BY DEF Guard!Init
    <3>5. QED BY <3>1, <3>2, <3>3, <3>4 DEF Guard!TypeOK
  <2>2. QED BY <2>1 DEF Guard!Shape, Guard!Locks
<1>2. Guard!Records BY DEF Guard!Records, Guard!Recorded
<1>3. Guard!Calm BY DEF Guard!Calm, Guard!Acquiring, Guard!Owners
<1>4. QED BY <1>1, <1>2, <1>3 DEF Guard!Inv, Guard!Quiet

(* Every action of a process keeps the guard's records well formed.          *)
LEMMA GuardShape ==
    ASSUME Guard!Inv, NEW p \in Processes, Guard!Moves(p)
    PROVE  Guard!Shape'
<1>m. MaxStarts \in Nat BY BoundsAreNatural
<1> USE GuardAssumption, <1>m
    DEF Guard!Inv, Guard!Shape, Guard!TypeOK, Guard!Locks, Guard!Absent, Guard!Unwritten, Guard!Record
<1>1. CASE Guard!Start(p) BY <1>1 DEF Guard!Start
<1>2. CASE Guard!Create(p) BY <1>2 DEF Guard!Create
<1>3. CASE Guard!Write(p) BY <1>3 DEF Guard!Write
<1>4. CASE Guard!Read(p) BY <1>4 DEF Guard!Read
<1>5. CASE Guard!Refuse(p) BY <1>5 DEF Guard!Refuse
<1>6. CASE Guard!MoveAside(p) BY <1>6 DEF Guard!MoveAside
<1>7. CASE Guard!Release(p) BY <1>7 DEF Guard!Release
<1>8. CASE Guard!Die(p) BY <1>8 DEF Guard!Die
<1>9. CASE Guard!WriteFails(p) BY <1>9 DEF Guard!WriteFails
<1>10. CASE Guard!Find(p) BY <1>10 DEF Guard!Find
<1>11. QED
  BY <1>1, <1>2, <1>3, <1>4, <1>5, <1>6, <1>7, <1>8, <1>9, <1>10 DEF Guard!Moves

(* Every record in the lock file, or read from it, has a token already       *)
(* issued; a living one is its owner's.                                      *)
LEMMA GuardRecords ==
    ASSUME Guard!Inv, Guard!Shape', NEW p \in Processes, Guard!Moves(p)
    PROVE  Guard!Records'
<1>m. MaxStarts \in Nat BY BoundsAreNatural
<1> USE GuardAssumption, <1>m
    DEF Guard!Inv, Guard!Shape, Guard!TypeOK, Guard!Locks, Guard!Absent, Guard!Unwritten, Guard!Record,
        Guard!Records, Guard!Recorded, Guard!Live
<1>1. CASE Guard!Start(p) BY <1>1 DEF Guard!Start
<1>2. CASE Guard!Create(p) BY <1>2 DEF Guard!Create
<1>3. CASE Guard!Write(p) BY <1>3 DEF Guard!Write
<1>4. CASE Guard!Read(p) BY <1>4 DEF Guard!Read
<1>5. CASE Guard!Refuse(p) BY <1>5 DEF Guard!Refuse
<1>6. CASE Guard!MoveAside(p) BY <1>6 DEF Guard!MoveAside
<1>7. CASE Guard!Release(p) BY <1>7 DEF Guard!Release
<1>8. CASE Guard!Die(p) BY <1>8 DEF Guard!Die
<1>9. CASE Guard!WriteFails(p) BY <1>9 DEF Guard!WriteFails
<1>10. CASE Guard!Find(p) BY <1>10 DEF Guard!Find
<1>11. QED
  BY <1>1, <1>2, <1>3, <1>4, <1>5, <1>6, <1>7, <1>8, <1>9, <1>10 DEF Guard!Moves

(* Unless two processes raced, one at a time acquires and the lock is that   *)
(* of whoever owns it.                                                       *)
LEMMA GuardCalm ==
    ASSUME Guard!Inv, Guard!Shape', NEW p \in Processes, Guard!Moves(p)
    PROVE  Guard!Quiet'
<1>m. MaxStarts \in Nat BY BoundsAreNatural
<1> USE GuardAssumption, <1>m
    DEF Guard!Inv, Guard!Shape, Guard!TypeOK, Guard!Locks, Guard!Absent, Guard!Unwritten, Guard!Record,
        Guard!Records, Guard!Recorded, Guard!Live, Guard!Calm, Guard!Acquiring, Guard!Owners, Guard!Quiet
<1>1. CASE Guard!Start(p)
  <2>1. CASE Guard!Acquiring # {} BY <1>1, <2>1 DEF Guard!Start
  <2>2. CASE Guard!Acquiring = {} BY <1>1, <2>2 DEF Guard!Start
  <2>3. QED BY <2>1, <2>2
<1>2. CASE Guard!Create(p) BY <1>2 DEF Guard!Create
<1>3. CASE Guard!Write(p) BY <1>3 DEF Guard!Write
<1>4. CASE Guard!Read(p) BY <1>4 DEF Guard!Read
<1>5. CASE Guard!Refuse(p) BY <1>5 DEF Guard!Refuse
<1>6. CASE Guard!MoveAside(p) BY <1>6 DEF Guard!MoveAside
<1>7. CASE Guard!Release(p) BY <1>7 DEF Guard!Release
<1>8. CASE Guard!Die(p) BY <1>8 DEF Guard!Die
<1>9. CASE Guard!WriteFails(p) BY <1>9 DEF Guard!WriteFails
<1>10. CASE Guard!Find(p) BY <1>10 DEF Guard!Find
<1>11. QED
  BY <1>1, <1>2, <1>3, <1>4, <1>5, <1>6, <1>7, <1>8, <1>9, <1>10 DEF Guard!Moves

(* The invariant of the guard is inductive.                                  *)
LEMMA GuardStep == Guard!Inv /\ [Guard!Next]_(Guard!vars) => Guard!Inv'
<1> SUFFICES ASSUME Guard!Inv, [Guard!Next]_(Guard!vars) PROVE Guard!Inv'
  OBVIOUS
<1>1. CASE UNCHANGED Guard!vars
  BY <1>1 DEF Guard!vars, Guard!Inv, Guard!Shape, Guard!TypeOK, Guard!Records, Guard!Recorded,
              Guard!Live, Guard!Quiet, Guard!Calm, Guard!Acquiring, Guard!Owners, Guard!Record
<1>2. ASSUME NEW p \in Processes, Guard!Moves(p) PROVE Guard!Inv'
  BY <1>2, GuardShape, GuardRecords, GuardCalm DEF Guard!Inv
<1>3. QED BY <1>1, <1>2 DEF Guard!Next

(* The guard counts as FiniteSets does.                                      *)
LEMMA GuardCardinality == \A S : Guard!Cardinality(S) = Cardinality(S)
  BY DEF Guard!Cardinality, Cardinality

(* Whoever owns the lock has its record in the file: two owners are one.     *)
LEMMA GuardSingle == Guard!Inv => Guard!SingleUnlessRaced
<1> SUFFICES ASSUME Guard!Inv, Guard!Calm PROVE Guard!SingleInstance
  BY DEF Guard!Inv, Guard!Quiet, Guard!SingleUnlessRaced
<1>1. \A p, q \in Guard!Owners : p = q
  BY DEF Guard!Calm, Guard!Record
<1>2. Guard!Owners = {} \/ \E p \in Guard!Owners : Guard!Owners = {p}
  BY <1>1
<1>3. CASE Guard!Owners = {}
  BY <1>3, FS_EmptySet, GuardCardinality DEF Guard!SingleInstance
<1>4. CASE \E p \in Guard!Owners : Guard!Owners = {p}
  <2>1. Cardinality(Guard!Owners) = 1 BY <1>4, FS_Singleton
  <2>2. QED BY <2>1, GuardCardinality DEF Guard!SingleInstance
<1>5. QED BY <1>2, <1>3, <1>4

(* A process is refused for the record of a living owner; its tries last as long  *)
(* as nobody else is acquiring.                                              *)
LEMMA GuardRefuses ==
    ASSUME Guard!Inv, [Guard!Next]_(Guard!vars)
    PROVE  Guard!RefusedOnlyByOwner
<1> SUFFICES ASSUME NEW q \in Processes, Guard!Refused(q), Guard!Calm
             PROVE  Guard!Owners # {}
  BY DEF Guard!Inv, Guard!Quiet, Guard!RefusedOnlyByOwner, Guard!Refused
<1>1. Guard!Refuse(q)
  BY DEF Guard!Inv, Guard!Shape, Guard!TypeOK, Guard!Refused, Guard!vars, Guard!Next, Guard!Moves,
         Guard!Start, Guard!Create, Guard!Write, Guard!WriteFails, Guard!Find, Guard!Read,
         Guard!Refuse, Guard!MoveAside, Guard!Release, Guard!Die
<1>2. QED
  BY <1>1 DEF Guard!Refuse, Guard!Calm, Guard!Inv, Guard!Records, Guard!Recorded, Guard!Live,
              Guard!Owners

(***************************************************************************)
(* The media cache.                                                        *)
(***************************************************************************)
(* The invariant of the cache holds initially.                               *)
LEMMA CacheInit == Cache!Init => Cache!Inv
<1> SUFFICES ASSUME Cache!Init PROVE Cache!Inv
  OBVIOUS
<1> USE DEF Cache!Init
<1>1. Cache!TypeOK BY DEF Cache!TypeOK, Cache!Labels
<1>2. Cache!Complete BY DEF Cache!Complete
<1>3. Cache!ReadsMaster BY DEF Cache!ReadsMaster
<1>4. QED BY <1>1, <1>2, <1>3 DEF Cache!Inv

(* A prune takes files away and adds none; one that takes no stem leaves every directory alone. *)
LEMMA CacheRemoves ==
    ASSUME Cache!TypeOK, NEW D, Cache!Remove(D)
    PROVE  /\ v1' \subseteq Stems /\ v4' \subseteq Stems /\ v5' \in BOOLEAN /\ v6' \in BOOLEAN
           /\ v2' \in [Renders -> SUBSET Stems] /\ v3' \in [Renders -> SUBSET Stems]
           /\ v10' \/ (v1' = v1 /\ v2' = v2 /\ v3' = v3)
           /\ v10 => v10'
<1> USE DEF Cache!TypeOK, Cache!Remove
<1>1. v1' \subseteq Stems /\ v4' \subseteq Stems OBVIOUS
<1>2. v5' \in BOOLEAN /\ v6' \in BOOLEAN OBVIOUS
<1>3. v2' \in [Renders -> SUBSET Stems] /\ v3' \in [Renders -> SUBSET Stems] OBVIOUS
<1>4. v10' \/ (v1' = v1 /\ v2' = v2 /\ v3' = v3)
  <2> SUFFICES ASSUME ~v10' PROVE v1' = v1 /\ v2' = v2 /\ v3' = v3
    OBVIOUS
  <2>1. \A x, y : \A s \in Stems : <<x, y, s>> \notin D OBVIOUS
  <2>2. v1' = v1 BY <2>1
  <2>3. v2' = v2 BY <2>1
  <2>4. v3' = v3 BY <2>1
  <2>5. QED BY <2>2, <2>3, <2>4
<1>5. v10 => v10' OBVIOUS
<1>6. QED BY <1>1, <1>2, <1>3, <1>4, <1>5

(* The stems a render may read are of one of three places.                   *)
LEMMA CacheUnder == \A x, y, N : \A f \in Cache!Under(x, y, N) : \E s \in N : f = <<x, y, s>>
  BY DEF Cache!Under

(* Whatever place a render is given to read its stems from, it is one of     *)
(* those known.                                                              *)
LEMMA CachePlaces ==
    ASSUME Cache!TypeOK, NEW s \in Stems
    PROVE  Cache!Places(s) \subseteq Cache!Readable
<1>1. ASSUME NEW x \in {"target", "left", "displaced"}, NEW y \in {""} \cup Renders, NEW t \in Stems
      PROVE  <<x, y, t>> \in Cache!Readable
  BY DEF Cache!Readable
<1>2. CASE s \in v1
  <2>1. Cache!Places(s) = {<<"target", "", s>>}
    BY <1>2 DEF Cache!Places
  <2>2. QED BY <1>1, <2>1
<1>3. CASE s \notin v1
  <2> SUFFICES ASSUME NEW f \in Cache!Files, f[1] \in {"left", "displaced"} PROVE f \in Cache!Readable
    BY <1>3 DEF Cache!Places
  <2>1. ASSUME NEW x, NEW y, NEW N, f \in Cache!Under(x, y, N)
        PROVE  f[1] = x /\ \E t \in N : f = <<x, y, t>>
    BY <2>1, CacheUnder, FirstOfTriple
  <2>2. CASE f \in Cache!Under("left", "", v4)
    <3>1. PICK t \in v4 : f = <<"left", "", t>> BY <2>1, <2>2
    <3>2. t \in Stems BY DEF Cache!TypeOK
    <3>3. QED BY <1>1, <3>1, <3>2
  <2>3. ASSUME NEW r \in Renders, f \in Cache!Under("displaced", r, v3[r])
        PROVE  f \in Cache!Readable
    <3>1. PICK t \in v3[r] : f = <<"displaced", r, t>> BY <2>1, <2>3
    <3>2. t \in Stems BY DEF Cache!TypeOK
    <3>3. QED BY <1>1, <3>1, <3>2
  <2>4. f \notin Cache!Under("target", "", v1) /\ \A r \in Renders : f \notin Cache!Under("staged", r, v2[r])
    <3>1. ASSUME f \in Cache!Under("target", "", v1) PROVE FALSE
      <4>1. f[1] = "target" BY <2>1, <3>1
      <4>2. QED BY <4>1
    <3>2. ASSUME NEW r \in Renders, f \in Cache!Under("staged", r, v2[r]) PROVE FALSE
      BY <2>1, <3>2
    <3>3. QED BY <3>1, <3>2
  <2>5. f # Cache!Mix /\ f # Cache!Master
    <3>1. Cache!Mix[1] = "mix" /\ Cache!Master[1] = "master"
      BY DEF Cache!Mix, Cache!Master
    <3>2. QED BY <3>1
  <2>6. QED
    BY <2>2, <2>3, <2>4, <2>5 DEF Cache!Files
<1>4. QED BY <1>2, <1>3

(* What a render does, or its death does, keeps the shape of the cache.      *)
LEMMA CacheTypes ==
    ASSUME Cache!Inv, NEW r \in Renders, Cache!Render(r) \/ Cache!Kill(r)
    PROVE  Cache!TypeOK'
<1> USE DEF Cache!Inv, Cache!TypeOK, Cache!Labels, Cache!Goto, Cache!stems
<1>1. CASE Cache!Start(r) BY <1>1, CacheRemoves DEF Cache!Start
<1>2. CASE Cache!Enhance(r) BY <1>2 DEF Cache!Enhance
<1>3. CASE Cache!PruneAfterEnhance(r) BY <1>3, CacheRemoves DEF Cache!PruneAfterEnhance
<1>4. CASE Cache!Locate(r) BY <1>4 DEF Cache!Locate
<1>5. CASE Cache!Separate(r) BY <1>5 DEF Cache!Separate
<1>6. CASE Cache!Check(r) BY <1>6 DEF Cache!Check
<1>7. CASE Cache!Displace(r) BY <1>7 DEF Cache!Displace
<1>8. CASE Cache!Promote(r) BY <1>8 DEF Cache!Promote
<1>9. CASE Cache!Clean(r) BY <1>9 DEF Cache!Clean
<1>10. CASE Cache!Use(r) BY <1>10 DEF Cache!Use
<1>11. CASE Cache!Finish(r) BY <1>11 DEF Cache!Finish
<1>12. CASE Cache!Kill(r) BY <1>12 DEF Cache!Kill
<1>13. QED BY <1>1, <1>2, <1>3, <1>4, <1>5, <1>6, <1>7, <1>8, <1>9, <1>10, <1>11, <1>12 DEF Cache!Render

(* As long as nothing is pruned, the place of the cache holds every stem or  *)
(* none, and so does each directory set aside.                               *)
LEMMA CacheComplete ==
    ASSUME Cache!Inv, NEW r \in Renders, Cache!Render(r) \/ Cache!Kill(r)
    PROVE  Cache!Complete'
<1> USE DEF Cache!Inv, Cache!TypeOK, Cache!Goto, Cache!stems, Cache!Complete
<1>1. CASE Cache!Start(r) BY <1>1, CacheRemoves DEF Cache!Start
<1>2. CASE Cache!Enhance(r) BY <1>2 DEF Cache!Enhance
<1>3. CASE Cache!PruneAfterEnhance(r) BY <1>3, CacheRemoves DEF Cache!PruneAfterEnhance
<1>4. CASE Cache!Locate(r) BY <1>4 DEF Cache!Locate
<1>5. CASE Cache!Separate(r) BY <1>5 DEF Cache!Separate
<1>6. CASE Cache!Check(r) BY <1>6 DEF Cache!Check
<1>7. CASE Cache!Displace(r) BY <1>7 DEF Cache!Displace
<1>8. CASE Cache!Promote(r) BY <1>8 DEF Cache!Promote
<1>9. CASE Cache!Clean(r) BY <1>9 DEF Cache!Clean
<1>10. CASE Cache!Use(r) BY <1>10 DEF Cache!Use
<1>11. CASE Cache!Finish(r) BY <1>11 DEF Cache!Finish
<1>12. CASE Cache!Kill(r) BY <1>12 DEF Cache!Kill
<1>13. QED BY <1>1, <1>2, <1>3, <1>4, <1>5, <1>6, <1>7, <1>8, <1>9, <1>10, <1>11, <1>12 DEF Cache!Render

(* A render reads nothing before it looks in the cache, and before it        *)
(* renders only the master.                                                  *)
LEMMA CacheReads ==
    ASSUME Cache!Inv, NEW r \in Renders, Cache!Render(r) \/ Cache!Kill(r)
    PROVE  Cache!ReadsMaster'
<1> USE DEF Cache!Inv, Cache!Goto, Cache!stems, Cache!ReadsMaster
<1>a. v7 \in [Renders -> Cache!Labels] /\ {Cache!Master, Cache!Mix} \subseteq Cache!Readable
  BY DEF Cache!TypeOK, Cache!Readable
<1> USE <1>a
<1>1. CASE Cache!Start(r) BY <1>1 DEF Cache!Start
<1>2. CASE Cache!Enhance(r) BY <1>2 DEF Cache!Enhance
<1>3. CASE Cache!PruneAfterEnhance(r) BY <1>3 DEF Cache!PruneAfterEnhance
<1>4. CASE Cache!Locate(r) BY <1>4 DEF Cache!Locate
<1>5. CASE Cache!Separate(r) BY <1>5 DEF Cache!Separate
<1>6. CASE Cache!Check(r) BY <1>6 DEF Cache!Check
<1>7. CASE Cache!Displace(r) BY <1>7 DEF Cache!Displace
<1>8. CASE Cache!Promote(r) BY <1>8 DEF Cache!Promote
<1>9. CASE Cache!Clean(r) BY <1>9 DEF Cache!Clean
<1>10. CASE Cache!Use(r)
  <2>1. v8[r] \subseteq Stems
    BY DEF Cache!TypeOK, Cache!Wanted
  <2>2. UNION {Cache!Places(s) : s \in v8[r]} \subseteq Cache!Readable
    BY <2>1, CachePlaces
  <2>3. v9'[r] \subseteq Cache!Readable /\ v9' = [v9 EXCEPT ![r] = v9'[r]]
    BY <1>10, <2>2 DEF Cache!Use
  <2>4. v7' = [v7 EXCEPT ![r] = "render"]
    BY <1>10 DEF Cache!Use
  <2>5. QED BY <2>3, <2>4
<1>11. CASE Cache!Finish(r) BY <1>11 DEF Cache!Finish
<1>12. CASE Cache!Kill(r) BY <1>12 DEF Cache!Kill
<1>13. QED BY <1>1, <1>2, <1>3, <1>4, <1>5, <1>6, <1>7, <1>8, <1>9, <1>10, <1>11, <1>12 DEF Cache!Render

(* The invariant of the cache is inductive.                                  *)
LEMMA CacheStep == Cache!Inv /\ [Cache!Next]_(Cache!vars) => Cache!Inv'
<1> SUFFICES ASSUME Cache!Inv, [Cache!Next]_(Cache!vars) PROVE Cache!Inv'
  OBVIOUS
<1>1. CASE UNCHANGED Cache!vars
  BY <1>1 DEF Cache!vars, Cache!Inv, Cache!TypeOK, Cache!Complete, Cache!ReadsMaster
<1>2. ASSUME NEW r \in Renders, Cache!Render(r) \/ Cache!Kill(r) PROVE Cache!Inv'
  BY <1>2, CacheTypes, CacheComplete, CacheReads DEF Cache!Inv
<1>3. QED BY <1>1, <1>2 DEF Cache!Next

(* The invariant contains what the cache promises.                           *)
LEMMA CachePublishes == Cache!Inv => Cache!PublishedComplete
  BY DEF Cache!Inv, Cache!Complete, Cache!PublishedComplete

(* Until it renders, a render reads only the master, and no step of its own removes that. *)
LEMMA CacheKeeps == Cache!Inv /\ Cache!Next => Cache!OwnFilesKept
<1> SUFFICES ASSUME Cache!Inv, Cache!Next,
                    NEW r \in Renders, v7'[r] # v7[r], v7'[r] # "off"
             PROVE  v9[r] \cap Cache!Files \subseteq Cache!Files'
  BY DEF Cache!OwnFilesKept
<1> USE DEF Cache!Inv, Cache!TypeOK, Cache!Goto, Cache!stems
<1>1. Cache!Render(r)
  <2>1. PICK p \in Renders : Cache!Render(p) \/ Cache!Kill(p)
    BY DEF Cache!Next
  <2>2. \E l : v7' = [v7 EXCEPT ![p] = l]
    BY <2>1 DEF Cache!Render, Cache!Start, Cache!Enhance, Cache!PruneAfterEnhance, Cache!Locate,
          Cache!Separate, Cache!Check, Cache!Displace, Cache!Promote, Cache!Clean, Cache!Use,
          Cache!Finish, Cache!Kill
  <2>3. p = r BY <2>2
  <2>4. QED BY <2>1, <2>3 DEF Cache!Kill
<1>2. v7[r] # "render"
  BY <1>1 DEF Cache!Render, Cache!Start, Cache!Enhance, Cache!PruneAfterEnhance, Cache!Locate,
          Cache!Separate, Cache!Check, Cache!Displace, Cache!Promote, Cache!Clean, Cache!Use,
          Cache!Finish
<1>3. v9[r] \subseteq {Cache!Master}
  BY <1>2 DEF Cache!ReadsMaster
<1>4. CASE v9[r] = {}
  BY <1>4
<1>5. CASE v9[r] = {Cache!Master} /\ Cache!Master \in Cache!Files
  <2>1. v6
    <3>1. /\ Cache!Master # Cache!Mix
          /\ Cache!Master \notin Cache!Under("target", "", v1) \cup Cache!Under("left", "", v4)
          /\ \A q \in Renders : Cache!Master \notin Cache!Under("staged", q, v2[q]) \cup Cache!Under("displaced", q, v3[q])
      BY DEF Cache!Under, Cache!Master, Cache!Mix
    <3>2. QED BY <3>1, <1>5 DEF Cache!Files
  <2>2. v6'
    <3>1. ~Cache!Start(r)
      BY <1>5 DEF Cache!Start, Cache!ReadsMaster
    <3>2. CASE Cache!PruneAfterEnhance(r)
      <4>1. PICK D \in Cache!Prunes({Cache!Master}) : Cache!Remove(D)
        BY <3>2 DEF Cache!PruneAfterEnhance
      <4>2. Cache!Master \notin D
        BY DEF Cache!Prunes, Cache!kSubset
      <4>3. QED BY <2>1, <4>1, <4>2 DEF Cache!Remove
    <3>3. QED
      BY <1>1, <2>1, <3>1, <3>2
      DEF Cache!Render, Cache!Enhance, Cache!Locate, Cache!Separate, Cache!Check,
          Cache!Displace, Cache!Promote, Cache!Clean, Cache!Use, Cache!Finish
  <2>3. Cache!Master \in Cache!Files'
    BY <2>2 DEF Cache!Files
  <2>4. QED BY <1>5, <2>3
<1>6. QED BY <1>3, <1>4, <1>5

(***************************************************************************)
(* Optional components.                                                    *)
(***************************************************************************)
(* The invariant of an installation holds initially.                         *)
LEMMA InstallInit == Install!Init => Install!Inv
<1> SUFFICES ASSUME Install!Init PROVE Install!Inv
  OBVIOUS
<1>m. MaxCalls \in Nat /\ MaxCrashes \in Nat BY BoundsAreNatural
<1> USE InstallAssumption, <1>m DEF Install!Init, Install!NoTree, Install!Tree
<1>1. Install!TypeOK
  <2>1. v4 \in Install!Trees /\ v5 \in Install!Trees /\ v8 \in Install!Trees
    <3>1. PICK v \in Versions \cup {"none"} : v4 = Install!Tree(v, v)
      OBVIOUS
    <3>2. v4 \in Install!Trees
      BY <3>1 DEF Install!Trees
    <3>3. QED BY <3>2 DEF Install!Trees
  <2>2. {v2, v3} \subseteq Seq(Versions \cup {"bad"}) OBVIOUS
  <2>3. QED BY <2>1, <2>2 DEF Install!TypeOK
<1>2. Install!Kept /\ Install!Placed /\ Install!DoneIsPinned /\ Install!FailedKeepsTree
  BY DEF Install!Kept, Install!Placed, Install!DoneIsPinned, Install!FailedKeepsTree
<1>3. Install!TreeKept /\ Install!AssetIsWhole
  BY DEF Install!TreeKept, Install!AssetIsWhole
<1>4. QED BY <1>1, <1>2, <1>3 DEF Install!Inv

(* Every action of an installation keeps its shape.                          *)
LEMMA InstallTypes ==
    ASSUME Install!Inv, Install!Next
    PROVE  Install!TypeOK'
<1>a. ASSUME NEW X, v2 \in Seq(X), v3 \in Seq(X),
             v2' \in {v2, << >>} \/ v2' \in {v3, << >>}, v3' \in {v3, << >>}
      PROVE  {v2', v3'} \subseteq Seq(X)
  <2>1. << >> \in Seq(X) OBVIOUS
  <2>2. v2' \in Seq(X) BY <1>a, <2>1
  <2>3. v3' \in Seq(X) BY <1>a, <2>1
  <2>4. QED BY <2>2, <2>3
<1>b. v2 \in Seq(Versions \cup {"bad"}) /\ v3 \in Seq(Versions \cup {"bad"})
  BY DEF Install!Inv, Install!TypeOK
<1>m. MaxCalls \in Nat /\ MaxCrashes \in Nat BY BoundsAreNatural
<1> USE <1>m
    DEF Install!Inv, Install!TypeOK, Install!Trees, Install!NoTree, Install!Tree, Install!files,
        Install!trees, Install!Goto, Install!End
<1>1. CASE Install!Install BY <1>1 DEF Install!Install
<1>2. CASE Install!HaveAsset BY <1>2 DEF Install!HaveAsset
<1>3. CASE Install!Request
  <2>1. v2' = << >> /\ v3' \in {v3, << >>} BY <1>3 DEF Install!Request
  <2>2. QED BY <1>3, <2>1, <1>a, <1>b DEF Install!Request
<1>4. CASE Install!RangeRefused BY <1>4 DEF Install!RangeRefused
<1>5. CASE Install!Receive BY <1>5 DEF Install!Receive
<1>6. CASE Install!NetworkFails BY <1>6, <1>a, <1>b DEF Install!NetworkFails
<1>7. CASE Install!CheckAsset BY <1>7, <1>a, <1>b DEF Install!CheckAsset
<1>8. CASE Install!HaveArchive BY <1>8 DEF Install!HaveArchive
<1>9. CASE Install!Unpack BY <1>9 DEF Install!Unpack
<1>10. CASE Install!UnpackFails BY <1>10 DEF Install!UnpackFails
<1>11. CASE Install!DiscardPrevious BY <1>11 DEF Install!DiscardPrevious
<1>12. CASE Install!SetAside BY <1>12 DEF Install!SetAside
<1>13. CASE Install!Promote BY <1>13 DEF Install!Promote
<1>14. CASE Install!Mark BY <1>14 DEF Install!Mark
<1>15. CASE Install!Finish BY <1>15 DEF Install!Finish
<1>16. CASE Install!FailsBefore BY <1>16 DEF Install!FailsBefore
<1>17. CASE Install!RollBack BY <1>17 DEF Install!RollBack
<1>18. CASE Install!Crash BY <1>18 DEF Install!Crash
<1>19. CASE Install!NewCatalogue BY <1>19 DEF Install!NewCatalogue
<1>20. CASE Install!Tamper BY <1>20 DEF Install!Tamper
<1>21. QED BY <1>1, <1>2, <1>3, <1>4, <1>5, <1>6, <1>7, <1>8, <1>9, <1>10, <1>11, <1>12, <1>13, <1>14,
    <1>15, <1>16, <1>17, <1>18, <1>19, <1>20
  DEF Install!Next

(* A tree that was there is in place, or set aside while the new one is moved in.*)
LEMMA InstallKept ==
    ASSUME Install!Inv, Install!TypeOK', Install!Next
    PROVE  Install!Kept' /\ Install!TreeKept' /\ Install!FailedKeepsTree'
<1> USE InstallAssumption
    DEF Install!Inv, Install!TypeOK, Install!NoTree, Install!Tree, Install!files, Install!trees,
        Install!Goto, Install!End, Install!Kept, Install!Placed, Install!TreeKept,
        Install!FailedKeepsTree, Install!Trusted
<1>1. CASE Install!Install BY <1>1 DEF Install!Install
<1>2. CASE Install!HaveAsset BY <1>2 DEF Install!HaveAsset
<1>3. CASE Install!Request BY <1>3 DEF Install!Request
<1>4. CASE Install!RangeRefused BY <1>4 DEF Install!RangeRefused
<1>5. CASE Install!Receive BY <1>5 DEF Install!Receive
<1>6. CASE Install!NetworkFails BY <1>6 DEF Install!NetworkFails
<1>7. CASE Install!CheckAsset BY <1>7 DEF Install!CheckAsset
<1>8. CASE Install!HaveArchive BY <1>8 DEF Install!HaveArchive
<1>9. CASE Install!Unpack BY <1>9 DEF Install!Unpack
<1>10. CASE Install!UnpackFails BY <1>10 DEF Install!UnpackFails
<1>11. CASE Install!DiscardPrevious BY <1>11 DEF Install!DiscardPrevious
<1>12. CASE Install!SetAside BY <1>12 DEF Install!SetAside
<1>13. CASE Install!Promote BY <1>13 DEF Install!Promote
<1>14. CASE Install!Mark BY <1>14 DEF Install!Mark
<1>15. CASE Install!Finish BY <1>15 DEF Install!Finish
<1>16. CASE Install!FailsBefore BY <1>16 DEF Install!FailsBefore
<1>17. CASE Install!RollBack BY <1>17 DEF Install!RollBack
<1>18. CASE Install!Crash BY <1>18 DEF Install!Crash
<1>19. CASE Install!NewCatalogue BY <1>19 DEF Install!NewCatalogue
<1>20. CASE Install!Tamper BY <1>20 DEF Install!Tamper
<1>21. QED BY <1>1, <1>2, <1>3, <1>4, <1>5, <1>6, <1>7, <1>8, <1>9, <1>10, <1>11, <1>12, <1>13,
    <1>14, <1>15, <1>16, <1>17, <1>18, <1>19, <1>20 DEF Install!Next

(* Past the download the file is whole and of the wanted version, and so is  *)
(* the tree that is marked.                                                  *)
LEMMA InstallPlaced ==
    ASSUME Install!Inv, Install!TypeOK', Install!Next
    PROVE  Install!Placed' /\ Install!DoneIsPinned' /\ Install!AssetIsWhole'
<1> USE InstallAssumption
    DEF Install!Inv, Install!TypeOK, Install!files, Install!trees, Install!Goto, Install!End,
        Install!Placed, Install!DoneIsPinned, Install!AssetIsWhole, Install!Trusted
<1>1. CASE Install!Install BY <1>1 DEF Install!Install
<1>2. CASE Install!HaveAsset BY <1>2 DEF Install!HaveAsset
<1>3. CASE Install!Request BY <1>3 DEF Install!Request
<1>4. CASE Install!RangeRefused BY <1>4 DEF Install!RangeRefused
<1>5. CASE Install!Receive BY <1>5 DEF Install!Receive
<1>6. CASE Install!NetworkFails BY <1>6 DEF Install!NetworkFails
<1>7. CASE Install!CheckAsset BY <1>7 DEF Install!CheckAsset
<1>8. CASE Install!HaveArchive BY <1>8 DEF Install!HaveArchive
<1>9. CASE Install!Unpack BY <1>9 DEF Install!Unpack
<1>10. CASE Install!UnpackFails BY <1>10 DEF Install!UnpackFails
<1>11. CASE Install!DiscardPrevious BY <1>11 DEF Install!DiscardPrevious
<1>12. CASE Install!SetAside BY <1>12 DEF Install!SetAside
<1>13. CASE Install!Promote BY <1>13 DEF Install!Promote
<1>14. CASE Install!Mark BY <1>14 DEF Install!Mark
<1>15. CASE Install!Finish BY <1>15 DEF Install!Finish
<1>16. CASE Install!FailsBefore BY <1>16 DEF Install!FailsBefore
<1>17. CASE Install!RollBack BY <1>17 DEF Install!RollBack
<1>18. CASE Install!Crash BY <1>18 DEF Install!Crash
<1>19. CASE Install!NewCatalogue BY <1>19 DEF Install!NewCatalogue
<1>20. CASE Install!Tamper BY <1>20 DEF Install!Tamper
<1>21. QED BY <1>1, <1>2, <1>3, <1>4, <1>5, <1>6, <1>7, <1>8, <1>9, <1>10, <1>11, <1>12, <1>13,
    <1>14, <1>15, <1>16, <1>17, <1>18, <1>19, <1>20 DEF Install!Next

(* The invariant of an installation is inductive.                            *)
LEMMA InstallStep == Install!Inv /\ [Install!Next]_(Install!vars) => Install!Inv'
<1> SUFFICES ASSUME Install!Inv, [Install!Next]_(Install!vars) PROVE Install!Inv'
  OBVIOUS
<1>1. CASE UNCHANGED Install!vars
  BY <1>1 DEF Install!vars, Install!Inv, Install!TypeOK, Install!Kept, Install!Placed, Install!Trusted,
              Install!DoneIsPinned, Install!FailedKeepsTree, Install!TreeKept, Install!AssetIsWhole
<1>2. CASE Install!Next
  BY <1>2, InstallTypes, InstallKept, InstallPlaced DEF Install!Inv
<1>3. QED BY <1>1, <1>2

(***************************************************************************)
(* The queue and the presets.                                              *)
(***************************************************************************)
(* The invariant of the application's state holds initially.                 *)
LEMMA StateInit == State!Init => State!Inv
<1> SUFFICES ASSUME State!Init PROVE State!Inv
  OBVIOUS
<1>m. ListEdits \in Nat /\ StateCrashes \in Nat BY BoundsAreNatural
<1> USE StateAssumption, <1>m DEF State!Init, State!Absent
<1>1. State!TypeOK BY DEF State!TypeOK, State!Files
<1>2. State!Shape
  <2>1. v9 \in BOOLEAN /\ v10 \in BOOLEAN OBVIOUS
  <2>2. v11 \in 0 .. ListEdits /\ \A f \in {v2, v3} : f.is = "absent" => f = State!Absent OBVIOUS
  <2>3. QED BY <1>1, <2>1, <2>2 DEF State!Shape
<1>3. State!Undamaged /\ State!Recovering /\ State!Recoverable
  BY DEF State!Undamaged, State!Recovering, State!Recoverable, State!Sound
<1>4. State!Sound(v2) => v2.list = v7
  BY DEF State!Sound
<1>5. QED BY <1>2, <1>3, <1>4 DEF State!Inv

(* Every action of a window keeps the shape of the two files and of the list *)
(* in memory.                                                                *)
LEMMA StateShape ==
    ASSUME State!Inv, State!Next
    PROVE  State!Shape'
<1>a. (v9 \in BOOLEAN /\ v10 \in BOOLEAN)'
  BY DEF State!Inv, State!Shape, State!Next, State!Open, State!Load, State!SetAside, State!Restore,
         State!Edit, State!Backup, State!Write, State!Close, State!Crash, State!Rot, State!Newer,
         State!files, State!history
<1>m. ListEdits \in Nat /\ StateCrashes \in Nat BY BoundsAreNatural
<1> USE <1>a,  StateAssumption, <1>m
    DEF State!Inv, State!Shape, State!TypeOK, State!Files, State!Absent, State!Good, State!Recovering,
        State!files, State!history
<1>1. CASE State!Open BY <1>1 DEF State!Open
<1>2. CASE State!Load BY <1>2 DEF State!Load
<1>3. CASE State!SetAside BY <1>3 DEF State!SetAside
<1>4. CASE State!Restore BY <1>4 DEF State!Restore
<1>5. CASE State!Edit BY <1>5 DEF State!Edit
<1>6. CASE State!Backup BY <1>6 DEF State!Backup
<1>7. CASE State!Write BY <1>7 DEF State!Write
<1>8. CASE State!Close BY <1>8 DEF State!Close
<1>9. CASE State!Crash BY <1>9 DEF State!Crash
<1>10. CASE State!Rot BY <1>10 DEF State!Rot
<1>11. CASE State!Newer BY <1>11 DEF State!Newer
<1>12. QED BY <1>1, <1>2, <1>3, <1>4, <1>5, <1>6, <1>7, <1>8, <1>9, <1>10, <1>11 DEF State!Next

(* Unless somebody damaged the files the primary is sound, and unless the    *)
(* backup is thin the last list saved or the one before can be read back.    *)
LEMMA StateKept ==
    ASSUME State!Inv, State!Shape', State!Next
    PROVE  /\ State!Undamaged' /\ State!Recovering' /\ State!Recoverable'
           /\ (State!Sound(v2) => v2.list = v7)'
<1>m. ListEdits \in Nat /\ StateCrashes \in Nat BY BoundsAreNatural
<1> USE StateAssumption, <1>m
    DEF State!Inv, State!Shape, State!TypeOK, State!Files, State!Absent, State!Good, State!Recovering,
        State!Undamaged, State!Recoverable, State!Sound, State!files, State!history
<1>1. CASE State!Open BY <1>1 DEF State!Open
<1>2. CASE State!Load BY <1>2 DEF State!Load
<1>3. CASE State!SetAside BY <1>3 DEF State!SetAside
<1>4. CASE State!Restore BY <1>4 DEF State!Restore
<1>5. CASE State!Edit BY <1>5 DEF State!Edit
<1>6. CASE State!Backup BY <1>6 DEF State!Backup
<1>7. CASE State!Write BY <1>7 DEF State!Write
<1>8. CASE State!Close BY <1>8 DEF State!Close
<1>9. CASE State!Crash BY <1>9 DEF State!Crash
<1>10. CASE State!Rot BY <1>10 DEF State!Rot
<1>11. CASE State!Newer BY <1>11 DEF State!Newer
<1>12. QED BY <1>1, <1>2, <1>3, <1>4, <1>5, <1>6, <1>7, <1>8, <1>9, <1>10, <1>11 DEF State!Next

(* The invariant of the application's state is inductive.                    *)
LEMMA StateStep == State!Inv /\ [State!Next]_(State!vars) => State!Inv'
<1> SUFFICES ASSUME State!Inv, [State!Next]_(State!vars) PROVE State!Inv'
  OBVIOUS
<1>1. CASE UNCHANGED State!vars
  BY <1>1 DEF State!vars, State!Inv, State!Shape, State!TypeOK, State!Undamaged, State!Recovering,
              State!Recoverable, State!Good, State!Sound
<1>2. CASE State!Next
  BY <1>2, StateShape, StateKept DEF State!Inv
<1>3. QED BY <1>1, <1>2

(* An undamaged primary holds the last list saved, and a load shows it.           *)
LEMMA StateShows == State!Inv /\ State!Next => State!LoadShowsSaved
<1> SUFFICES ASSUME State!Inv, State!Next, v5 = "load", State!Good(v2) PROVE v4' = v7 \/ v5' = "off"
  BY DEF State!LoadShowsSaved
<1>1. v2.list = v7
  BY DEF State!Inv, State!Sound, State!Good
<1>2. QED
  BY <1>1 DEF State!Next, State!Open, State!Load, State!SetAside, State!Restore, State!Edit,
      State!Backup,
              State!Write, State!Close, State!Crash, State!Rot, State!Newer, State!Good

(***************************************************************************)
(* Resumable copies.                                                       *)
(***************************************************************************)
(* What a version of the source is, block by block.                          *)
LEMMA CopyVersion ==
    ASSUME NEW v \in -1 .. MaxEdits, NEW n \in Nat
    PROVE  /\ Copy!Version(v, n) \in Copy!Files
           /\ Len(Copy!Version(v, n)) = n
           /\ \A k \in 1 .. n : Copy!Version(v, n)[k] = v
           /\ Append(Copy!Version(v, n), v) = Copy!Version(v, n + 1)
           /\ Copy!Version(v, 0) = << >>
<1> USE DEF Copy!Version, Copy!Files
<1>1. Copy!Version(v, n) \in Seq(-1 .. MaxEdits) OBVIOUS
<1>2. Len(Copy!Version(v, n)) = n OBVIOUS
<1>3. \A k \in 1 .. n : Copy!Version(v, n)[k] = v OBVIOUS
<1>4. Append(Copy!Version(v, n), v) = Copy!Version(v, n + 1)
  BY <1>1, <1>2, <1>3
<1>5. Copy!Version(v, 0) = << >> OBVIOUS
<1>6. QED BY <1>1, <1>2, <1>3, <1>4, <1>5

(* What one block more does to a partial.                                    *)
LEMMA CopyAppends ==
    ASSUME Copy!Inv, Copy!CopyBlock
    PROVE  \E b \in -1 .. MaxEdits :
             /\ v2' = Append(v2, b) /\ v2' \in Copy!Files
             /\ Len(v2') = Len(v2) + 1 /\ v2' # << >>
             /\ b = v1.mtime
             /\ v2 = Copy!Version(v1.mtime, Len(v2)) => v2' = Copy!Version(v1.mtime, Len(v2'))
<1>1. /\ v1.content \in Seq(-1 .. MaxEdits) /\ v2 \in Seq(-1 .. MaxEdits)
      /\ v1.mtime \in -1 .. MaxEdits
      /\ v1.content = Copy!Version(v1.mtime, Len(v1.content))
  BY DEF Copy!Inv, Copy!Shape, Copy!TypeOK, Copy!Files, Copy!Times
<1>2. Len(v2) \in Nat /\ Len(v1.content) \in Nat /\ Len(v2) + 1 \in 1 .. Len(v1.content)
  BY <1>1 DEF Copy!CopyBlock
<1>3. v1.content[Len(v2) + 1] = v1.mtime
  <2>1. Copy!Version(v1.mtime, Len(v1.content))[Len(v2) + 1] = v1.mtime
    BY <1>1, <1>2, CopyVersion
  <2>2. QED BY <1>1, <2>1
<1>4. v2' = Append(v2, v1.mtime)
  BY <1>3 DEF Copy!CopyBlock
<1>5. v2' \in Copy!Files /\ Len(v2') = Len(v2) + 1 /\ v2' # << >>
  BY <1>1, <1>4 DEF Copy!Files
<1>6. v2 = Copy!Version(v1.mtime, Len(v2)) => v2' = Copy!Version(v1.mtime, Len(v2'))
  BY <1>1, <1>2, <1>4, <1>5, CopyVersion
<1>7. QED BY <1>1, <1>4, <1>5, <1>6

(* What an edit does to the source.                                          *)
LEMMA CopyEdits ==
    ASSUME Copy!Inv, Copy!Edit
    PROVE  /\ v1'.content \in Copy!Files /\ v1'.mtime = v1.mtime + 1 /\ v1'.mtime \in 0 .. MaxEdits
           /\ v1' \in [content : Copy!Files, mtime : Nat]
           /\ v1'.content = Copy!Version(v1'.mtime, Len(v1'.content)) /\ Len(v1'.content) > 0
<1>1. PICK n \in Lengths :
        v1' = [content |-> Copy!Version(v1.mtime + 1, n), mtime |-> v1.mtime + 1]
  BY DEF Copy!Edit
<1>2. MaxEdits \in Nat /\ v1.mtime \in 0 .. MaxEdits
  BY BoundsAreNatural DEF Copy!Inv, Copy!Shape, Copy!TypeOK
<1>3. v1.mtime < MaxEdits
  BY DEF Copy!Edit
<1>4. v1.mtime + 1 \in 0 .. MaxEdits /\ v1.mtime + 1 \in -1 .. MaxEdits /\ n \in Nat /\ n > 0
  BY <1>2, <1>3, StagingAssumption
<1>5. Copy!Version(v1.mtime + 1, n) \in Copy!Files /\ Len(Copy!Version(v1.mtime + 1, n)) = n
  BY <1>4, CopyVersion
<1>6. QED BY <1>1, <1>4, <1>5

(* The invariant of a staging holds initially.                               *)
LEMMA CopyInit == Copy!Init => Copy!Inv
<1> SUFFICES ASSUME Copy!Init PROVE Copy!Inv
  OBVIOUS
<1>1. PICK n \in Lengths : v1 = [content |-> Copy!Version(0, n), mtime |-> 0]
  BY DEF Copy!Init
<1>2. n \in Nat /\ n > 0 /\ 0 \in -1 .. MaxEdits
  BY StagingAssumption, BoundsAreNatural
<1>3. v1.content \in Copy!Files /\ v1.mtime = 0 /\ Len(v1.content) = n /\ << >> \in Copy!Files
  BY <1>1, <1>2, CopyVersion DEF Copy!Files
<1>m. MaxEdits \in Nat /\ MaxCrashes \in Nat BY BoundsAreNatural
<1> USE <1>m DEF Copy!Init, Copy!NoState
<1>4. Copy!Shape
  BY <1>1, <1>3 DEF Copy!Shape, Copy!TypeOK, Copy!Results
<1>5. Copy!Times /\ Copy!Calls /\ Copy!Pure /\ Copy!FaithfulCopy
  BY <1>1, <1>2, <1>3 DEF Copy!Times, Copy!Calls, Copy!Pure, Copy!FaithfulCopy, Copy!Fresh, Copy!Running
<1>6. QED BY <1>4, <1>5 DEF Copy!Inv

(* Every action keeps the shape of the copy and of its state file.           *)
LEMMA CopyShape ==
    ASSUME Copy!Inv, Copy!Next
    PROVE  Copy!Shape'
<1>n. MaxEdits \in Nat /\ MaxCrashes \in Nat
  BY BoundsAreNatural
<1> USE <1>n DEF Copy!Inv, Copy!Shape, Copy!TypeOK, Copy!files, Copy!world, Copy!End,
        Copy!Goto, Copy!Saved, Copy!Results
<1>0. << >> \in Copy!Files BY DEF Copy!Files
<1>a. ASSUME NEW s \in Copy!Files PROVE Len(s) \in Nat
  BY <1>a DEF Copy!Files
<1> USE <1>0, <1>a
<1>1. CASE Copy!Call BY <1>1 DEF Copy!Call
<1>2. CASE Copy!Reconcile BY <1>2 DEF Copy!Reconcile
<1>3. CASE Copy!Resume BY <1>3 DEF Copy!Resume
<1>4. CASE Copy!RefuseToTouch BY <1>4 DEF Copy!RefuseToTouch
<1>5. CASE Copy!CopyBlock
  <2>1. v2' \in Copy!Files BY <1>5, CopyAppends
  <2>2. QED BY <1>5, <2>1 DEF Copy!CopyBlock
<1>6. CASE Copy!Checkpoint BY <1>6 DEF Copy!Checkpoint
<1>7. CASE Copy!SourceEnded BY <1>7 DEF Copy!SourceEnded
<1>8. CASE Copy!Verify BY <1>8 DEF Copy!Verify
<1>9. CASE Copy!WrongChecksum BY <1>9 DEF Copy!WrongChecksum
<1>10. CASE Copy!Promote BY <1>10 DEF Copy!Promote
<1>11. CASE Copy!Complete BY <1>11 DEF Copy!Complete
<1>12. CASE Copy!Blocked BY <1>12 DEF Copy!Blocked
<1>13. CASE Copy!Crash BY <1>13 DEF Copy!Crash
<1>14. CASE Copy!Edit
  <2>1. v1' \in [content : Copy!Files, mtime : Nat] /\ v1'.mtime \in 0 .. MaxEdits
    BY ONLY <1>14, CopyEdits, Copy!Inv
  <2>2. /\ UNCHANGED <<v2, v3, v4, v5, v8>> /\ v7' = v7 \cup {"edit"}
        /\ v6' = [v6 EXCEPT !.touched = TRUE]
    BY ONLY <1>14 DEF Copy!Edit, Copy!files
  <2>3. QED
    BY ONLY Copy!Inv, <2>1, <2>2 DEF Copy!Inv, Copy!Shape, Copy!TypeOK, Copy!Results
<1>15. CASE Copy!Tamper
  <2>1. Copy!Version(-1, Len(v3)) \in Copy!Files
    <3>1. -1 \in -1 .. MaxEdits /\ Len(v3) \in Nat BY <1>n, <1>a
    <3>2. QED BY <3>1, CopyVersion
  <2>2. v3' \in Copy!Files BY <1>15, <2>1 DEF Copy!Tamper
  <2>3. QED BY <1>15, <2>2 DEF Copy!Tamper
<1>16. QED
  BY <1>1, <1>2, <1>3, <1>4, <1>5, <1>6, <1>7, <1>8, <1>9, <1>10, <1>11, <1>12, <1>13, <1>14, <1>15
  DEF Copy!Next, Copy!Step

(* What a state file of the current source describes is a copy of it, block  *)
(* by block, and a call returns only on all of it.                           *)
LEMMA CopyKept ==
    ASSUME Copy!Inv, Copy!Shape', Copy!Next
    PROVE  Copy!Times' /\ Copy!Calls' /\ Copy!Pure' /\ Copy!FaithfulCopy'
<1>n. MaxEdits \in Nat /\ MaxCrashes \in Nat
  BY BoundsAreNatural
<1> USE <1>n DEF Copy!Inv, Copy!Shape, Copy!TypeOK, Copy!files, Copy!world, Copy!End,
        Copy!Goto, Copy!Saved, Copy!Results, Copy!Times, Copy!Calls, Copy!Pure, Copy!FaithfulCopy,
        Copy!Fresh, Copy!Running, Copy!Current, Copy!Matches, Copy!NoState
<1>a. ASSUME NEW s \in Copy!Files PROVE Len(s) \in Nat
  BY <1>a DEF Copy!Files
<1>b. Copy!Version(v1.mtime, 0) = << >>
  <2>1. v1.mtime \in -1 .. MaxEdits /\ 0 \in Nat BY <1>n
  <2>2. QED BY <2>1, CopyVersion
<1> USE <1>a, <1>b
<1>1. CASE Copy!Call
  <2>1. Len(v1.content) \in Nat OBVIOUS
  <2>2. QED BY <1>1, <2>1 DEF Copy!Call
<1>2. CASE Copy!Reconcile BY <1>2 DEF Copy!Reconcile, Copy!Accepted, Copy!Compared, Copy!Expected
<1>3. CASE Copy!Resume BY <1>3 DEF Copy!Resume, Copy!Resumable, Copy!Finished
<1>4. CASE Copy!RefuseToTouch BY <1>4 DEF Copy!RefuseToTouch
<1>5. CASE Copy!CopyBlock
  <2>1. /\ Len(v2') = Len(v2) + 1 /\ v2' # << >>
        /\ v2 = Copy!Version(v1.mtime, Len(v2)) => v2' = Copy!Version(v1.mtime, Len(v2'))
    BY <1>5, CopyAppends
  <2>2. QED BY <1>5, <2>1 DEF Copy!CopyBlock
<1>6. CASE Copy!Checkpoint BY <1>6 DEF Copy!Checkpoint
<1>7. CASE Copy!SourceEnded BY <1>7 DEF Copy!SourceEnded
<1>8. CASE Copy!Verify BY <1>8 DEF Copy!Verify, Copy!Copied, Copy!Checked
<1>9. CASE Copy!WrongChecksum BY <1>9 DEF Copy!WrongChecksum
<1>10. CASE Copy!Promote
  <2>1. v2' = << >> /\ Len(v2') = 0 /\ v3' = v2
    BY <1>10 DEF Copy!Promote
  <2>2. QED BY <1>10, <2>1 DEF Copy!Promote
<1>11. CASE Copy!Complete BY <1>11 DEF Copy!Complete
<1>12. CASE Copy!Blocked BY <1>12 DEF Copy!Blocked
<1>13. CASE Copy!Crash BY <1>13 DEF Copy!Crash
<1>14. CASE Copy!Edit
  <2>1. /\ v1'.mtime = v1.mtime + 1
        /\ v1'.content = Copy!Version(v1'.mtime, Len(v1'.content)) /\ Len(v1'.content) > 0
    BY ONLY <1>14, CopyEdits, Copy!Inv
  <2>2. /\ UNCHANGED <<v2, v3, v4, v5, v8>> /\ v7' = v7 \cup {"edit"}
        /\ v6' = [v6 EXCEPT !.touched = TRUE]
    BY ONLY <1>14 DEF Copy!Edit, Copy!files
  <2>3. QED BY <2>1, <2>2
<1>15. CASE Copy!Tamper BY <1>15 DEF Copy!Tamper
<1>16. QED
  BY <1>1, <1>2, <1>3, <1>4, <1>5, <1>6, <1>7, <1>8, <1>9, <1>10, <1>11, <1>12, <1>13, <1>14, <1>15
  DEF Copy!Next, Copy!Step

(* The invariant of a staging is inductive.                                  *)
LEMMA CopyStep == Copy!Inv /\ [Copy!Next]_(Copy!vars) => Copy!Inv'
<1> SUFFICES ASSUME Copy!Inv, [Copy!Next]_(Copy!vars) PROVE Copy!Inv'
  OBVIOUS
<1>1. CASE UNCHANGED Copy!vars
  BY <1>1 DEF Copy!vars, Copy!Inv, Copy!Shape, Copy!TypeOK, Copy!Times, Copy!Calls, Copy!Pure,
              Copy!FaithfulCopy, Copy!Running, Copy!Current, Copy!Fresh, Copy!Matches
<1>2. CASE Copy!Next
  BY <1>2, CopyShape, CopyKept DEF Copy!Inv
<1>3. QED BY <1>1, <1>2

(* No step takes a copied block away: a partial grows or becomes the destination.*)
LEMMA CopyKeepsPartial == Copy!Inv /\ Copy!Next => Copy!PartialKept
<1> SUFFICES ASSUME Copy!Inv, Copy!Next, v2' # v2 PROVE Copy!PartialKept
  BY DEF Copy!PartialKept
<1>1. Copy!CopyBlock \/ Copy!Promote
  BY DEF Copy!Next, Copy!Step, Copy!Call, Copy!Reconcile, Copy!Resume, Copy!RefuseToTouch,
         Copy!Checkpoint, Copy!SourceEnded, Copy!Verify, Copy!WrongChecksum, Copy!Complete,
         Copy!Blocked, Copy!Crash, Copy!Edit, Copy!Tamper, Copy!files, Copy!world
<1>2. CASE Copy!CopyBlock BY <1>2, CopyAppends DEF Copy!PartialKept
<1>3. CASE Copy!Promote BY <1>3 DEF Copy!Promote, Copy!PartialKept
<1>4. QED BY <1>1, <1>2, <1>3

(***************************************************************************)
(* The history of a render.                                                *)
(***************************************************************************)
(* The invariant of the history holds initially.                             *)
LEMMA HistoryInit == History!Init => History!Inv
  BY DEF History!Init, History!Inv, History!TypeOK, History!Success, History!InStep, History!Step,
         History!ResumeOnlyUndelivered, History!CompleteIsDelivered, History!ShadowAgrees

(* Every action of a render or of a start keeps the shape of the records.    *)
LEMMA HistoryTypes == History!Inv /\ History!Next => History!TypeOK'
<1> SUFFICES ASSUME History!Inv, History!Next PROVE History!TypeOK'
  OBVIOUS
<1> USE DEF History!Inv, History!TypeOK, History!JobStates, History!legacy, History!files,
        History!rest, History!Transition, History!TransitionFrom, History!Written, History!Failed,
        History!Readable, History!Current, History!Migrated, History!Discovered, History!Classified
<1>1. CASE History!WriteJob BY <1>1 DEF History!WriteJob
<1>2. CASE History!Create BY <1>2 DEF History!Create
<1>3. CASE History!Preflight BY <1>3 DEF History!Preflight
<1>4. CASE History!Ends BY <1>4 DEF History!Ends
<1>5. CASE History!WritePlan BY <1>5 DEF History!WritePlan
<1>6. CASE History!RunAndContracts BY <1>6 DEF History!RunAndContracts
<1>7. CASE History!WriteVerification BY <1>7 DEF History!WriteVerification
<1>8. CASE History!Promote BY <1>8 DEF History!Promote
<1>9. CASE History!FinishJob BY <1>9 DEF History!FinishJob
<1>10. CASE History!FinishManifest
  <2>0. v2 \in {"success", "cancelled", "error"}
    BY <1>10 DEF History!FinishManifest, History!Success, History!Step
  <2>1. ASSUME NEW S, NEW t \in {"verifying", "complete", "cancelled", "blocked"},
               History!TransitionFrom(S, t)
        PROVE  v6' \in History!JobStates \cup {"none", "bad"} /\ v7' \in History!JobStates \cup {"none", "bad"}
    BY <2>1
  <2>2. v6' \in History!JobStates \cup {"none", "bad"} /\ v7' \in History!JobStates \cup {"none", "bad"}
    BY <1>10, <2>0, <2>1 DEF History!FinishManifest
  <2>3. v1' \in {"off", "shadow"}
    BY <1>10, <2>0 DEF History!FinishManifest
  <2>4. QED BY <1>10, <2>2, <2>3 DEF History!FinishManifest
<1>11. CASE History!Crash BY <1>11 DEF History!Crash
<1>12. CASE History!Migrate BY <1>12 DEF History!Migrate
<1>13. CASE History!Start BY <1>13 DEF History!Start
<1>14. CASE History!SetRing BY <1>14 DEF History!SetRing
<1>15. CASE History!Rot BY <1>15 DEF History!Rot
<1>16. QED BY <1>1, <1>2, <1>3, <1>4, <1>5, <1>6, <1>7, <1>8, <1>9, <1>10, <1>11, <1>12, <1>13,
    <1>14, <1>15
  DEF History!Next, History!Render

(* A job is declared done if and only if its output is delivered.            *)
LEMMA HistorySuccess == History!Inv /\ History!Next => History!Success' /\ History!CompleteIsDelivered'
<1> SUFFICES ASSUME History!Inv, History!Next PROVE History!Success' /\ History!CompleteIsDelivered'
  OBVIOUS
<1> USE DEF History!Inv, History!TypeOK, History!legacy, History!files, History!rest,
    History!Transition,
        History!TransitionFrom, History!Written, History!Failed, History!Readable, History!Current,
        History!Migrated, History!Success, History!InStep, History!Step, History!CompleteIsDelivered
<1>1. CASE History!WriteJob BY <1>1 DEF History!WriteJob
<1>2. CASE History!Create BY <1>2 DEF History!Create
<1>3. CASE History!Preflight BY <1>3 DEF History!Preflight
<1>4. CASE History!Ends BY <1>4 DEF History!Ends
<1>5. CASE History!WritePlan BY <1>5 DEF History!WritePlan
<1>6. CASE History!RunAndContracts BY <1>6 DEF History!RunAndContracts
<1>7. CASE History!WriteVerification BY <1>7 DEF History!WriteVerification
<1>8. CASE History!Promote BY <1>8 DEF History!Promote
<1>9. CASE History!FinishJob BY <1>9 DEF History!FinishJob
<1>10. CASE History!FinishManifest BY <1>10 DEF History!FinishManifest
<1>11. CASE History!Crash BY <1>11 DEF History!Crash
<1>12. CASE History!Migrate BY <1>12 DEF History!Migrate
<1>13. CASE History!Start BY <1>13 DEF History!Start
<1>14. CASE History!SetRing BY <1>14 DEF History!SetRing
<1>15. CASE History!Rot BY <1>15 DEF History!Rot
<1>16. QED BY <1>1, <1>2, <1>3, <1>4, <1>5, <1>6, <1>7, <1>8, <1>9, <1>10, <1>11, <1>12, <1>13,
    <1>14, <1>15
  DEF History!Next, History!Render

(* The shadow manifest is at the stage of the render it follows, unless one  *)
(* of its writes was missed.                                                 *)
LEMMA HistoryInStep == History!Inv /\ History!Next => History!InStep' /\ History!ShadowAgrees'
<1> SUFFICES ASSUME History!Inv, History!Next PROVE History!InStep' /\ History!ShadowAgrees'
  OBVIOUS
<1> USE DEF History!Inv, History!TypeOK, History!JobStates, History!legacy, History!files, History!rest,
        History!Transition, History!TransitionFrom, History!Written, History!Failed, History!Readable,
        History!Current, History!Migrated, History!Success, History!InStep, History!Step,
        History!ShadowAgrees
<1>1. CASE History!WriteJob BY <1>1 DEF History!WriteJob
<1>2. CASE History!Create BY <1>2 DEF History!Create
<1>3. CASE History!Preflight BY <1>3 DEF History!Preflight
<1>4. CASE History!Ends BY <1>4 DEF History!Ends
<1>5. CASE History!WritePlan BY <1>5 DEF History!WritePlan
<1>6. CASE History!RunAndContracts BY <1>6 DEF History!RunAndContracts
<1>7. CASE History!WriteVerification BY <1>7 DEF History!WriteVerification
<1>8. CASE History!Promote BY <1>8 DEF History!Promote
<1>9. CASE History!FinishJob BY <1>9 DEF History!FinishJob
<1>10. CASE History!FinishManifest BY <1>10 DEF History!FinishManifest
<1>11. CASE History!Crash BY <1>11 DEF History!Crash
<1>12. CASE History!Migrate BY <1>12 DEF History!Migrate
<1>13. CASE History!Start BY <1>13 DEF History!Start
<1>14. CASE History!SetRing BY <1>14 DEF History!SetRing
<1>15. CASE History!Rot BY <1>15 DEF History!Rot
<1>16. QED BY <1>1, <1>2, <1>3, <1>4, <1>5, <1>6, <1>7, <1>8, <1>9, <1>10, <1>11, <1>12, <1>13,
    <1>14, <1>15
  DEF History!Next, History!Render

(* What a start offers to resume has not been delivered.                     *)
LEMMA HistoryResumes == History!Inv /\ History!Next => History!ResumeOnlyUndelivered'
<1> SUFFICES ASSUME History!Inv, History!Next PROVE History!ResumeOnlyUndelivered'
  OBVIOUS
<1> USE DEF History!Inv, History!TypeOK, History!legacy, History!files, History!rest,
    History!Transition,
        History!TransitionFrom, History!Written, History!Failed, History!Success, History!InStep,
        History!Step, History!ResumeOnlyUndelivered, History!Discovered, History!Classified
<1>1. CASE History!WriteJob BY <1>1 DEF History!WriteJob
<1>2. CASE History!Create BY <1>2 DEF History!Create
<1>3. CASE History!Preflight BY <1>3 DEF History!Preflight
<1>4. CASE History!Ends BY <1>4 DEF History!Ends
<1>5. CASE History!WritePlan BY <1>5 DEF History!WritePlan
<1>6. CASE History!RunAndContracts BY <1>6 DEF History!RunAndContracts
<1>7. CASE History!WriteVerification BY <1>7 DEF History!WriteVerification
<1>8. CASE History!Promote BY <1>8 DEF History!Promote
<1>9. CASE History!FinishJob BY <1>9 DEF History!FinishJob
<1>10. CASE History!FinishManifest BY <1>10 DEF History!FinishManifest
<1>11. CASE History!Crash BY <1>11 DEF History!Crash
<1>12. CASE History!Migrate BY <1>12 DEF History!Migrate
<1>13. CASE History!Start BY <1>13 DEF History!Start
<1>14. CASE History!SetRing BY <1>14 DEF History!SetRing
<1>15. CASE History!Rot BY <1>15 DEF History!Rot
<1>16. QED BY <1>1, <1>2, <1>3, <1>4, <1>5, <1>6, <1>7, <1>8, <1>9, <1>10, <1>11, <1>12, <1>13,
    <1>14, <1>15
  DEF History!Next, History!Render

(* The invariant of the history is inductive.                                *)
LEMMA HistoryStep == History!Inv /\ [History!Next]_(History!vars) => History!Inv'
<1> SUFFICES ASSUME History!Inv, [History!Next]_(History!vars) PROVE History!Inv'
  OBVIOUS
<1>1. CASE UNCHANGED History!vars
  BY <1>1 DEF History!vars, History!Inv, History!TypeOK, History!Success, History!InStep, History!Step,
         History!ResumeOnlyUndelivered, History!CompleteIsDelivered, History!ShadowAgrees, History!Migrated
<1>2. CASE History!Next
  BY <1>2, HistoryTypes, HistorySuccess, HistoryInStep, HistoryResumes DEF History!Inv
<1>3. QED BY <1>1, <1>2

(* A discovery hides only what is complete, and that was delivered.           *)
LEMMA HistoryLists == History!Inv /\ History!Next => History!ListedWhenFound
<1> SUFFICES ASSUME History!Inv, History!Next, v12' # v12, v10 >= 3, ~v8, v6 # "none" \/ v7 # "none"
             PROVE  v11' # "none"
  BY DEF History!ListedWhenFound
<1>1. History!Start
  BY DEF History!Next, History!Render, History!WriteJob, History!Create, History!Preflight,
      History!Ends,
         History!WritePlan, History!RunAndContracts, History!WriteVerification, History!Promote,
         History!FinishJob, History!FinishManifest, History!Crash, History!Migrate, History!SetRing,
         History!Rot, History!rest
<1>2. QED
  BY <1>1 DEF History!Start, History!Discovered, History!Classified, History!Readable, History!Inv,
              History!Success, History!CompleteIsDelivered

(***************************************************************************)
(* The stores of what was measured.                                        *)
(***************************************************************************)
(* The fastest of the samples that succeeded is one of them, and no other is *)
(* faster.                                                                   *)
LEMMA EvidenceFastest ==
    ASSUME NEW n \in {2, 3}, NEW s \in [1 .. n -> Evidence!Sample], \E i \in 1 .. n : s[i].ok
    PROVE  /\ Evidence!Fastest(s) \in 1 .. n /\ s[Evidence!Fastest(s)].ok
           /\ \A i \in 1 .. n : s[i].ok => s[Evidence!Fastest(s)].seconds <= s[i].seconds
<1> DEFINE P(i) == /\ s[i].ok
                   /\ \A j \in DOMAIN s : s[j].ok => \/ s[i].seconds < s[j].seconds
                                                     \/ s[i].seconds = s[j].seconds /\ i <= j
<1>1. \A i \in 1 .. n : s[i].seconds \in Nat
  BY EvidenceAssumption DEF Evidence!Sample
<1>2. \E i \in 1 .. n : P(i)
  <2>1. CASE n = 2 BY <1>1, <2>1
  <2>2. CASE n = 3 BY <1>1, <2>2
  <2>3. QED BY <2>1, <2>2
<1>3. Evidence!Fastest(s) = CHOOSE i \in 1 .. n : P(i)
  BY DEF Evidence!Fastest
<1>4. Evidence!Fastest(s) \in 1 .. n /\ P(Evidence!Fastest(s))
  <2> HIDE DEF P
  <2>1. QED BY <1>2, <1>3
<1>5. QED BY <1>1, <1>4

(* A winner is a candidate, or 0.                                            *)
LEMMA EvidenceWinner ==
    ASSUME v1 \in Kinds, NEW s \in [Evidence!Tried -> Evidence!Sample]
    PROVE  /\ Evidence!Winner(s) \in 0 .. 3
           /\ Evidence!Winner(s) # 0 =>
                LET w == Evidence!Winner(s)
                    least == IF v1 = "trt" THEN 115 ELSE IF v1 = "cpu" THEN 100 ELSE 103
                IN /\ w \in Evidence!Tried /\ s[w].ok
                   /\ w # 1 /\ s[1].ok => 100 * s[1].seconds >= least * s[w].seconds
                   /\ v1 \in Evidence!Tuned =>
                        \A i \in Evidence!Tried : s[i].ok => 100 * s[w].seconds < 103 * s[i].seconds
<1> DEFINE n == IF v1 \in Evidence!Tuned THEN 3 ELSE 2
           W == Evidence!Winner(s)
           F == Evidence!Fastest(s)
<1>1. n \in {2, 3} /\ Evidence!Tried = 1 .. n /\ s \in [1 .. n -> Evidence!Sample] /\ DOMAIN s = 1 .. n
  BY DEF Evidence!Tried
<1>2. \A i \in 1 .. n : s[i].seconds \in Nat \ {0} /\ s[i].ok \in BOOLEAN
  BY <1>1, EvidenceAssumption DEF Evidence!Sample
<1>3. ASSUME \E i \in 1 .. n : s[i].ok
      PROVE  /\ F \in 1 .. n /\ s[F].ok
             /\ \A i \in 1 .. n : s[i].ok => s[F].seconds <= s[i].seconds
  <2> HIDE DEF n
  <2>1. QED BY <1>1, <1>3, EvidenceFastest
<1>4. 1 \in 1 .. n /\ 2 \in 1 .. n /\ 0 \in 0 .. 3 /\ 1 .. n \subseteq 0 .. 3
  BY <1>1
<1> HIDE DEF n, F
<1>5. CASE v1 \in {"rife", "esrgan"}
  <2>1. W = IF ~s[1].ok THEN 0 ELSE IF 100 * s[1].seconds >= 103 * s[F].seconds THEN F ELSE 1
    BY <1>5 DEF F, Evidence!Winner, Evidence!RifeWinner, Evidence!RealEsrganWinner, Evidence!Speedup
  <2>2. CASE ~s[1].ok BY <2>1, <2>2
  <2>3. CASE s[1].ok /\ 100 * s[1].seconds >= 103 * s[F].seconds
    <3>1. W = F BY <2>1, <2>3
    <3>2. F \in 1 .. n /\ s[F].ok /\ \A i \in 1 .. n : s[i].ok => s[F].seconds <= s[i].seconds
      BY <1>3, <1>4, <2>3
    <3>3. \A i \in 1 .. n : s[i].ok => 100 * s[F].seconds < 103 * s[i].seconds BY <3>2, <1>2
    <3>4. QED BY <1>1, <1>4, <1>5, <2>3, <3>1, <3>2, <3>3
  <2>4. CASE s[1].ok /\ ~(100 * s[1].seconds >= 103 * s[F].seconds)
    <3>1. W = 1 BY <2>1, <2>4
    <3>2. F \in 1 .. n /\ s[F].ok /\ \A i \in 1 .. n : s[i].ok => s[F].seconds <= s[i].seconds
      BY <1>3, <1>4, <2>4
    <3>3. \A i \in 1 .. n : s[i].ok => 100 * s[1].seconds < 103 * s[i].seconds BY <1>4, <3>2, <1>2, <2>4
    <3>4. QED BY <1>1, <1>4, <1>5, <2>4, <3>1, <3>3
  <2>5. QED BY <1>2, <1>4, <2>2, <2>3, <2>4
<1>6. CASE v1 = "cpu"
  <2>1. W = IF \E i \in 1 .. n : s[i].ok THEN F ELSE 0
    BY <1>1, <1>6 DEF F, Evidence!Winner, Evidence!CpuWinner
  <2>2. CASE \E i \in 1 .. n : s[i].ok
    <3>1. W = F /\ F \in 1 .. n /\ s[F].ok BY <1>3, <2>1, <2>2
    <3>2. \A i \in 1 .. n : s[i].ok => s[F].seconds <= s[i].seconds BY <1>3, <2>2
    <3>3. \A i \in 1 .. n : s[i].ok => 100 * s[F].seconds < 103 * s[i].seconds
                                       /\ 100 * s[i].seconds >= 100 * s[F].seconds
      BY <1>2, <3>1, <3>2
    <3>4. QED BY <1>1, <1>4, <1>6, <3>1, <3>3
  <2>3. CASE ~\E i \in 1 .. n : s[i].ok BY <2>1, <2>3
  <2>4. QED BY <2>2, <2>3
<1>7. CASE v1 \in {"media", "encode", "trt"}
  <2> DEFINE least == IF v1 = "trt" THEN 115 ELSE 103
  <2>1. W = IF s[2].ok /\ 100 * s[1].seconds >= least * s[2].seconds THEN 2 ELSE 0
    BY <1>7 DEF Evidence!Winner, Evidence!MediaWinner, Evidence!EncodeWinner,
                Evidence!TensorRtWinner, Evidence!Speedup
  <2>2. v1 \notin Evidence!Tuned BY <1>7 DEF Evidence!Tuned
  <2>3. CASE s[2].ok /\ 100 * s[1].seconds >= least * s[2].seconds
    <3>1. W = 2 BY <2>1, <2>3
    <3>2. QED BY <1>1, <1>4, <1>7, <2>2, <2>3, <3>1
  <2>4. CASE ~(s[2].ok /\ 100 * s[1].seconds >= least * s[2].seconds) BY <2>1, <2>4
  <2>5. QED BY <2>3, <2>4
<1>8. QED BY <1>5, <1>6, <1>7, EvidenceAssumption

(* What a benchmark is about to record is earned.                            *)
LEMMA EvidenceEarned == Evidence!Inv => Evidence!Earned
<1> SUFFICES ASSUME Evidence!Inv, NEW b \in Benchmarks, v5[b] = "write"
             PROVE  LET s == v8[b]
                        w == Evidence!Winner(s)
                        least == IF v1 = "trt" THEN 115 ELSE IF v1 = "cpu" THEN 100 ELSE 103
                    IN /\ w # 0 /\ s[w].ok
                       /\ w # 1 /\ s[1].ok => 100 * s[1].seconds >= least * s[w].seconds
                       /\ \A i \in DOMAIN s : s[i].ok => 100 * s[w].seconds < 103 * s[i].seconds
                                                           \/ v1 \notin Evidence!Tuned
  BY DEF Evidence!Earned
<1>1. v1 \in Kinds /\ v8[b] \in [Evidence!Tried -> Evidence!Sample] /\ Evidence!Winner(v8[b]) # 0
  BY DEF Evidence!Inv, Evidence!Shape, Evidence!TypeOK, Evidence!Measured
<1>2. DOMAIN v8[b] = Evidence!Tried BY <1>1
<1>3. QED BY <1>1, <1>2, EvidenceWinner

(* The invariant of the stores holds initially.                              *)
LEMMA EvidenceInit == Evidence!Init => Evidence!Inv
<1> SUFFICES ASSUME Evidence!Init PROVE Evidence!Inv
  OBVIOUS
<1> USE EvidenceAssumption DEF Evidence!Init
<1>1. Evidence!Unmeasured \in [Evidence!Tried -> Evidence!Sample]
  BY DEF Evidence!Unmeasured, Evidence!Sample
<1>2. Evidence!Shape
  BY <1>1 DEF Evidence!Shape, Evidence!TypeOK, Evidence!Nothing, Evidence!Nobody
<1>3. Evidence!Locked /\ Evidence!Measured /\ Evidence!StaysRevoked
  BY DEF Evidence!Locked, Evidence!Measured, Evidence!StaysRevoked, Evidence!Parties
<1>4. QED BY <1>2, <1>3 DEF Evidence!Inv

(* Neither the store nor how a winner is chosen changes.                      *)
LEMMA EvidenceKind ==
    ASSUME Evidence!Next
    PROVE  /\ v1' = v1 /\ Evidence!Tried' = Evidence!Tried /\ Evidence!Unmeasured' = Evidence!Unmeasured
           /\ \A s : Evidence!Winner(s)' = Evidence!Winner(s)
<1>k. v1' = v1
  BY DEF Evidence!Next, Evidence!Measure, Evidence!Record, Evidence!Start, Evidence!Invalidate,
         Evidence!Ends, Evidence!FastFails, Evidence!Lock, Evidence!Load, Evidence!StoreFails,
         Evidence!Kill, Evidence!Rot
<1>1. QED BY <1>k DEF Evidence!Tried, Evidence!Unmeasured, Evidence!Winner

(* Every action of a benchmark or of a render keeps the shape of the records.*)
LEMMA EvidenceTypes ==
    ASSUME Evidence!Inv, Evidence!Next
    PROVE  Evidence!Shape'
<1> USE EvidenceAssumption DEF Evidence!Inv, Evidence!Shape, Evidence!TypeOK, Evidence!Measured,
        Evidence!file, Evidence!Goto, Evidence!Parties, Evidence!Nobody, Evidence!Nothing, Evidence!Tuned
<1>a. v1' = v1 /\ Evidence!Tried' = Evidence!Tried /\ Evidence!Unmeasured' = Evidence!Unmeasured
  BY EvidenceKind
<1>b. \A b \in Benchmarks : Evidence!Winner(v8[b]) \in 0 .. 3
  BY EvidenceWinner DEF Evidence!Inv, Evidence!Shape, Evidence!TypeOK
<1>c. Evidence!Unmeasured \in [Evidence!Tried -> Evidence!Sample]
  BY DEF Evidence!Unmeasured, Evidence!Sample
<1>d. 0 \in 0 .. 3
  OBVIOUS
<1> USE <1>a, <1>b, <1>c, <1>d
<1>1. ASSUME NEW b \in Benchmarks, Evidence!Measure(b) PROVE Evidence!Shape'
  BY <1>1 DEF Evidence!Measure
<1>2. ASSUME NEW b \in Benchmarks, Evidence!Record(b) PROVE Evidence!Shape'
  BY <1>2 DEF Evidence!Record, Evidence!Leave
<1>3. ASSUME NEW r \in EvidenceRenders, Evidence!Start(r) PROVE Evidence!Shape'
  BY <1>3 DEF Evidence!Start, Evidence!Lookup
<1>4. ASSUME NEW r \in EvidenceRenders, Evidence!Invalidate(r) PROVE Evidence!Shape'
  <2>1. v7[r] \in [Keys -> 0 .. 3] /\ v6[r] \in Keys /\ [v7[r] EXCEPT ![v6[r]] = 0] \in [Keys -> 0 .. 3]
    OBVIOUS
  <2>2. v2' \in BOOLEAN /\ v3' \in [Keys -> 0 .. 3]
    BY <1>4, <2>1 DEF Evidence!Invalidate
  <2>3. QED BY <1>4, <2>2 DEF Evidence!Invalidate, Evidence!Leave
<1>5. ASSUME NEW r \in EvidenceRenders, Evidence!Ends(r) PROVE Evidence!Shape' BY <1>5 DEF Evidence!Ends
<1>6. ASSUME NEW r \in EvidenceRenders, NEW why, Evidence!FastFails(r, why) PROVE Evidence!Shape'
  BY <1>6 DEF Evidence!FastFails, Evidence!MediaFails, Evidence!EncodeFails, Evidence!TensorRtFails
<1>7. ASSUME NEW p \in Evidence!Parties, Evidence!Lock(p) PROVE Evidence!Shape'
  BY <1>7 DEF Evidence!Lock
<1>8. ASSUME NEW p \in Evidence!Parties, Evidence!Load(p) PROVE Evidence!Shape'
  BY <1>8 DEF Evidence!Load
<1>9. ASSUME NEW p \in Evidence!Parties, Evidence!StoreFails(p) PROVE Evidence!Shape'
  BY <1>9 DEF Evidence!StoreFails, Evidence!Leave
<1>10. ASSUME NEW p \in Evidence!Parties, Evidence!Kill(p) PROVE Evidence!Shape'
  BY <1>10 DEF Evidence!Kill, Evidence!Leave
<1>11. CASE Evidence!Rot BY <1>11 DEF Evidence!Rot
<1>12. QED BY <1>1, <1>2, <1>3, <1>4, <1>5, <1>6, <1>7, <1>8, <1>9, <1>10, <1>11 DEF Evidence!Next

(* Whoever rewrites the store holds its lock and has what is in it, and what *)
(* was withdrawn has no winner.                                              *)
LEMMA EvidenceLocked ==
    ASSUME Evidence!Inv, Evidence!Shape', Evidence!Next
    PROVE  Evidence!Locked' /\ Evidence!StaysRevoked'
<1> USE EvidenceAssumption DEF Evidence!Inv, Evidence!Shape, Evidence!TypeOK, Evidence!Locked,
        Evidence!StaysRevoked, Evidence!file, Evidence!Goto, Evidence!Parties, Evidence!Nobody,
        Evidence!Nothing
<1>1. ASSUME NEW b \in Benchmarks, Evidence!Measure(b) PROVE Evidence!Locked' /\ Evidence!StaysRevoked'
  BY <1>1 DEF Evidence!Measure
<1>2. ASSUME NEW b \in Benchmarks, Evidence!Record(b) PROVE Evidence!Locked' /\ Evidence!StaysRevoked'
  BY <1>2 DEF Evidence!Record, Evidence!Leave
<1>3. ASSUME NEW r \in EvidenceRenders, Evidence!Start(r) PROVE Evidence!Locked' /\ Evidence!StaysRevoked'
  BY <1>3 DEF Evidence!Start, Evidence!Lookup
<1>4. ASSUME NEW r \in EvidenceRenders, Evidence!Invalidate(r) PROVE Evidence!Locked' /\ Evidence!StaysRevoked'
  <2>1. v7[r] \in [Keys -> 0 .. 3] /\ v6[r] \in Keys
    OBVIOUS
  <2>2. Evidence!Locked'
    BY <1>4, <2>1 DEF Evidence!Invalidate, Evidence!Leave
  <2>0. /\ r \in Evidence!Parties /\ v5[r] = "write" /\ (v2 => v7[r] = v3)
        /\ (\A k \in v10 : v7[r][k] = 0) /\ v10' = v10 \cup {v6[r]}
    BY <1>4 DEF Evidence!Invalidate
  <2>3. CASE v7[r][v6[r]] = 0
    <3>1. v2' = v2 /\ v3' = v3 BY <1>4, <2>3 DEF Evidence!Invalidate
    <3>2. QED BY <2>0, <2>2, <2>3, <3>1
  <2>4. CASE v7[r][v6[r]] # 0
    <3>1. v3' = [v7[r] EXCEPT ![v6[r]] = 0] BY <1>4, <2>4 DEF Evidence!Invalidate
    <3>2. v3'[v6[r]] = 0 /\ \A k \in Keys : k # v6[r] => v3'[k] = v7[r][k] BY <2>1, <3>1
    <3>3. QED BY <2>0, <2>2, <3>2
  <2>5. QED BY <2>2, <2>3, <2>4
<1>5. ASSUME NEW r \in EvidenceRenders, Evidence!Ends(r) PROVE Evidence!Locked' /\ Evidence!StaysRevoked'
  BY <1>5 DEF Evidence!Ends
<1>6. ASSUME NEW r \in EvidenceRenders, NEW why, Evidence!FastFails(r, why) PROVE Evidence!Locked' /\ Evidence!StaysRevoked'
  <2>1. v1 \in {"media", "encode", "trt"}
    BY <1>6 DEF Evidence!FastFails, Evidence!Measured, Evidence!Tuned
  <2>2. v5'[r] \in {"wait", "baseline", "failed"}
    BY <1>6, <2>1 DEF Evidence!FastFails, Evidence!MediaFails, Evidence!EncodeFails,
        Evidence!TensorRtFails
  <2>3. /\ \A p \in Evidence!Parties : p # r => v5'[p] = v5[p]
        /\ v2' = v2 /\ v3' = v3 /\ v4' = v4 /\ v7' = v7 /\ v10' = v10
    BY <1>6 DEF Evidence!FastFails
  <2>4. QED BY <2>2, <2>3
<1>7. ASSUME NEW p \in Evidence!Parties, Evidence!Lock(p) PROVE Evidence!Locked' /\ Evidence!StaysRevoked'
  BY <1>7 DEF Evidence!Lock
<1>8. ASSUME NEW p \in Evidence!Parties, Evidence!Load(p) PROVE Evidence!Locked' /\ Evidence!StaysRevoked'
  BY <1>8 DEF Evidence!Load
<1>9. ASSUME NEW p \in Evidence!Parties, Evidence!StoreFails(p) PROVE Evidence!Locked' /\ Evidence!StaysRevoked'
  BY <1>9 DEF Evidence!StoreFails, Evidence!Leave
<1>10. ASSUME NEW p \in Evidence!Parties, Evidence!Kill(p) PROVE Evidence!Locked' /\ Evidence!StaysRevoked'
  BY <1>10 DEF Evidence!Kill, Evidence!Leave
<1>11. CASE Evidence!Rot BY <1>11 DEF Evidence!Rot
<1>12. QED BY <1>1, <1>2, <1>3, <1>4, <1>5, <1>6, <1>7, <1>8, <1>9, <1>10, <1>11 DEF Evidence!Next

(* A benchmark comes to record only a winner, and a render is fast only with *)
(* what is not tuned that way.                                               *)
LEMMA EvidenceMeasured ==
    ASSUME Evidence!Inv, Evidence!Shape', Evidence!Next
    PROVE  Evidence!Measured'
<1>k. v1' = v1 /\ \A s : Evidence!Winner(s)' = Evidence!Winner(s)
  BY EvidenceKind
<1> USE EvidenceAssumption, <1>k DEF Evidence!Inv, Evidence!Shape, Evidence!TypeOK, Evidence!Measured,
        Evidence!file, Evidence!Goto, Evidence!Parties
<1>1. ASSUME NEW b \in Benchmarks, Evidence!Measure(b) PROVE Evidence!Measured'
  BY <1>1 DEF Evidence!Measure
<1>2. ASSUME NEW b \in Benchmarks, Evidence!Record(b) PROVE Evidence!Measured'
  BY <1>2 DEF Evidence!Record, Evidence!Leave
<1>3. ASSUME NEW r \in EvidenceRenders, Evidence!Start(r) PROVE Evidence!Measured'
  BY <1>3 DEF Evidence!Start, Evidence!Lookup
<1>4. ASSUME NEW r \in EvidenceRenders, Evidence!Invalidate(r) PROVE Evidence!Measured'
  BY <1>4 DEF Evidence!Invalidate, Evidence!Leave
<1>5. ASSUME NEW r \in EvidenceRenders, Evidence!Ends(r) PROVE Evidence!Measured'
  BY <1>5 DEF Evidence!Ends
<1>6. ASSUME NEW r \in EvidenceRenders, NEW why, Evidence!FastFails(r, why) PROVE Evidence!Measured'
  BY <1>6 DEF Evidence!FastFails, Evidence!MediaFails, Evidence!EncodeFails, Evidence!TensorRtFails
<1>7. ASSUME NEW p \in Evidence!Parties, Evidence!Lock(p) PROVE Evidence!Measured'
  BY <1>7 DEF Evidence!Lock
<1>8. ASSUME NEW p \in Evidence!Parties, Evidence!Load(p) PROVE Evidence!Measured'
  BY <1>8 DEF Evidence!Load
<1>9. ASSUME NEW p \in Evidence!Parties, Evidence!StoreFails(p) PROVE Evidence!Measured'
  BY <1>9 DEF Evidence!StoreFails, Evidence!Leave
<1>10. ASSUME NEW p \in Evidence!Parties, Evidence!Kill(p) PROVE Evidence!Measured'
  BY <1>10 DEF Evidence!Kill, Evidence!Leave
<1>11. CASE Evidence!Rot BY <1>11 DEF Evidence!Rot
<1>12. QED BY <1>1, <1>2, <1>3, <1>4, <1>5, <1>6, <1>7, <1>8, <1>9, <1>10, <1>11 DEF Evidence!Next

(* The invariant of the stores is inductive.                                 *)
LEMMA EvidenceStep == Evidence!Inv /\ [Evidence!Next]_(Evidence!vars) => Evidence!Inv'
<1> SUFFICES ASSUME Evidence!Inv, [Evidence!Next]_(Evidence!vars) PROVE Evidence!Inv'
  OBVIOUS
<1>1. CASE UNCHANGED Evidence!vars
  BY <1>1 DEF Evidence!vars, Evidence!Inv, Evidence!Shape, Evidence!TypeOK, Evidence!Locked,
      Evidence!Measured,
              Evidence!StaysRevoked, Evidence!Tried, Evidence!Winner
<1>2. CASE Evidence!Next
  BY <1>2, EvidenceTypes, EvidenceLocked, EvidenceMeasured DEF Evidence!Inv
<1>3. QED BY <1>1, <1>2

(***************************************************************************)
(* The safe runner of RIFE.                                                *)
(***************************************************************************)
(* The policies are ordered by their pressure.                               *)
LEMMA RunnerPressure ==
  /\ Runner!Pressure(Runner!Single) = 103 /\ Runner!Pressure(Runner!Cpu) = 205
  /\ Runner!Pressure(<<2, 2, 2>>) = 206 /\ Runner!Pressure(<<3, 3, 3>>) = 309
  /\ \A j \in Runner!Jobs : Runner!Pressure(j) \in 103 .. 309 /\ j # << >>
<1> USE DEF Runner!Pressure, Runner!Single, Runner!Cpu
<1>1. Runner!Pressure(Runner!Single) = 103 OBVIOUS
<1>2. Runner!Pressure(Runner!Cpu) = 205 OBVIOUS
<1>3. Runner!Pressure(<<2, 2, 2>>) = 206 OBVIOUS
<1>4. Runner!Pressure(<<3, 3, 3>>) = 309 OBVIOUS
<1>5. ASSUME NEW j \in Runner!Jobs PROVE Runner!Pressure(j) \in 103 .. 309 /\ j # << >>
  <2>1. j \in {Runner!Single, Runner!Cpu, <<2, 2, 2>>, <<3, 3, 3>>}
    BY DEF Runner!Jobs
  <2>2. Runner!Pressure(j) \in 103 .. 309
    BY <2>1, <1>1, <1>2, <1>3, <1>4
  <2>3. j # << >> BY <2>1
  <2>4. QED BY <2>2, <2>3
<1>6. QED BY <1>1, <1>2, <1>3, <1>4, <1>5

(* The pressure of a policy is a number, and the single job's is the least.  *)
LEMMA RunnerBounds ==
  \A j \in Runner!Jobs :
    Runner!Pressure(j) \in Int /\ Runner!Pressure(Runner!Single) <= Runner!Pressure(j) /\ j # << >>
<1> SUFFICES ASSUME NEW j \in Runner!Jobs
             PROVE  /\ Runner!Pressure(j) \in Int
                    /\ Runner!Pressure(Runner!Single) <= Runner!Pressure(j) /\ j # << >>
  OBVIOUS
<1>1. Runner!Pressure(Runner!Single) = 103 /\ Runner!Pressure(j) \in 103 .. 309 /\ j # << >>
  BY RunnerPressure
<1>2. \A x \in 103 .. 309 : x \in Int /\ 103 <= x
  OBVIOUS
<1>3. QED BY <1>1, <1>2

(* The policies the runner names itself are among those it can be asked for; *)
(* the fallback is no harder on the device than the aggressive one.          *)
LEMMA RunnerJobs ==
  /\ Runner!Single \in Runner!Jobs /\ Runner!Cpu \in Runner!Jobs
  /\ Runner!FallbackPolicy \in Runner!Jobs /\ Runner!Aggressive \in Runner!Jobs
  /\ Runner!Pressure(Runner!FallbackPolicy) <= Runner!Pressure(Runner!Aggressive)
<1>1. /\ Runner!Single \in Runner!Jobs /\ Runner!Cpu \in Runner!Jobs
      /\ <<2, 2, 2>> \in Runner!Jobs /\ <<3, 3, 3>> \in Runner!Jobs
  BY DEF Runner!Jobs
<1>2. QED
  BY <1>1, RunnerPressure DEF Runner!FallbackPolicy, Runner!Aggressive

(* One run more: the last pressure is no greater than any before.             *)
LEMMA RunnerAppends ==
    ASSUME NEW s \in Seq(Runner!Jobs), NEW j \in Runner!Jobs,
           \A i \in 1 .. Len(s) : Runner!Pressure(j) <= Runner!Pressure(s[i]),
           \A i, k \in 1 .. Len(s) : i < k => Runner!Pressure(s[k]) <= Runner!Pressure(s[i]),
           NEW t, t = Append(s, j)
    PROVE  /\ t \in Seq(Runner!Jobs)
           /\ \A i \in 1 .. Len(t) : Runner!Pressure(j) <= Runner!Pressure(t[i])
           /\ \A i, k \in 1 .. Len(t) : i < k => Runner!Pressure(t[k]) <= Runner!Pressure(t[i])
           /\ \A x \in Runner!Jobs : /\ Runner!Pressure(x) <= Runner!Pressure(j)
                                     => \A i \in 1 .. Len(t) : Runner!Pressure(x) <= Runner!Pressure(t[i])
<1>1. t \in Seq(Runner!Jobs) /\ Len(t) = Len(s) + 1 /\ Len(s) \in Nat
  OBVIOUS
<1>2. \A i \in 1 .. Len(t) : t[i] = IF i = Len(t) THEN j ELSE s[i]
  BY <1>1
<1>3. \A i \in 1 .. Len(s) : s[i] \in Runner!Jobs
  OBVIOUS
<1>4. \A x \in Runner!Jobs : Runner!Pressure(x) \in Int
  BY RunnerBounds
<1>5. QED BY <1>1, <1>2, <1>3, <1>4

(* The invariant of the safe runner holds initially.                         *)
LEMMA RunnerInit == Runner!Init => Runner!Inv
<1> SUFFICES ASSUME Runner!Init PROVE Runner!Inv
  OBVIOUS
<1> USE DEF Runner!Init
<1>1. Runner!Shape
  <2>1. v7 \in BOOLEAN OBVIOUS
  <2>2. v8 \in Seq(Runner!Jobs) OBVIOUS
  <2>3. v3 \in 0 .. RunChunks BY BoundsAreNatural
  <2>4. QED BY <2>1, <2>2, <2>3, RunnerJobs DEF Runner!Shape, Runner!TypeOK
<1>2. Runner!Chosen /\ Runner!Remembered /\ Runner!NeverUpshifts /\ Runner!PublishedWhole
  BY DEF Runner!Chosen, Runner!Remembered, Runner!NeverUpshifts, Runner!PublishedWhole, Runner!Lowest
<1>3. QED BY <1>1, <1>2 DEF Runner!Inv

(* Every action keeps the shape of an attempt; a folder is published whole.  *)
LEMMA RunnerTypes ==
    ASSUME Runner!Inv, Runner!Next
    PROVE  Runner!Shape' /\ Runner!PublishedWhole'
<1>a. RunChunks \in Nat BY BoundsAreNatural
<1>b. (v7 \in BOOLEAN)'
  BY DEF Runner!Inv, Runner!Shape, Runner!TypeOK, Runner!policies, Runner!Next, Runner!Step,
         Runner!Launch, Runner!NativeSucceeds, Runner!NativeFails, Runner!Move, Runner!Retime,
         Runner!Promote, Runner!Return, Runner!Killed
<1>c. (v8 \in Seq(Runner!Jobs))'
  <2>1. v8' = v8 \/ v8' = Append(v8, v5)
    BY DEF Runner!policies, Runner!Next, Runner!Step,
           Runner!Launch, Runner!NativeSucceeds, Runner!NativeFails, Runner!Move, Runner!Retime,
           Runner!Promote, Runner!Return, Runner!Killed
  <2>2. v8 \in Seq(Runner!Jobs) /\ v5 \in Runner!Jobs
    BY DEF Runner!Inv, Runner!Shape, Runner!TypeOK
  <2>3. QED BY <2>1, <2>2
<1> USE <1>a, <1>b, <1>c, RunnerJobs DEF Runner!Inv, Runner!Shape, Runner!TypeOK, Runner!policies,
        Runner!setting, Runner!PublishedWhole, Runner!Retry
<1>1. CASE Runner!Launch BY <1>1 DEF Runner!Launch
<1>2. CASE Runner!NativeSucceeds BY <1>2 DEF Runner!NativeSucceeds
<1>3. CASE Runner!NativeFails(TRUE) BY <1>3 DEF Runner!NativeFails
<1>4. CASE Runner!NativeFails(FALSE) BY <1>4 DEF Runner!NativeFails
<1>5. CASE Runner!Move BY <1>5 DEF Runner!Move
<1>6. CASE Runner!Retime BY <1>6 DEF Runner!Retime
<1>7. CASE Runner!Promote BY <1>7 DEF Runner!Promote
<1>8. CASE Runner!Return BY <1>8 DEF Runner!Return
<1>9. CASE Runner!Killed BY <1>9 DEF Runner!Killed
<1>10. QED BY <1>1, <1>2, <1>3, <1>4, <1>5, <1>6, <1>7, <1>8, <1>9
  DEF Runner!Next, Runner!Step

(* The policy to fall back on is no harder on the device than the one in     *)
(* use, and the remembered override than any before.                         *)
LEMMA RunnerChooses ==
    ASSUME Runner!Inv, Runner!Shape', Runner!Next
    PROVE  Runner!Chosen' /\ Runner!Remembered' /\ Runner!NeverUpshifts'
<1> USE DEF Runner!Inv, Runner!Shape, Runner!TypeOK, Runner!policies, Runner!setting, Runner!Chosen,
        Runner!Remembered, Runner!NeverUpshifts, Runner!Lowest
<1>a. ASSUME v8' = Append(v8, v5), v9 = "native"
      PROVE  /\ \A i \in 1 .. Len(v8') : Runner!Pressure(v5) <= Runner!Pressure(v8'[i])
             /\ \A i, k \in 1 .. Len(v8') : i < k => Runner!Pressure(v8'[k]) <= Runner!Pressure(v8'[i])
             /\ \A x \in Runner!Jobs : /\ Runner!Pressure(x) <= Runner!Pressure(v5)
                   => \A i \in 1 .. Len(v8') : Runner!Pressure(x) <= Runner!Pressure(v8'[i])
  BY <1>a, RunnerAppends
<1> USE <1>a, RunnerJobs, RunnerBounds
<1>1. CASE Runner!Launch
  <2>1. CASE v2 = "cpu" BY <1>1, <2>1 DEF Runner!Launch
  <2>2. CASE v2 = "gpu" /\ v4 = << >> BY <1>1, <2>2 DEF Runner!Launch
  <2>3. CASE v2 = "gpu" /\ v4 # << >> BY <1>1, <2>3 DEF Runner!Launch
  <2>4. QED BY <2>1, <2>2, <2>3
<1>2. CASE Runner!NativeSucceeds BY <1>2 DEF Runner!NativeSucceeds
<1>b. ASSUME NEW oom \in BOOLEAN, Runner!NativeFails(oom)
      PROVE  Runner!Chosen' /\ Runner!Remembered' /\ Runner!NeverUpshifts'
  <2>1. CASE Runner!GivesUp(oom)
    BY <1>b, <2>1 DEF Runner!NativeFails
  <2>2. CASE ~Runner!GivesUp(oom)
    <3>1. v5' = Runner!Retry(oom) /\ v7' = TRUE /\ v8' = Append(v8, v5) /\ v9 = "native"
          /\ UNCHANGED <<v2, v4, v6, v9, v14>>
      BY <1>b, <2>2 DEF Runner!NativeFails
    <3>2. v2 = "gpu"
      BY <2>2, <3>1 DEF Runner!GivesUp
    <3>3. v5' \in Runner!Jobs /\ Runner!Pressure(v5') <= Runner!Pressure(v5)
      BY <2>2, <3>1, <3>2 DEF Runner!GivesUp, Runner!Retry
    <3>4. Runner!Pressure(v6) <= Runner!Pressure(v5') \/ v5' = Runner!Single
      BY <3>1 DEF Runner!Retry
    <3>5. QED BY <3>1, <3>2, <3>3, <3>4
  <2>3. QED BY <2>1, <2>2
<1>3. CASE Runner!NativeFails(TRUE) BY <1>3, <1>b
<1>4. CASE Runner!NativeFails(FALSE) BY <1>4, <1>b
<1>5. CASE Runner!Move BY <1>5 DEF Runner!Move
<1>6. CASE Runner!Retime BY <1>6 DEF Runner!Retime
<1>7. CASE Runner!Promote BY <1>7 DEF Runner!Promote
<1>8. CASE Runner!Return BY <1>8 DEF Runner!Return
<1>9. CASE Runner!Killed BY <1>9 DEF Runner!Killed
<1>10. QED BY <1>1, <1>2, <1>3, <1>4, <1>5, <1>6, <1>7, <1>8, <1>9
  DEF Runner!Next, Runner!Step

(* The invariant of the safe runner is inductive.                            *)
LEMMA RunnerStep == Runner!Inv /\ [Runner!Next]_(Runner!vars) => Runner!Inv'
<1> SUFFICES ASSUME Runner!Inv, [Runner!Next]_(Runner!vars) PROVE Runner!Inv'
  OBVIOUS
<1>1. CASE UNCHANGED Runner!vars
  BY <1>1 DEF Runner!vars, Runner!Inv, Runner!Shape, Runner!TypeOK, Runner!Chosen, Runner!Remembered,
              Runner!NeverUpshifts, Runner!PublishedWhole, Runner!Lowest
<1>2. CASE Runner!Next
  BY <1>2, RunnerTypes, RunnerChooses DEF Runner!Inv
<1>3. QED BY <1>1, <1>2

(***************************************************************************)
(* The classic mode.                                                       *)
(***************************************************************************)
LoopNames == {"extract", "neural", "merge", "master", "reactive", "final"}

(* Every conversion has two to six commands, the last of which writes the output. *)
LEMMA LoopCommands ==
    ASSUME NEW j \in Loop!Jobs
    PROVE  /\ Loop!Commands(j) \in Seq(LoopNames) /\ Len(Loop!Commands(j)) \in 1 .. 6
           /\ Loop!Commands(j)[Len(Loop!Commands(j))] = "final"
<1> DEFINE A == IF j.ai THEN Loop!EnhanceClip ELSE << >>
           B == IF j.aurora THEN Loop!Aurora ELSE Loop!Plain
<1>a. Loop!EnhanceClip \in Seq(LoopNames) /\ Len(Loop!EnhanceClip) = 3
  BY DEF Loop!EnhanceClip, LoopNames
<1>b. Loop!Aurora \in Seq(LoopNames) /\ Len(Loop!Aurora) = 3 /\ Loop!Aurora[3] = "final"
  BY DEF Loop!Aurora, LoopNames
<1>c. Loop!Plain \in Seq(LoopNames) /\ Len(Loop!Plain) = 2 /\ Loop!Plain[2] = "final"
  BY DEF Loop!Plain, LoopNames
<1>1. A \in Seq(LoopNames) /\ Len(A) \in {0, 3}
  <2>1. CASE j.ai BY <2>1, <1>a
  <2>2. CASE ~j.ai BY <2>2
  <2>3. QED BY <2>1, <2>2
<1>2. B \in Seq(LoopNames) /\ Len(B) \in {2, 3} /\ B[Len(B)] = "final"
  <2>1. CASE j.aurora BY <2>1, <1>b
  <2>2. CASE ~j.aurora BY <2>2, <1>c
  <2>3. QED BY <2>1, <2>2
<1>3. Loop!Commands(j) = A \o B
  BY DEF Loop!Commands
<1> HIDE DEF A, B
<1>4. Len(A \o B) = Len(A) + Len(B) /\ A \o B \in Seq(LoopNames)
  BY <1>1, <1>2
<1>5. \A i \in 1 .. Len(B) : (A \o B)[Len(A) + i] = B[i]
  BY <1>1, <1>2
<1>6. Len(A \o B) \in 1 .. 6 /\ Len(B) \in 1 .. Len(B)
  <2>1. \A a \in {0, 3}, b \in {2, 3} : a + b \in 1 .. 6 /\ b \in 1 .. b OBVIOUS
  <2>2. QED BY <1>1, <1>2, <1>4, <2>1
<1>7. (A \o B)[Len(A \o B)] = "final"
  BY <1>2, <1>4, <1>5, <1>6
<1>8. QED BY <1>3, <1>4, <1>6, <1>7

(* The invariant of the classic mode holds initially.                        *)
LEMMA LoopInit == Loop!Init => Loop!Inv
<1> SUFFICES ASSUME Loop!Init PROVE Loop!Inv
  OBVIOUS
<1> USE DEF Loop!Init, Loop!Runs
<1>1. MaxRuns \in Nat BY BoundsAreNatural
<1>2. Len(Loop!Commands(v5)) \in 1 .. 6 BY LoopCommands
<1>c. 1 \in 1 .. Len(Loop!Commands(v5))
  <2>1. \A n \in 1 .. 6 : 1 \in 1 .. n OBVIOUS
  <2>2. QED BY ONLY <1>2, <2>1
<1>0. v13 \in Seq([kind: {"done", "cancelled", "error"}, run: 1 .. MaxRuns])
  OBVIOUS
<1>b. v12 \in [by: 0 .. MaxRuns, whole: BOOLEAN] /\ v4 \in 0 .. MaxRuns /\ v14 \in 0 .. 6 BY <1>1
<1>3. Loop!TypeOK BY <1>0, <1>b, <1>c DEF Loop!TypeOK
<1>4. Loop!Single /\ Loop!Result BY <1>1 DEF Loop!Single, Loop!Result, Loop!Working
<1>5. Loop!CommandOf /\ Loop!Written /\ Loop!Stopping
  BY <1>1 DEF Loop!CommandOf, Loop!Written, Loop!DoneIsItsOwn, Loop!Stopping
<1>6. QED BY <1>3, <1>4, <1>5 DEF Loop!Inv

(* Every action of the window or of a conversion keeps the shape of the state.*)
LEMMA LoopTypes ==
    ASSUME Loop!Inv, Loop!Next
    PROVE  Loop!TypeOK'
<1>a. MaxRuns \in Nat BY BoundsAreNatural
<1>b. \A j \in Loop!Jobs : Len(Loop!Commands(j)) \in 1 .. 6 BY LoopCommands
<1>c. v13 \in Seq([kind: {"done", "cancelled", "error"}, run: Loop!Runs]) BY DEF Loop!Inv, Loop!TypeOK
<1>h. 1 \in 1 .. 6 /\ \A n \in 1 .. 6 : 1 \in 1 .. n OBVIOUS
<1>d. \A k \in {"done", "cancelled", "error"}, r \in Loop!Runs :
        Append(v13, [kind |-> k, run |-> r]) \in Seq([kind: {"done", "cancelled", "error"}, run: Loop!Runs])
  BY <1>c
<1>e. v13 # << >> => Tail(v13) \in Seq([kind: {"done", "cancelled", "error"}, run: Loop!Runs])
  BY <1>c
<1>g. v14 \in 0 .. 1 /\ v14 \in Int BY DEF Loop!Inv, Loop!TypeOK, Loop!Stopping
<1> USE <1>a, <1>b, <1>c, <1>d, <1>e, <1>g, <1>h DEF Loop!Inv, Loop!TypeOK, Loop!window, Loop!disk,
    Loop!Runs, Loop!Goto, Loop!At
<1>1. ASSUME NEW j \in Loop!Jobs, Loop!Start(j) PROVE Loop!TypeOK'
  <2>1. v4' = v4 + 1 /\ v4 < MaxRuns /\ v4 \in 0 .. MaxRuns /\ v5' = j /\ v6' = 1
    BY <1>1 DEF Loop!Start
  <2>2. v4' \in 1 .. MaxRuns BY <2>1
  <2>3. v6' \in 1 .. Len(Loop!Commands(v5')) BY <2>1
  <2>4. {v1', v2', v3', v9'} \subseteq BOOLEAN
    BY <1>1 DEF Loop!Start
  <2>8. v4' \in 0 .. MaxRuns /\ v5' \in Loop!Jobs
    BY <2>1, <2>2
  <2>5. v7' \in [Loop!Runs -> {"none", "analyse", "start", "started", "watch", "verify", "forget", "delete", "over"}]
    BY <1>1, <2>2 DEF Loop!Start
  <2>6. v8' = v8 /\ v10' = v10 /\ v11' = v11 /\ v12' = v12 /\ v13' = v13 /\ v14' = 0
    BY <1>1 DEF Loop!Start
  <2>7. QED BY <2>3, <2>4, <2>5, <2>6, <2>8
<1>2. ASSUME Loop!Cancel PROVE Loop!TypeOK'
  BY <1>2 DEF Loop!Cancel, Loop!Kill
<1>3. ASSUME Loop!PollEvents PROVE Loop!TypeOK'
  BY <1>3 DEF Loop!PollEvents
<1>4. ASSUME Loop!Close PROVE Loop!TypeOK'
  BY <1>4 DEF Loop!Close, Loop!Kill
<1>5. ASSUME Loop!Exit PROVE Loop!TypeOK'
  BY <1>5 DEF Loop!Exit
<1>6. ASSUME NEW r \in Loop!Runs, Loop!Analyse(r) PROVE Loop!TypeOK'
  BY <1>6 DEF Loop!Analyse, Loop!Tell
<1>7. ASSUME NEW r \in Loop!Runs, Loop!Popen(r) PROVE Loop!TypeOK'
  BY <1>7 DEF Loop!Popen
<1>8. ASSUME NEW r \in Loop!Runs, Loop!StartFails(r) PROVE Loop!TypeOK'
  <2>0. \E k \in {"done", "cancelled", "error"} : v13' = Append(v13, [kind |-> k, run |-> r])
    BY <1>8 DEF Loop!StartFails, Loop!Tell
  <2>1. v13' \in Seq([kind: {"done", "cancelled", "error"}, run: Loop!Runs])
    BY <2>0, <1>c, <1>d
  <2>2. QED BY <1>8, <2>1 DEF Loop!StartFails, Loop!Tell
<1>9. ASSUME NEW r \in Loop!Runs, Loop!Register(r) PROVE Loop!TypeOK'
  BY <1>9 DEF Loop!Register
<1>10. ASSUME NEW r \in Loop!Runs, Loop!Interrupt(r) PROVE Loop!TypeOK'
  BY <1>10 DEF Loop!Interrupt
<1>11. ASSUME NEW r \in Loop!Runs, Loop!Collect(r) PROVE Loop!TypeOK'
  <2>1. v13' \in Seq([kind: {"done", "cancelled", "error"}, run: Loop!Runs])
    <3>1. \/ v13' = v13
          \/ v13' = Append(v13, [kind |-> "cancelled", run |-> r])
          \/ v13' = Append(v13, [kind |-> "error", run |-> r])
      BY <1>11 DEF Loop!Collect, Loop!Tell
    <3>2. QED BY <3>1
  <2>2. v6' \in 1 .. Len(Loop!Commands(v5))
    <3>1. v6 \in 1 .. Len(Loop!Commands(v5)) /\ Len(Loop!Commands(v5)) \in 1 .. 6 OBVIOUS
    <3>2. v6' = v6 \/ (v6' = v6 + 1 /\ v6 < Len(Loop!Commands(v5)))
      BY <1>11 DEF Loop!Collect
    <3>3. QED BY <3>1, <3>2
  <2>3. v7' \in [Loop!Runs -> {"none", "analyse", "start", "started", "watch", "verify", "forget", "delete", "over"}]
    BY <1>11 DEF Loop!Collect, Loop!Tell
  <2>4. QED BY <1>11, <2>1, <2>2, <2>3 DEF Loop!Collect
<1>12. ASSUME NEW r \in Loop!Runs, Loop!Verify(r) PROVE Loop!TypeOK'
  <2>0. v13' = v13 \/ \E k \in {"done", "cancelled", "error"} : v13' = Append(v13, [kind |-> k, run |-> r])
    BY <1>12 DEF Loop!Verify, Loop!Tell
  <2>1. v13' \in Seq([kind: {"done", "cancelled", "error"}, run: Loop!Runs])
    BY <2>0, <1>c, <1>d
  <2>2. QED BY <1>12, <2>1 DEF Loop!Verify, Loop!Tell
<1>13. ASSUME NEW r \in Loop!Runs, Loop!Forget(r) PROVE Loop!TypeOK'
  BY <1>13 DEF Loop!Forget
<1>14. ASSUME NEW r \in Loop!Runs, Loop!Delete(r) PROVE Loop!TypeOK'
  BY <1>14 DEF Loop!Delete
<1>15. ASSUME NEW r \in Loop!Runs, Loop!CommandEnds(r) PROVE Loop!TypeOK'
  <2>1. v9' \in BOOLEAN BY <1>15 DEF Loop!CommandEnds
  <2>2. v12' \in [by: 0 .. MaxRuns, whole: BOOLEAN] BY <1>15, <2>1 DEF Loop!CommandEnds
  <2>3. v10' \in {0} \cup v8' BY <1>15 DEF Loop!CommandEnds
  <2>4. QED BY <1>15, <2>1, <2>2, <2>3 DEF Loop!CommandEnds
<1>16. QED BY <1>1, <1>2, <1>3, <1>4, <1>5, <1>6, <1>7, <1>8, <1>9, <1>10, <1>11, <1>12, <1>13,
    <1>14, <1>15 DEF Loop!Next, Loop!Work

(* There is at most one conversion at work, and a command belongs to it or   *)
(* to a window that closed.                                                  *)
LEMMA LoopSingle ==
    ASSUME Loop!Inv, Loop!TypeOK', Loop!Next
    PROVE  Loop!Single' /\ Loop!CommandOf'
<1>a. MaxRuns \in Nat BY BoundsAreNatural
<1>c. v13 \in Seq([kind: {"done", "cancelled", "error"}, run: Loop!Runs]) BY DEF Loop!Inv, Loop!TypeOK
<1>d. Len(v13) \in Nat /\ (v13 = << >> <=> Len(v13) = 0) BY <1>c
<1>e. \A e : Len(Append(v13, e)) = Len(v13) + 1 /\ (v13 = << >> => Append(v13, e)[1] = e) BY <1>c
<1>f. v13 # << >> => Len(Tail(v13)) = Len(v13) - 1 BY <1>c
<1> USE <1>a, <1>c, <1>d, <1>e, <1>f DEF Loop!Inv, Loop!TypeOK, Loop!window, Loop!disk, Loop!Runs,
    Loop!Goto, Loop!At, Loop!Single, Loop!CommandOf, Loop!Result, Loop!Working
<1>1. ASSUME NEW j \in Loop!Jobs, Loop!Start(j) PROVE Loop!Single' /\ Loop!CommandOf'
  BY <1>1 DEF Loop!Start
<1>2. ASSUME Loop!Cancel PROVE Loop!Single' /\ Loop!CommandOf'
  BY <1>2 DEF Loop!Cancel, Loop!Kill
<1>3. ASSUME Loop!PollEvents PROVE Loop!Single' /\ Loop!CommandOf'
  BY <1>3 DEF Loop!PollEvents
<1>4. ASSUME Loop!Close PROVE Loop!Single' /\ Loop!CommandOf'
  BY <1>4 DEF Loop!Close, Loop!Kill
<1>5. ASSUME Loop!Exit PROVE Loop!Single' /\ Loop!CommandOf'
  BY <1>5 DEF Loop!Exit
<1>6. ASSUME NEW r \in Loop!Runs, Loop!Analyse(r) PROVE Loop!Single' /\ Loop!CommandOf'
  BY <1>6 DEF Loop!Analyse, Loop!Tell
<1>7. ASSUME NEW r \in Loop!Runs, Loop!Popen(r) PROVE Loop!Single' /\ Loop!CommandOf'
  BY <1>7 DEF Loop!Popen
<1>8. ASSUME NEW r \in Loop!Runs, Loop!StartFails(r) PROVE Loop!Single' /\ Loop!CommandOf'
  BY <1>8 DEF Loop!StartFails, Loop!Tell
<1>9. ASSUME NEW r \in Loop!Runs, Loop!Register(r) PROVE Loop!Single' /\ Loop!CommandOf'
  BY <1>9 DEF Loop!Register
<1>10. ASSUME NEW r \in Loop!Runs, Loop!Interrupt(r) PROVE Loop!Single' /\ Loop!CommandOf'
  BY <1>10 DEF Loop!Interrupt
<1>11. ASSUME NEW r \in Loop!Runs, Loop!Collect(r) PROVE Loop!Single' /\ Loop!CommandOf'
  <2>1. CASE Loop!Tell(r, "cancelled") \/ Loop!Tell(r, "error")
    BY <1>11, <2>1 DEF Loop!Collect, Loop!Tell
  <2>2. CASE Loop!Goto(r, "start") /\ UNCHANGED v13
    BY <1>11, <2>2 DEF Loop!Collect
  <2>3. CASE Loop!Goto(r, "verify") /\ UNCHANGED v13
    BY <1>11, <2>3 DEF Loop!Collect
  <2>4. QED BY ONLY <1>11, <2>1, <2>2, <2>3 DEF Loop!Collect
<1>12. ASSUME NEW r \in Loop!Runs, Loop!Verify(r) PROVE Loop!Single' /\ Loop!CommandOf'
  BY <1>12 DEF Loop!Verify, Loop!Tell
<1>13. ASSUME NEW r \in Loop!Runs, Loop!Forget(r) PROVE Loop!Single' /\ Loop!CommandOf'
  BY <1>13 DEF Loop!Forget
<1>14. ASSUME NEW r \in Loop!Runs, Loop!Delete(r) PROVE Loop!Single' /\ Loop!CommandOf'
  BY <1>14 DEF Loop!Delete
<1>15. ASSUME NEW r \in Loop!Runs, Loop!CommandEnds(r) PROVE Loop!Single' /\ Loop!CommandOf'
  BY <1>15 DEF Loop!CommandEnds
<1>16. QED BY <1>1, <1>2, <1>3, <1>4, <1>5, <1>6, <1>7, <1>8, <1>9, <1>10, <1>11, <1>12, <1>13,
    <1>14, <1>15 DEF Loop!Next, Loop!Work

(* At most one result is queued, that of the present conversion once it      *)
(* works no more.                                                            *)
LEMMA LoopResult ==
    ASSUME Loop!Inv, Loop!TypeOK', Loop!Next
    PROVE  Loop!Result'
<1>a. MaxRuns \in Nat BY BoundsAreNatural
<1>c. v13 \in Seq([kind: {"done", "cancelled", "error"}, run: Loop!Runs]) BY DEF Loop!Inv, Loop!TypeOK
<1>d. Len(v13) \in Nat /\ (v13 = << >> <=> Len(v13) = 0) BY <1>c
<1>e. \A e : Len(Append(v13, e)) = Len(v13) + 1 /\ (v13 = << >> => Append(v13, e)[1] = e) BY <1>c
<1>f. v13 # << >> => Len(Tail(v13)) = Len(v13) - 1 BY <1>c
<1> USE <1>a, <1>c, <1>d, <1>e, <1>f DEF Loop!Inv, Loop!TypeOK, Loop!window, Loop!disk, Loop!Runs,
    Loop!Goto, Loop!At, Loop!Single, Loop!Result, Loop!Working
<1>1. ASSUME NEW j \in Loop!Jobs, Loop!Start(j) PROVE Loop!Result'
  BY <1>1 DEF Loop!Start
<1>2. ASSUME Loop!Cancel PROVE Loop!Result'
  BY <1>2 DEF Loop!Cancel, Loop!Kill
<1>3. ASSUME Loop!PollEvents PROVE Loop!Result'
  BY <1>3 DEF Loop!PollEvents
<1>4. ASSUME Loop!Close PROVE Loop!Result'
  BY <1>4 DEF Loop!Close, Loop!Kill
<1>5. ASSUME Loop!Exit PROVE Loop!Result'
  BY <1>5 DEF Loop!Exit
<1>6. ASSUME NEW r \in Loop!Runs, Loop!Analyse(r) PROVE Loop!Result'
  BY <1>6 DEF Loop!Analyse, Loop!Tell
<1>7. ASSUME NEW r \in Loop!Runs, Loop!Popen(r) PROVE Loop!Result'
  BY <1>7 DEF Loop!Popen
<1>8. ASSUME NEW r \in Loop!Runs, Loop!StartFails(r) PROVE Loop!Result'
  BY <1>8 DEF Loop!StartFails, Loop!Tell
<1>9. ASSUME NEW r \in Loop!Runs, Loop!Register(r) PROVE Loop!Result'
  BY <1>9 DEF Loop!Register
<1>10. ASSUME NEW r \in Loop!Runs, Loop!Interrupt(r) PROVE Loop!Result'
  BY <1>10 DEF Loop!Interrupt
<1>11. ASSUME NEW r \in Loop!Runs, Loop!Collect(r) PROVE Loop!Result'
  BY <1>11 DEF Loop!Collect, Loop!Tell
<1>12. ASSUME NEW r \in Loop!Runs, Loop!Verify(r) PROVE Loop!Result'
  BY <1>12 DEF Loop!Verify, Loop!Tell
<1>13. ASSUME NEW r \in Loop!Runs, Loop!Forget(r) PROVE Loop!Result'
  BY <1>13 DEF Loop!Forget
<1>14. ASSUME NEW r \in Loop!Runs, Loop!Delete(r) PROVE Loop!Result'
  BY <1>14 DEF Loop!Delete
<1>15. ASSUME NEW r \in Loop!Runs, Loop!CommandEnds(r) PROVE Loop!Result'
  BY <1>15 DEF Loop!CommandEnds
<1>16. QED BY <1>1, <1>2, <1>3, <1>4, <1>5, <1>6, <1>7, <1>8, <1>9, <1>10, <1>11, <1>12, <1>13,
    <1>14, <1>15 DEF Loop!Next, Loop!Work

(* The output that is verified, or that was declared done, was written by    *)
(* the conversion itself.                                                    *)
LEMMA LoopWritten ==
    ASSUME Loop!Inv, Loop!TypeOK', Loop!Next
    PROVE  Loop!Written'
<1>a. MaxRuns \in Nat BY BoundsAreNatural
<1>c. v13 \in Seq([kind: {"done", "cancelled", "error"}, run: Loop!Runs]) BY DEF Loop!Inv, Loop!TypeOK
<1>d. Len(v13) \in Nat /\ (v13 = << >> <=> Len(v13) = 0) BY <1>c
<1>e. \A e : Len(Append(v13, e)) = Len(v13) + 1 /\ (v13 = << >> => Append(v13, e)[1] = e) BY <1>c
<1>f. v13 # << >> => Len(Tail(v13)) = Len(v13) - 1 BY <1>c
<1>g. \A j \in Loop!Jobs : Loop!Commands(j)[Len(Loop!Commands(j))] = "final" BY LoopCommands
<1> USE <1>a, <1>c, <1>d, <1>e, <1>f, <1>g DEF Loop!Inv, Loop!TypeOK, Loop!window, Loop!disk, Loop!Runs,
    Loop!Goto, Loop!At, Loop!Single, Loop!CommandOf, Loop!Result, Loop!Working, Loop!Written,
    Loop!DoneIsItsOwn, Loop!Command
<1>1. ASSUME NEW j \in Loop!Jobs, Loop!Start(j) PROVE Loop!Written'
  BY <1>1 DEF Loop!Start
<1>2. ASSUME Loop!Cancel PROVE Loop!Written'
  BY <1>2 DEF Loop!Cancel, Loop!Kill
<1>3. ASSUME Loop!PollEvents PROVE Loop!Written'
  BY <1>3 DEF Loop!PollEvents
<1>4. ASSUME Loop!Close PROVE Loop!Written'
  BY <1>4 DEF Loop!Close, Loop!Kill
<1>5. ASSUME Loop!Exit PROVE Loop!Written'
  BY <1>5 DEF Loop!Exit
<1>6. ASSUME NEW r \in Loop!Runs, Loop!Analyse(r) PROVE Loop!Written'
  BY <1>6 DEF Loop!Analyse, Loop!Tell
<1>7. ASSUME NEW r \in Loop!Runs, Loop!Popen(r) PROVE Loop!Written'
  BY <1>7 DEF Loop!Popen
<1>8. ASSUME NEW r \in Loop!Runs, Loop!StartFails(r) PROVE Loop!Written'
  BY <1>8 DEF Loop!StartFails, Loop!Tell
<1>9. ASSUME NEW r \in Loop!Runs, Loop!Register(r) PROVE Loop!Written'
  BY <1>9 DEF Loop!Register
<1>10. ASSUME NEW r \in Loop!Runs, Loop!Interrupt(r) PROVE Loop!Written'
  BY <1>10 DEF Loop!Interrupt
<1>11. ASSUME NEW r \in Loop!Runs, Loop!Collect(r) PROVE Loop!Written'
  <2>1. v7[r] = "watch" /\ r \notin v8 /\ v12' = v12 /\ v5' = v5 /\ v13 = << >> /\ r = v4
    BY <1>11 DEF Loop!Collect
  <2>2. CASE v7' = [v7 EXCEPT ![r] = "verify"] /\ v13' = v13 /\ v6' = v6 /\ v6 = Len(Loop!Commands(v5))
    BY <2>1, <2>2
  <2>3. CASE v7' = [v7 EXCEPT ![r] = "start"] /\ v13' = v13
    BY <2>1, <2>3
  <2>4. CASE /\ v7' = [v7 EXCEPT ![r] = "forget"] /\ v6' = v6
             /\ \E k \in {"cancelled", "error"} : v13' = Append(v13, [kind |-> k, run |-> r])
    BY <2>1, <2>4
  <2>5. QED BY <1>11, <2>2, <2>3, <2>4 DEF Loop!Collect, Loop!Tell
<1>12. ASSUME NEW r \in Loop!Runs, Loop!Verify(r) PROVE Loop!Written'
  BY <1>12 DEF Loop!Verify, Loop!Tell
<1>13. ASSUME NEW r \in Loop!Runs, Loop!Forget(r) PROVE Loop!Written'
  BY <1>13 DEF Loop!Forget
<1>14. ASSUME NEW r \in Loop!Runs, Loop!Delete(r) PROVE Loop!Written'
  BY <1>14 DEF Loop!Delete
<1>15. ASSUME NEW r \in Loop!Runs, Loop!CommandEnds(r) PROVE Loop!Written'
  BY <1>15 DEF Loop!CommandEnds
<1>16. QED BY <1>1, <1>2, <1>3, <1>4, <1>5, <1>6, <1>7, <1>8, <1>9, <1>10, <1>11, <1>12, <1>13,
    <1>14, <1>15 DEF Loop!Next, Loop!Work

(* After a cancellation at most one command starts, and then the conversion  *)
(* is past starting another.                                                 *)
LEMMA LoopStopping ==
    ASSUME Loop!Inv, Loop!TypeOK', Loop!Next
    PROVE  Loop!Stopping'
<1>a. MaxRuns \in Nat BY BoundsAreNatural
<1>c. v13 \in Seq([kind: {"done", "cancelled", "error"}, run: Loop!Runs]) BY DEF Loop!Inv, Loop!TypeOK
<1> USE <1>a, <1>c DEF Loop!Inv, Loop!TypeOK, Loop!window, Loop!disk, Loop!Runs, Loop!Goto, Loop!At,
    Loop!Single, Loop!CommandOf, Loop!Result, Loop!Stopping, Loop!Working
<1>1. ASSUME NEW j \in Loop!Jobs, Loop!Start(j) PROVE Loop!Stopping'
  BY <1>1 DEF Loop!Start
<1>2. ASSUME Loop!Cancel PROVE Loop!Stopping'
  BY <1>2 DEF Loop!Cancel, Loop!Kill
<1>3. ASSUME Loop!PollEvents PROVE Loop!Stopping'
  BY <1>3 DEF Loop!PollEvents
<1>4. ASSUME Loop!Close PROVE Loop!Stopping'
  BY <1>4 DEF Loop!Close, Loop!Kill
<1>5. ASSUME Loop!Exit PROVE Loop!Stopping'
  BY <1>5 DEF Loop!Exit
<1>6. ASSUME NEW r \in Loop!Runs, Loop!Analyse(r) PROVE Loop!Stopping'
  BY <1>6 DEF Loop!Analyse, Loop!Tell
<1>7. ASSUME NEW r \in Loop!Runs, Loop!Popen(r) PROVE Loop!Stopping'
  BY <1>7 DEF Loop!Popen
<1>8. ASSUME NEW r \in Loop!Runs, Loop!StartFails(r) PROVE Loop!Stopping'
  BY <1>8 DEF Loop!StartFails, Loop!Tell
<1>9. ASSUME NEW r \in Loop!Runs, Loop!Register(r) PROVE Loop!Stopping'
  BY <1>9 DEF Loop!Register
<1>10. ASSUME NEW r \in Loop!Runs, Loop!Interrupt(r) PROVE Loop!Stopping'
  BY <1>10 DEF Loop!Interrupt
<1>11. ASSUME NEW r \in Loop!Runs, Loop!Collect(r) PROVE Loop!Stopping'
  BY <1>11 DEF Loop!Collect, Loop!Tell
<1>12. ASSUME NEW r \in Loop!Runs, Loop!Verify(r) PROVE Loop!Stopping'
  BY <1>12 DEF Loop!Verify, Loop!Tell
<1>13. ASSUME NEW r \in Loop!Runs, Loop!Forget(r) PROVE Loop!Stopping'
  BY <1>13 DEF Loop!Forget
<1>14. ASSUME NEW r \in Loop!Runs, Loop!Delete(r) PROVE Loop!Stopping'
  BY <1>14 DEF Loop!Delete
<1>15. ASSUME NEW r \in Loop!Runs, Loop!CommandEnds(r) PROVE Loop!Stopping'
  BY <1>15 DEF Loop!CommandEnds
<1>16. QED BY <1>1, <1>2, <1>3, <1>4, <1>5, <1>6, <1>7, <1>8, <1>9, <1>10, <1>11, <1>12, <1>13,
    <1>14, <1>15 DEF Loop!Next, Loop!Work

(* The invariant of the classic mode is inductive.                           *)
LEMMA LoopStep == Loop!Inv /\ [Loop!Next]_(Loop!vars) => Loop!Inv'
<1> SUFFICES ASSUME Loop!Inv, [Loop!Next]_(Loop!vars) PROVE Loop!Inv'
  OBVIOUS
<1>1. CASE UNCHANGED Loop!vars
  BY <1>1 DEF Loop!vars, Loop!Inv, Loop!TypeOK, Loop!Single, Loop!CommandOf, Loop!Result, Loop!Written,
              Loop!DoneIsItsOwn, Loop!Stopping, Loop!Command
<1>2. CASE Loop!Next
  BY <1>2, LoopTypes, LoopSingle, LoopResult, LoopWritten, LoopStopping DEF Loop!Inv
<1>3. QED BY <1>1, <1>2

(* The properties of the classic mode are in its invariant.                  *)
LEMMA LoopKeeps == Loop!Inv => Loop!TypeOK /\ Loop!DoneIsItsOwn /\ Loop!OneCommand /\ Loop!StopsSoon
BY DEF Loop!Inv, Loop!Written, Loop!CommandOf, Loop!Stopping, Loop!OneCommand, Loop!StopsSoon

(***************************************************************************)
(* The export of the Preview Composer.                                     *)
(***************************************************************************)
(* A layer's position is a frame of its media, or -1 where it shows none.    *)
LEMMA ExportPosition ==
    ASSUME NEW l \in Layers, NEW i \in Nat
    PROVE  Export!Position(l, i) \in Int /\ Export!Position(l, i) >= -1
<1>1. Media[l].frames \in Nat \ {0} /\ Media[l].rate \in Nat /\ Media[l].loop \in BOOLEAN
  BY ExportAssumption
<1>2. i * Media[l].rate \in Nat
  BY <1>1
<1>3. (i * Media[l].rate) % Media[l].frames \in Nat
  BY <1>1, <1>2
<1>4. QED BY <1>1, <1>2, <1>3 DEF Export!Position

(* A decoder that stands where it is expected gives the frame it is asked for. *)
LEMMA ExportReads ==
    ASSUME NEW l \in Layers, NEW t \in Int, v7[l] \in Int, v8[l] \in Int, v7[l] >= 0 => v7[l] = v8[l]
    PROVE  /\ Export!FirstRead(l, t) + Export!Reads(l, t) = t + 1
           /\ Export!FirstRead(l, t) + (Export!Reads(l, t) - 1) = t
<1>1. Export!FirstRead(l, t) = Export!FirstIndex(l, t) /\ Export!FirstIndex(l, t) \in Int
  BY DEF Export!FirstRead, Export!FirstIndex, Export!Spawned
<1>2. QED BY <1>1 DEF Export!Reads

(* The invariant of an export holds initially.                               *)
LEMMA ExportInit == Export!Init => Export!Inv
<1> SUFFICES ASSUME Export!Init PROVE Export!Inv
  OBVIOUS
<1>a. Frames \in Nat \ {0} /\ MaxExports \in Nat /\ "cpu" \notin Routes
  BY ExportAssumption, BoundsAreNatural
<1>b. -1 \in Int /\ 0 \in Int /\ << >> \in Seq([Layers -> Int]) /\ Len(<< >>) = 0
  OBVIOUS
<1> USE <1>a, <1>b DEF Export!Init, Export!Nothing
<1>1. Export!TypeOK BY DEF Export!TypeOK, Export!Products
<1>2. {v7, v8, v9, v10} \subseteq [Layers -> Int] OBVIOUS
<1>3. Export!Shape BY <1>1, <1>2 DEF Export!Shape
<1>4. Export!Aligned BY DEF Export!Aligned
<1>5. Export!RouteProven /\ Export!ProductWhole BY DEF Export!RouteProven, Export!ProductWhole
<1>6. Export!FramesExact BY DEF Export!FramesExact
<1>7. QED BY <1>3, <1>4, <1>5, <1>6 DEF Export!Inv

(* Every action of an export or of its user keeps the shape of the state.    *)
LEMMA ExportShape ==
    ASSUME Export!Inv, Export!Next
    PROVE  Export!Shape'
<1>a. Frames \in Nat \ {0} /\ MaxExports \in Nat /\ "cpu" \notin Routes /\ "none" \notin Routes
  BY ExportAssumption, BoundsAreNatural
<1>b. v11 \in Seq([Layers -> Int]) /\ Len(v11) \in Nat /\ Len(<< >>) = 0
  BY DEF Export!Inv, Export!Shape
<1>c. \A f \in Frames - 1 .. Frames + 1 : f \in 0 .. Frames + 1 /\ f \in Int
  BY <1>a
<1>d. 0 <= Frames /\ 0 \in 0 .. Frames + 1 /\ Frames \in 0 .. Frames + 1 /\ << >> \in Seq([Layers -> Int])
  BY <1>a
<1> USE <1>c, <1>d, <1>a, <1>b DEF Export!Inv, Export!Shape, Export!TypeOK, Export!Products,
    Export!decoders, Export!store, Export!Nothing, Export!RouteProven, Export!ProductWhole
<1>1. ASSUME Export!SelectRoute PROVE Export!Shape'
  <2>1. v14' \in 0 .. MaxExports
    BY <1>1 DEF Export!SelectRoute
  <2>2. v11' \in Seq([Layers -> Int]) /\ Len(v11') <= Frames
    BY <1>1 DEF Export!SelectRoute
  <2>3. v4' \in Routes \cup {"cpu"} /\ v5' \in Export!Products /\ v13' \in {"none", "done", "failed", "cancelled"}
    BY <1>1 DEF Export!SelectRoute
  <2>4. QED BY <1>1, <2>1, <2>2, <2>3 DEF Export!SelectRoute
<1>2. ASSUME Export!ConsiderResident PROVE Export!Shape'
  BY <1>2 DEF Export!ConsiderResident, Export!Consider, Export!Learn, Export!Due
<1>3. ASSUME Export!ConsiderPlain PROVE Export!Shape'
  BY <1>3 DEF Export!ConsiderPlain, Export!Consider, Export!Learn, Export!Due
<1>4. ASSUME Export!Interrupted PROVE Export!Shape'
  BY <1>4 DEF Export!Interrupted
<1>5. ASSUME Export!Run PROVE Export!Shape'
  BY <1>5 DEF Export!Run
<1>6. ASSUME Export!GpuRender PROVE Export!Shape'
  <2>1. v4 \in Routes
    BY <1>6 DEF Export!GpuRender
  <2>2. ASSUME NEW after \in {"gpu_mux", "commit"}, NEW f \in Int, Export!GpuProduces(after, f)
        PROVE  Export!Shape'
    BY <2>1, <2>2 DEF Export!GpuProduces, Export!Verified
  <2>3. ASSUME Export!GpuFails(BOOLEAN) PROVE Export!Shape'
    <3>1. v1' \in [Routes -> {"none", "cooling", "old", "accepted"}] /\ v2' \subseteq Routes
      BY <2>3 DEF Export!GpuFails
    <3>2. QED BY <2>3, <3>1 DEF Export!GpuFails
  <2>4. CASE v3 = "gpu_mux" /\ v5.frames \notin Int BY <2>4
  <2>5. QED BY <1>6, <2>2, <2>3, <2>4 DEF Export!GpuRender
<1>7. ASSUME Export!GpuMux PROVE Export!Shape'
  <2>1. v4 \in Routes
    BY <1>7 DEF Export!GpuMux
  <2>2. ASSUME NEW after \in {"gpu_mux", "commit"}, NEW f \in Int, Export!GpuProduces(after, f)
        PROVE  Export!Shape'
    BY <2>1, <2>2 DEF Export!GpuProduces, Export!Verified
  <2>3. ASSUME Export!GpuFails(BOOLEAN) PROVE Export!Shape'
    <3>1. v1' \in [Routes -> {"none", "cooling", "old", "accepted"}] /\ v2' \subseteq Routes
      BY <2>3 DEF Export!GpuFails
    <3>2. QED BY <2>3, <3>1 DEF Export!GpuFails
  <2>4. CASE v3 = "gpu_mux" /\ v5.frames \notin Int BY <2>4
  <2>5. QED BY <1>7, <2>2, <2>3, <2>4 DEF Export!GpuMux
<1>8. ASSUME Export!ComposeFrame PROVE Export!Shape'
  <2>1. CASE Export!Fails BY <1>8, <2>1 DEF Export!Fails, Export!ComposeFrame
  <2>2. CASE /\ Export!DecodeLayers
             /\ v11' = Append(v11, [l \in Layers |-> IF l \in Export!Asked THEN v10'[l] ELSE -1])
             /\ UNCHANGED <<Export!store, v3, v4, v5, v6, v12, v13, v14>>
    <3>1. /\ {v7, v8, v9, v10} \subseteq [Layers -> Int] /\ v3 = "frame" /\ Len(v11) < Frames
          /\ \A l \in Layers : Export!NextPositions[l] \in Int
      BY <1>8, ExportPosition DEF Export!ComposeFrame, Export!NextPositions
    <3>2. v7' \in [Layers -> Int] /\ v8' \in [Layers -> Int] /\ v9' \in [Layers -> Int]
      BY <2>2, <3>1 DEF Export!DecodeLayers, Export!FirstRead, Export!Reads, Export!FirstIndex
    <3>3. v10' \in [Layers -> Int]
      BY <2>2, <3>1 DEF Export!DecodeLayers, Export!FirstRead, Export!Reads, Export!FirstIndex
    <3>4. [l \in Layers |-> IF l \in Export!Asked THEN v10'[l] ELSE -1] \in [Layers -> Int]
      BY <3>3
    <3>5. v11' \in Seq([Layers -> Int]) /\ Len(v11') = Len(v11) + 1
      BY <2>2, <3>4
    <3>6. QED BY <2>2, <3>1, <3>2, <3>3, <3>5
  <2>3. QED BY <1>8, <2>1, <2>2 DEF Export!ComposeFrame
<1>9. ASSUME Export!EncoderEnds PROVE Export!Shape'
  BY <1>9 DEF Export!EncoderEnds, Export!Fails
<1>10. ASSUME Export!CpuMux PROVE Export!Shape'
  BY <1>10 DEF Export!CpuMux, Export!Fails, Export!Counted
<1>11. ASSUME Export!Commit PROVE Export!Shape'
  BY <1>11 DEF Export!Commit, Export!Fails, Export!GpuFails
<1>12. ASSUME Export!CleanUp PROVE Export!Shape'
  BY <1>12 DEF Export!CleanUp
<1>13. ASSUME Export!Cancel PROVE Export!Shape'
  BY <1>13 DEF Export!Cancel
<1>14. ASSUME NEW r \in Routes, Export!CoolDown(r) PROVE Export!Shape'
  BY <1>14 DEF Export!CoolDown
<1>15. QED BY <1>1, <1>2, <1>3, <1>4, <1>5, <1>6, <1>7, <1>8, <1>9, <1>10, <1>11, <1>12, <1>13,
    <1>14 DEF Export!Next, Export!Step

(* Each decoder stands at the frame its layer has to show next, so the       *)
(* composed frame is exact.                                                  *)
LEMMA ExportFrames ==
    ASSUME Export!Inv, Export!Next
    PROVE  Export!Aligned' /\ Export!FramesExact'
<1>a. Frames \in Nat \ {0} /\ MaxExports \in Nat /\ "cpu" \notin Routes /\ "none" \notin Routes
  BY ExportAssumption, BoundsAreNatural
<1>b. v11 \in Seq([Layers -> Int]) /\ Len(v11) \in Nat /\ Len(<< >>) = 0
  BY DEF Export!Inv, Export!Shape
<1> USE <1>a, <1>b DEF Export!Inv, Export!Shape, Export!TypeOK, Export!Products, Export!decoders,
    Export!store, Export!Nothing, Export!Aligned, Export!FramesExact
<1>1. ASSUME Export!SelectRoute PROVE Export!Aligned' /\ Export!FramesExact'
  BY <1>1 DEF Export!SelectRoute
<1>2. ASSUME Export!ConsiderResident PROVE Export!Aligned' /\ Export!FramesExact'
  BY <1>2 DEF Export!ConsiderResident, Export!Consider, Export!Learn, Export!Due
<1>3. ASSUME Export!ConsiderPlain PROVE Export!Aligned' /\ Export!FramesExact'
  BY <1>3 DEF Export!ConsiderPlain, Export!Consider, Export!Learn, Export!Due
<1>4. ASSUME Export!Interrupted PROVE Export!Aligned' /\ Export!FramesExact'
  BY <1>4 DEF Export!Interrupted
<1>5. ASSUME Export!Run PROVE Export!Aligned' /\ Export!FramesExact'
  BY <1>5 DEF Export!Run
<1>6. ASSUME Export!GpuRender PROVE Export!Aligned' /\ Export!FramesExact'
  BY <1>6 DEF Export!GpuRender, Export!GpuProduces, Export!GpuFails, Export!Verified
<1>7. ASSUME Export!GpuMux PROVE Export!Aligned' /\ Export!FramesExact'
  BY <1>7 DEF Export!GpuMux, Export!GpuProduces, Export!GpuFails, Export!Verified
<1>8. ASSUME Export!ComposeFrame PROVE Export!Aligned' /\ Export!FramesExact'
  <2>1. CASE Export!Fails BY <1>8, <2>1 DEF Export!Fails, Export!ComposeFrame
  <2>2. CASE /\ Export!DecodeLayers
             /\ v11' = Append(v11, [l \in Layers |-> IF l \in Export!Asked THEN v10'[l] ELSE -1])
             /\ UNCHANGED <<Export!store, v3, v4, v5, v6, v12, v13, v14>>
    <3>1. /\ {v7, v8, v9, v10} \subseteq [Layers -> Int] /\ v3 = "frame" /\ Len(v11) < Frames
          /\ \A l \in Layers : Export!NextPositions[l] \in Int
      BY <1>8, ExportPosition DEF Export!ComposeFrame, Export!NextPositions
    <3>2. ASSUME NEW l \in Layers, l \in Export!Read
          PROVE  /\ v9'[l] = Export!NextPositions[l] /\ v10'[l] = Export!NextPositions[l]
                 /\ v7'[l] >= 0 => v7'[l] = v8'[l]
      <4>1. Export!NextPositions[l] \in Int /\ v7[l] \in Int /\ v8[l] \in Int /\ (v7[l] >= 0 => v7[l] = v8[l])
        BY <3>1
      <4>3. /\ Export!FirstRead(l, Export!NextPositions[l]) + Export!Reads(l, Export!NextPositions[l]) = Export!NextPositions[l] + 1
            /\ Export!FirstRead(l, Export!NextPositions[l]) + (Export!Reads(l, Export!NextPositions[l]) - 1)
                 = Export!NextPositions[l]
        BY <4>1, ExportReads
      <4>e. /\ v9' = [k \in Layers |-> IF k \in Export!Read THEN Export!NextPositions[k] ELSE v9[k]]
            /\ v10' = [k \in Layers |->
                         IF k \in Export!Read
                         THEN Export!FirstRead(k, Export!NextPositions[k]) + (Export!Reads(k, Export!NextPositions[k]) - 1)
                         ELSE v10[k]]
            /\ v7' = [k \in Layers |->
                        IF k \notin Export!Read THEN v7[k]
                        ELSE IF Export!Static(k) THEN -1
                        ELSE Export!FirstRead(k, Export!NextPositions[k]) + Export!Reads(k, Export!NextPositions[k])]
            /\ v8' = [k \in Layers |-> IF k \notin Export!Read THEN v8[k]
                                       ELSE IF Export!Static(k) THEN 0 ELSE Export!NextPositions[k] + 1]
        BY <2>2 DEF Export!DecodeLayers
      <4>a. /\ v9'[l] = Export!NextPositions[l]
            /\ v10'[l] = Export!FirstRead(l, Export!NextPositions[l]) + (Export!Reads(l, Export!NextPositions[l]) - 1)
            /\ v8'[l] = IF Export!Static(l) THEN 0 ELSE Export!NextPositions[l] + 1
        BY <4>e, <3>2
      <4>b. v7'[l] = IF Export!Static(l) THEN -1
                     ELSE Export!FirstRead(l, Export!NextPositions[l]) + Export!Reads(l, Export!NextPositions[l])
        BY <4>e, <3>2
      <4>5. QED BY <4>1, <4>3, <4>a, <4>b
    <3>3. ASSUME NEW l \in Layers, l \notin Export!Read
          PROVE  v7'[l] = v7[l] /\ v8'[l] = v8[l] /\ v9'[l] = v9[l] /\ v10'[l] = v10[l]
      BY <2>2, <3>3 DEF Export!DecodeLayers
    <3>4. Export!Aligned'
      BY <3>2, <3>3
    <3>5. \A l \in Layers : (IF l \in Export!Asked THEN v10'[l] ELSE -1) = Export!Position(l, Len(v11))
      <4> SUFFICES ASSUME NEW l \in Layers
                   PROVE  (IF l \in Export!Asked THEN v10'[l] ELSE -1) = Export!Position(l, Len(v11))
        OBVIOUS
      <4>1. /\ Export!NextPositions[l] = Export!Position(l, Len(v11))
            /\ Export!Position(l, Len(v11)) \in Int /\ Export!Position(l, Len(v11)) >= -1
        BY ExportPosition DEF Export!NextPositions
      <4>2. CASE l \in Export!Asked /\ l \in Export!Read BY <4>1, <4>2, <3>2
      <4>3. CASE l \in Export!Asked /\ l \notin Export!Read
        <5>1. v9[l] = Export!NextPositions[l] BY <4>3 DEF Export!Read, Export!Hit
        <5>2. QED BY <5>1, <4>1, <4>3, <3>3
      <4>4. CASE l \notin Export!Asked
        <5>1. ~(Export!NextPositions[l] >= 0) BY <4>4 DEF Export!Asked
        <5>2. QED BY <5>1, <4>1, <4>4
      <4>5. QED BY <4>2, <4>3, <4>4
    <3>6. ASSUME NEW f, f = [l \in Layers |-> IF l \in Export!Asked THEN v10'[l] ELSE -1], v11' = Append(v11, f)
          PROVE  Export!FramesExact'
      <4>1. /\ Len(v11') = Len(v11) + 1 /\ v11'[Len(v11) + 1] = f
            /\ \A i \in 1 .. Len(v11) : v11'[i] = v11[i]
        BY <3>6
      <4>2. \A l \in Layers : f[l] = Export!Position(l, Len(v11)) BY <3>5, <3>6
      <4>3. \A i \in 1 .. Len(v11') : i \in 1 .. Len(v11) \/ (i = Len(v11) + 1 /\ i - 1 = Len(v11))
        BY <4>1
      <4>4. QED BY <4>1, <4>2, <4>3
    <3>7. QED BY <2>2, <3>4, <3>6
  <2>3. QED BY <1>8, <2>1, <2>2 DEF Export!ComposeFrame
<1>9. ASSUME Export!EncoderEnds PROVE Export!Aligned' /\ Export!FramesExact'
  BY <1>9 DEF Export!EncoderEnds, Export!Fails
<1>10. ASSUME Export!CpuMux PROVE Export!Aligned' /\ Export!FramesExact'
  BY <1>10 DEF Export!CpuMux, Export!Fails, Export!Counted
<1>11. ASSUME Export!Commit PROVE Export!Aligned' /\ Export!FramesExact'
  BY <1>11 DEF Export!Commit, Export!Fails, Export!GpuFails
<1>12. ASSUME Export!CleanUp PROVE Export!Aligned' /\ Export!FramesExact'
  BY <1>12 DEF Export!CleanUp
<1>13. ASSUME Export!Cancel PROVE Export!Aligned' /\ Export!FramesExact'
  BY <1>13 DEF Export!Cancel
<1>14. ASSUME NEW r \in Routes, Export!CoolDown(r) PROVE Export!Aligned' /\ Export!FramesExact'
  BY <1>14 DEF Export!CoolDown
<1>15. QED BY <1>1, <1>2, <1>3, <1>4, <1>5, <1>6, <1>7, <1>8, <1>9, <1>10, <1>11, <1>12, <1>13,
    <1>14 DEF Export!Next, Export!Step

(* A route on the GPU is taken only if it was proven, and the pipeline is at *)
(* a place of its route.                                                     *)
LEMMA ExportRoutes ==
    ASSUME Export!Inv, Export!Next
    PROVE  Export!RouteProven'
<1>a. Frames \in Nat \ {0} /\ MaxExports \in Nat /\ "cpu" \notin Routes /\ "none" \notin Routes
  BY ExportAssumption, BoundsAreNatural
<1>b. v11 \in Seq([Layers -> Int]) /\ Len(v11) \in Nat /\ Len(<< >>) = 0
  BY DEF Export!Inv, Export!Shape
<1> USE <1>a, <1>b DEF Export!Inv, Export!Shape, Export!TypeOK, Export!Products, Export!decoders,
    Export!store, Export!Nothing, Export!RouteProven
<1>1. ASSUME Export!SelectRoute PROVE Export!RouteProven'
  BY <1>1 DEF Export!SelectRoute
<1>2. ASSUME Export!ConsiderResident PROVE Export!RouteProven'
  BY <1>2 DEF Export!ConsiderResident, Export!Consider, Export!Learn, Export!Due
<1>3. ASSUME Export!ConsiderPlain PROVE Export!RouteProven'
  BY <1>3 DEF Export!ConsiderPlain, Export!Consider, Export!Learn, Export!Due
<1>4. ASSUME Export!Interrupted PROVE Export!RouteProven'
  BY <1>4 DEF Export!Interrupted
<1>5. ASSUME Export!Run PROVE Export!RouteProven'
  BY <1>5 DEF Export!Run
<1>6. ASSUME Export!GpuRender PROVE Export!RouteProven'
  BY <1>6 DEF Export!GpuRender, Export!GpuProduces, Export!GpuFails, Export!Verified
<1>7. ASSUME Export!GpuMux PROVE Export!RouteProven'
  BY <1>7 DEF Export!GpuMux, Export!GpuProduces, Export!GpuFails, Export!Verified
<1>8. ASSUME Export!ComposeFrame PROVE Export!RouteProven'
  BY <1>8 DEF Export!ComposeFrame, Export!Fails
<1>9. ASSUME Export!EncoderEnds PROVE Export!RouteProven'
  BY <1>9 DEF Export!EncoderEnds, Export!Fails
<1>10. ASSUME Export!CpuMux PROVE Export!RouteProven'
  BY <1>10 DEF Export!CpuMux, Export!Fails, Export!Counted
<1>11. ASSUME Export!Commit PROVE Export!RouteProven'
  BY <1>11 DEF Export!Commit, Export!Fails, Export!GpuFails
<1>12. ASSUME Export!CleanUp PROVE Export!RouteProven'
  BY <1>12 DEF Export!CleanUp
<1>13. ASSUME Export!Cancel PROVE Export!RouteProven'
  BY <1>13 DEF Export!Cancel
<1>14. ASSUME NEW r \in Routes, Export!CoolDown(r) PROVE Export!RouteProven'
  BY <1>14 DEF Export!CoolDown
<1>15. QED BY <1>1, <1>2, <1>3, <1>4, <1>5, <1>6, <1>7, <1>8, <1>9, <1>10, <1>11, <1>12, <1>13,
    <1>14 DEF Export!Next, Export!Step

(* What comes to be muxed or committed was made by the route in use, with    *)
(* every frame.                                                              *)
LEMMA ExportProduct ==
    ASSUME Export!Inv, Export!Next
    PROVE  Export!ProductWhole'
<1>a. Frames \in Nat \ {0} /\ MaxExports \in Nat /\ "cpu" \notin Routes /\ "none" \notin Routes
  BY ExportAssumption, BoundsAreNatural
<1>b. v11 \in Seq([Layers -> Int]) /\ Len(v11) \in Nat /\ Len(<< >>) = 0
  BY DEF Export!Inv, Export!Shape
<1> USE <1>a, <1>b DEF Export!Inv, Export!Shape, Export!TypeOK, Export!Products, Export!decoders,
    Export!store, Export!Nothing, Export!RouteProven, Export!ProductWhole
<1>1. ASSUME Export!SelectRoute PROVE Export!ProductWhole'
  BY <1>1 DEF Export!SelectRoute
<1>2. ASSUME Export!ConsiderResident PROVE Export!ProductWhole'
  BY <1>2 DEF Export!ConsiderResident, Export!Consider, Export!Learn, Export!Due
<1>3. ASSUME Export!ConsiderPlain PROVE Export!ProductWhole'
  BY <1>3 DEF Export!ConsiderPlain, Export!Consider, Export!Learn, Export!Due
<1>4. ASSUME Export!Interrupted PROVE Export!ProductWhole'
  BY <1>4 DEF Export!Interrupted
<1>5. ASSUME Export!Run PROVE Export!ProductWhole'
  BY <1>5 DEF Export!Run
<1>6. ASSUME Export!GpuRender PROVE Export!ProductWhole'
  BY <1>6 DEF Export!GpuRender, Export!GpuProduces, Export!GpuFails, Export!Verified
<1>7. ASSUME Export!GpuMux PROVE Export!ProductWhole'
  BY <1>7 DEF Export!GpuMux, Export!GpuProduces, Export!GpuFails, Export!Verified
<1>8. ASSUME Export!ComposeFrame PROVE Export!ProductWhole'
  BY <1>8 DEF Export!ComposeFrame, Export!Fails
<1>9. ASSUME Export!EncoderEnds PROVE Export!ProductWhole'
  BY <1>9 DEF Export!EncoderEnds, Export!Fails
<1>10. ASSUME Export!CpuMux PROVE Export!ProductWhole'
  BY <1>10 DEF Export!CpuMux, Export!Fails, Export!Counted
<1>11. ASSUME Export!Commit PROVE Export!ProductWhole'
  BY <1>11 DEF Export!Commit, Export!Fails, Export!GpuFails
<1>12. ASSUME Export!CleanUp PROVE Export!ProductWhole'
  BY <1>12 DEF Export!CleanUp
<1>13. ASSUME Export!Cancel PROVE Export!ProductWhole'
  BY <1>13 DEF Export!Cancel
<1>14. ASSUME NEW r \in Routes, Export!CoolDown(r) PROVE Export!ProductWhole'
  BY <1>14 DEF Export!CoolDown
<1>15. QED BY <1>1, <1>2, <1>3, <1>4, <1>5, <1>6, <1>7, <1>8, <1>9, <1>10, <1>11, <1>12, <1>13,
    <1>14 DEF Export!Next, Export!Step

(* The invariant of an export is inductive.                                  *)
LEMMA ExportStep == Export!Inv /\ [Export!Next]_(Export!vars) => Export!Inv'
<1> SUFFICES ASSUME Export!Inv, [Export!Next]_(Export!vars) PROVE Export!Inv'
  OBVIOUS
<1>1. CASE UNCHANGED Export!vars
  BY <1>1 DEF Export!vars, Export!Inv, Export!Shape, Export!TypeOK, Export!Aligned, Export!RouteProven,
              Export!ProductWhole, Export!FramesExact
<1>2. CASE Export!Next
  BY <1>2, ExportShape, ExportFrames, ExportRoutes, ExportProduct DEF Export!Inv
<1>3. QED BY <1>1, <1>2

(* Only a commit replaces the output, by what is proven or whole.            *)
LEMMA ExportDelivers == ASSUME Export!Inv, Export!Next PROVE Export!WholeProduct /\ Export!NothingAfterCancel
<1>a. Frames \in Nat \ {0} /\ v11 \in Seq([Layers -> Int]) /\ Len(v11) \in Nat /\ Len(<< >>) = 0
  BY ExportAssumption DEF Export!Inv, Export!Shape
<1> USE <1>a DEF Export!WholeProduct, Export!NothingAfterCancel, Export!decoders, Export!store
<1>1. ASSUME Export!SelectRoute PROVE Export!WholeProduct /\ Export!NothingAfterCancel
  BY <1>1 DEF Export!SelectRoute
<1>2. ASSUME Export!ConsiderResident PROVE Export!WholeProduct /\ Export!NothingAfterCancel
  BY <1>2 DEF Export!ConsiderResident, Export!Consider, Export!Learn, Export!Due
<1>3. ASSUME Export!ConsiderPlain PROVE Export!WholeProduct /\ Export!NothingAfterCancel
  BY <1>3 DEF Export!ConsiderPlain, Export!Consider, Export!Learn, Export!Due
<1>4. ASSUME Export!Interrupted PROVE Export!WholeProduct /\ Export!NothingAfterCancel
  BY <1>4 DEF Export!Interrupted
<1>5. ASSUME Export!Run PROVE Export!WholeProduct /\ Export!NothingAfterCancel
  BY <1>5 DEF Export!Run
<1>6. ASSUME Export!GpuRender PROVE Export!WholeProduct /\ Export!NothingAfterCancel
  BY <1>6 DEF Export!GpuRender, Export!GpuProduces, Export!GpuFails, Export!Verified
<1>7. ASSUME Export!GpuMux PROVE Export!WholeProduct /\ Export!NothingAfterCancel
  BY <1>7 DEF Export!GpuMux, Export!GpuProduces, Export!GpuFails, Export!Verified
<1>8. ASSUME Export!ComposeFrame PROVE Export!WholeProduct /\ Export!NothingAfterCancel
  BY <1>8 DEF Export!ComposeFrame, Export!Fails
<1>9. ASSUME Export!EncoderEnds PROVE Export!WholeProduct /\ Export!NothingAfterCancel
  BY <1>9 DEF Export!EncoderEnds, Export!Fails
<1>10. ASSUME Export!CpuMux PROVE Export!WholeProduct /\ Export!NothingAfterCancel
  BY <1>10 DEF Export!CpuMux, Export!Fails, Export!Counted
<1>11. ASSUME Export!Commit PROVE Export!WholeProduct /\ Export!NothingAfterCancel
  <2>1. CASE Export!Fails \/ Export!GpuFails({FALSE})
    BY <1>11, <2>1 DEF Export!Fails, Export!GpuFails
  <2>2. CASE v6' = v5 /\ v13' = "done" /\ v3 = "commit" /\ v11' = v11
    BY <2>2 DEF Export!Inv, Export!RouteProven, Export!ProductWhole
  <2>3. QED BY <1>11, <2>1, <2>2 DEF Export!Commit
<1>12. ASSUME Export!CleanUp PROVE Export!WholeProduct /\ Export!NothingAfterCancel
  BY <1>12 DEF Export!CleanUp
<1>13. ASSUME Export!Cancel PROVE Export!WholeProduct /\ Export!NothingAfterCancel
  BY <1>13 DEF Export!Cancel
<1>14. ASSUME NEW r \in Routes, Export!CoolDown(r) PROVE Export!WholeProduct /\ Export!NothingAfterCancel
  BY <1>14 DEF Export!CoolDown
<1>15. QED BY <1>1, <1>2, <1>3, <1>4, <1>5, <1>6, <1>7, <1>8, <1>9, <1>10, <1>11, <1>12, <1>13,
    <1>14 DEF Export!Next, Export!Step

(***************************************************************************)
(* The export of a restored clip.                                          *)
(***************************************************************************)
(* The jobs of a restoration and their bounds.                               *)
LEMMA RestoreJobs ==
  /\ Restore!Limit \in Nat
  /\ \A j \in Restore!Possible :
       /\ j.count \in Nat /\ j.real \in Nat /\ j.count <= Restore!Limit /\ j.real <= Restore!Limit
       /\ j.route \in {"temporal", "colour"} /\ j.count > 0
<1> DEFINE M == CHOOSE n \in Counts : \A k \in Counts : k <= n
<1>1. M \in Counts /\ \A k \in Counts : k <= M
  BY RestoreAssumption
<1>2. M \in Nat /\ Restore!Limit = 1 + M
  BY <1>1, RestoreAssumption DEF Restore!Limit
<1> HIDE DEF M
<1>3. ASSUME NEW j \in Restore!Possible
      PROVE  /\ j.count \in Nat /\ j.real \in Nat /\ j.count <= Restore!Limit /\ j.real <= Restore!Limit
             /\ j.route \in {"temporal", "colour"} /\ j.count > 0
  <2>1. j.count \in Counts /\ j.route \in {"temporal", "colour"} /\ j.real \in {j.count - 1, j.count, j.count + 1}
    BY DEF Restore!Possible, Restore!Jobs
  <2>2. j.count \in Nat \ {0} /\ j.count <= M
    BY <2>1, <1>1, RestoreAssumption
  <2>3. QED BY <2>1, <2>2, <1>2
<1>4. QED BY <1>2, <1>3

(* The invariant of a restoration holds initially.                           *)
LEMMA RestoreInit == Restore!Init => Restore!Inv
<1> SUFFICES ASSUME Restore!Init PROVE Restore!Inv
  OBVIOUS
<1>a. MaxExports \in Nat /\ Radius \in Nat \ {0} /\ Len(<< >>) = 0
  BY RestoreAssumption, BoundsAreNatural
<1>b. Restore!Limit \in Nat /\ v3.real \in Nat
  BY RestoreJobs DEF Restore!Init
<1> USE <1>a, <1>b DEF Restore!Init
<1>1. Restore!TypeOK
  <2>1. {v15, v16} \subseteq -1 .. Restore!Limit OBVIOUS
  <2>2. {v10, v11, v12} \subseteq 0 .. v3.real OBVIOUS
  <2>3. {v1, v4, v9, v13} \subseteq BOOLEAN
    OBVIOUS
  <2>7. v2 \in 0 .. MaxExports
    OBVIOUS
  <2>8. v3 \in Restore!Possible
    OBVIOUS
  <2>9. Len(v14) <= v3.real
    OBVIOUS
  <2>4. v5 \in Restore!Places /\ v7 \in Restore!ProcessStates /\ v8 \in Restore!ProcessStates
    BY DEF Restore!Places, Restore!ProcessStates
  <2>5. v6 \in {"none", "done", "cancelled", "error"} OBVIOUS
  <2>6. QED BY <2>1, <2>2, <2>3, <2>4, <2>5, <2>7, <2>8, <2>9 DEF Restore!TypeOK
<1>2. Restore!Shape BY <1>1 DEF Restore!Shape
<1>3. Restore!Rolling /\ Restore!FramesInOrder
  BY DEF Restore!Rolling, Restore!FramesInOrder, Restore!Most
<1>4. Restore!Alone /\ Restore!Given BY DEF Restore!Alone, Restore!NothingLeft, Restore!Given
<1>5. QED BY <1>2, <1>3, <1>4 DEF Restore!Inv

(* The window of frames around the target stays within what has been decoded.*)
LEMMA RestoreBounds ==
    ASSUME NEW r \in Nat, NEW d \in 0 .. r, NEW t \in 0 .. r, NEW f \in 0 .. r, t < d
    PROVE  /\ t + 1 \in 0 .. r /\ t + 1 <= r
           /\ t + 1 - Radius > f => t + 1 - Radius \in 0 .. r
BY RestoreAssumption

(* Every action of a restoration or of its window keeps the shape of the state.*)
LEMMA RestoreShape ==
    ASSUME Restore!Inv, Restore!Next
    PROVE  Restore!Shape'
<1>a. MaxExports \in Nat /\ Radius \in Nat \ {0}
  BY RestoreAssumption, BoundsAreNatural
<1>b. v14 \in Seq([frame: Int, from: Int, to: Int]) /\ Len(v14) \in Nat /\ Len(<< >>) = 0
  BY DEF Restore!Inv, Restore!Shape
<1>c. Restore!Limit \in Nat /\ v3.real \in Nat /\ v3.count \in Nat /\ v3.count <= Restore!Limit /\ v3.real <= Restore!Limit
  BY RestoreJobs DEF Restore!Inv, Restore!Shape, Restore!TypeOK
<1> USE <1>a, <1>b, <1>c DEF Restore!Inv, Restore!stream, Restore!user, Restore!Goto, Restore!Temporal,
    Restore!Shape, Restore!TypeOK, Restore!Places, Restore!ProcessStates, Restore!Rolling
<1>1. ASSUME NEW j \in Restore!Possible, Restore!StartExport(j) PROVE Restore!Shape'
  <2>1. j.real \in Nat BY RestoreJobs
  <2>2. {v10', v11', v12'} \subseteq 0 .. j.real /\ Len(v14') <= j.real /\ v3' = j
    BY <1>1, <2>1 DEF Restore!StartExport
  <2>3. v14' \in Seq([frame: Int, from: Int, to: Int])
    BY <1>1 DEF Restore!StartExport
  <2>6. {v15', v16'} \subseteq -1 .. Restore!Limit
    BY <1>1 DEF Restore!StartExport
  <2>4. {v1', v4', v9', v13'} \subseteq BOOLEAN
    BY <1>1 DEF Restore!StartExport
  <2>7. v2' \in 0 .. MaxExports
    BY <1>1 DEF Restore!StartExport
  <2>5. QED BY <1>1, <2>2, <2>3, <2>4, <2>6, <2>7 DEF Restore!StartExport
<1>2. ASSUME Restore!CancelExport PROVE Restore!Shape'
  BY <1>2 DEF Restore!CancelExport
<1>3. ASSUME Restore!Quit PROVE Restore!Shape'
  BY <1>3 DEF Restore!Quit
<1>4. ASSUME Restore!Probe PROVE Restore!Shape'
  BY <1>4 DEF Restore!Probe
<1>5. ASSUME Restore!Popen PROVE Restore!Shape'
  <2>1. v7' \in Restore!ProcessStates /\ v8' \in Restore!ProcessStates /\ v9' \in BOOLEAN
    BY <1>5 DEF Restore!Popen
  <2>2. v15' \in -1 .. Restore!Limit
    BY <1>5 DEF Restore!Popen
  <2>3. v5' \in Restore!Places /\ v6' \in {"none", "done", "cancelled", "error"}
    BY <1>5 DEF Restore!Popen, Restore!Raise, Restore!BrokenPipe
  <2>4. QED BY <1>5, <2>1, <2>2, <2>3 DEF Restore!Popen
<1>6. ASSUME Restore!Look PROVE Restore!Shape'
  BY <1>6 DEF Restore!Look, Restore!Raise
<1>7. ASSUME Restore!Read PROVE Restore!Shape'
  <2>1. v10' \in 0 .. v3.real
    <3>1. v10 \in 0 .. v3.real OBVIOUS
    <3>2. v10' = v10 \/ (v10' = v10 + 1 /\ v10 < v3.real) BY <1>7 DEF Restore!Read
    <3>3. QED BY <3>1, <3>2
  <2>2. v5' \in Restore!Places /\ v6' \in {"none", "done", "cancelled", "error"} /\ v13' \in BOOLEAN
    BY <1>7 DEF Restore!Read, Restore!Raise
  <2>3. v11' = v11 /\ v12' = v12 /\ v14' = v14
    BY <1>7 DEF Restore!Read
  <2>4. QED BY <1>7, <2>1, <2>2, <2>3 DEF Restore!Read
<1>8. ASSUME Restore!Write PROVE Restore!Shape'
  <2>1. v5' \in Restore!Places /\ v6' \in {"none", "done", "cancelled", "error"}
    BY <1>8 DEF Restore!Write, Restore!Raise, Restore!BrokenPipe
  <2>2. CASE v14' = v14 /\ v12' = v12 /\ v11' = v11
    BY <1>8, <2>1, <2>2 DEF Restore!Write
  <2>3. CASE /\ v14' = Append(v14, [frame |-> v12, from |-> v11, to |-> v10 - 1]) /\ v12' = v12 + 1
             /\ v11' = Restore!Kept(v12 + 1) /\ v12 < v10
    <3>1. v10 \in 0 .. v3.real /\ v11 \in 0 .. v3.real /\ v12 \in 0 .. v3.real /\ v12 = Len(v14)
      OBVIOUS
    <3>2. [frame |-> v12, from |-> v11, to |-> v10 - 1] \in [frame: Int, from: Int, to: Int]
      BY <3>1
    <3>3. v14' \in Seq([frame: Int, from: Int, to: Int]) /\ Len(v14') = Len(v14) + 1
      BY <2>3, <3>2
    <3>4. v12 + 1 \in 0 .. v3.real /\ v12 + 1 <= v3.real /\ (v12 + 1 - Radius > v11 => v12 + 1 - Radius \in 0 .. v3.real)
      BY <2>3, <3>1, <1>c, RestoreBounds
    <3>5. v11' = v11 \/ (v11' = v12 + 1 - Radius /\ v12 + 1 - Radius > v11)
      BY <2>3 DEF Restore!Kept
    <3>6. v11' \in 0 .. v3.real /\ v12' \in 0 .. v3.real
      BY <2>3, <3>1, <3>4, <3>5
    <3>7. v10' = v10 /\ v13' = v13 /\ v3' = v3
      BY <1>8 DEF Restore!Write
    <3>10. Len(v14') <= v3.real
      BY <2>3, <3>1, <3>3, <3>4
    <3>8. {v10', v11', v12'} \subseteq 0 .. v3.real
      BY <3>1, <3>6, <3>7
    <3>9. QED BY <1>8, <2>1, <3>3, <3>7, <3>8, <3>10 DEF Restore!Write
  <2>4. QED BY <1>8, <2>2, <2>3 DEF Restore!Write, Restore!BrokenPipe
<1>9. ASSUME Restore!CloseInput PROVE Restore!Shape'
  BY <1>9 DEF Restore!CloseInput, Restore!Raise, Restore!BrokenPipe
<1>10. ASSUME Restore!Wait PROVE Restore!Shape'
  BY <1>10 DEF Restore!Wait, Restore!Raise, Restore!Exact
<1>11. ASSUME Restore!Close PROVE Restore!Shape'
  BY <1>11 DEF Restore!Close, Restore!Terminate, Restore!Kill, Restore!Killed
<1>12. ASSUME Restore!Poll PROVE Restore!Shape'
  BY <1>12 DEF Restore!Poll, Restore!Raise, Restore!Kill, Restore!Killed
<1>13. ASSUME Restore!Validate PROVE Restore!Shape'
  BY <1>13 DEF Restore!Validate, Restore!Contract
<1>14. ASSUME Restore!Replace PROVE Restore!Shape'
  BY <1>14 DEF Restore!Replace
<1>15. ASSUME Restore!Unlink PROVE Restore!Shape'
  BY <1>15 DEF Restore!Unlink
<1>16. ASSUME Restore!Finish PROVE Restore!Shape'
  BY <1>16 DEF Restore!Finish
<1>17. ASSUME Restore!EncoderEnds PROVE Restore!Shape'
  <2>1. Restore!Received \in 0 .. Restore!Limit
    <3>1. Len(v14) <= v3.real OBVIOUS
    <3>2. Restore!Received \in {v3.real, Len(v14), v3.count} BY DEF Restore!Received
    <3>3. QED BY <3>1, <3>2, <1>b, <1>c
  <2>2. v15' \in -1 .. Restore!Limit
    BY <1>17, <2>1 DEF Restore!EncoderEnds
  <2>3. QED BY <1>17, <2>2 DEF Restore!EncoderEnds
<1>18. ASSUME Restore!DecoderEnds PROVE Restore!Shape'
  BY <1>18 DEF Restore!DecoderEnds
<1>19. ASSUME Restore!WatcherKills PROVE Restore!Shape'
  BY <1>19 DEF Restore!WatcherKills, Restore!Kill, Restore!Killed
<1>20. QED BY <1>1, <1>2, <1>3, <1>4, <1>5, <1>6, <1>7, <1>8, <1>9, <1>10, <1>11, <1>12, <1>13,
    <1>14, <1>15, <1>16, <1>17, <1>18, <1>19 DEF Restore!Next, Restore!Running, Restore!Work

(* What does not touch the stream keeps the window.                          *)
LEMMA RestoreUntouched ==
    ASSUME Restore!Rolling, Restore!FramesInOrder, v10' = v10, v11' = v11, v12' = v12, v13' = v13, v14' = v14,
           v5' \in {"probe", "popen", "look", "read"} => ~v13 /\ v10 <= v12 + Radius
    PROVE  Restore!Rolling' /\ Restore!FramesInOrder'
BY DEF Restore!Rolling, Restore!FramesInOrder

(* The frames held are the window around the target, never more; the written *)
(* ones are in order, each from its neighbours.                              *)
LEMMA RestoreRolling ==
    ASSUME Restore!Inv, Restore!Next
    PROVE  Restore!Rolling' /\ Restore!FramesInOrder'
<1>a. Radius \in Nat \ {0} /\ v14 \in Seq([frame: Int, from: Int, to: Int]) /\ Len(<< >>) = 0
  BY RestoreAssumption DEF Restore!Inv, Restore!Shape
<1>b. v10 \in Nat /\ v11 \in Nat /\ v12 \in Nat /\ v13 \in BOOLEAN /\ v12 = Len(v14)
  <2>1. v3.real \in Nat BY RestoreJobs DEF Restore!Inv, Restore!Shape, Restore!TypeOK
  <2>2. QED BY <2>1 DEF Restore!Inv, Restore!Shape, Restore!TypeOK, Restore!Rolling
<1>c. /\ v10 <= v12 + Radius + 1 /\ v11 = Restore!Most(0, v12 - Radius)
      /\ (~v13 /\ v12 > 0 => v12 + Radius <= v10)
      /\ (v5 \in {"probe", "popen", "look", "read"} => ~v13 /\ v10 <= v12 + Radius)
  BY DEF Restore!Inv, Restore!Rolling
<1>d. Restore!Rolling /\ Restore!FramesInOrder
  BY DEF Restore!Inv
<1> USE <1>a, <1>b, <1>c, <1>d DEF Restore!stream, Restore!user, Restore!Goto, Restore!Raise,
    Restore!BrokenPipe
<1>1. ASSUME NEW j \in Restore!Possible, Restore!StartExport(j) PROVE Restore!Rolling' /\
      Restore!FramesInOrder'
  BY <1>1 DEF Restore!StartExport, Restore!Rolling, Restore!FramesInOrder, Restore!Most
<1>2. ASSUME Restore!Read PROVE Restore!Rolling' /\ Restore!FramesInOrder'
  <2>1. CASE v10' = v10 + 1 /\ v5' = "write" /\ v11' = v11 /\ v12' = v12 /\ v13' = v13 /\ v14' = v14
    <3>1. v10 <= v12 + Radius /\ ~v13 BY <1>2 DEF Restore!Read
    <3>2. Restore!Rolling' BY <2>1, <3>1 DEF Restore!Rolling
    <3>3. ASSUME NEW i \in 1 .. Len(v14)
          PROVE  Restore!Least(i - 1 + Radius, v10' - 1) = Restore!Least(i - 1 + Radius, v10 - 1)
      <4>1. i - 1 + Radius <= v10 - 1 BY <3>1
      <4>2. QED BY <4>1, <2>1 DEF Restore!Least
    <3>4. QED BY <2>1, <3>2, <3>3 DEF Restore!FramesInOrder
  <2>2. CASE v13' = TRUE /\ v5' = "write" /\ v10' = v10 /\ v11' = v11 /\ v12' = v12 /\ v14' = v14
    BY <2>2 DEF Restore!Rolling, Restore!FramesInOrder
  <2>3. CASE Restore!Raise("error") /\ UNCHANGED Restore!stream
    BY <2>3, RestoreUntouched
  <2>4. QED BY <1>2, <2>1, <2>2, <2>3 DEF Restore!Read
<1>3. ASSUME Restore!Write PROVE Restore!Rolling' /\ Restore!FramesInOrder'
  <2>1. v10' = v10 /\ v13' = v13 /\ v5 = "write"
    BY <1>3 DEF Restore!Write
  <2>2. CASE /\ v14' = Append(v14, [frame |-> v12, from |-> v11, to |-> v10 - 1]) /\ v12' = v12 + 1
             /\ v11' = Restore!Kept(v12 + 1) /\ v12 < v10 /\ Restore!Ready /\ v5' = v5
    <3>1. v11' = Restore!Most(0, v12' - Radius)
      BY <2>2 DEF Restore!Kept, Restore!Most
    <3>2. Len(v14') = Len(v14) + 1 /\ \A i \in 1 .. Len(v14) : v14'[i] = v14[i]
      BY <2>2
    <3>3. v14'[Len(v14) + 1] = [frame |-> v12, from |-> v11, to |-> v10 - 1]
      BY <2>2
    <3>4. v10 - 1 = Restore!Least(v12 + Radius, v10 - 1)
      BY DEF Restore!Least
    <3>5. ~v13' /\ v12' > 0 => v12' + Radius <= v10'
      BY <2>1, <2>2 DEF Restore!Ready
    <3>6. Restore!Rolling'
      BY <2>1, <2>2, <3>1, <3>2, <3>5 DEF Restore!Rolling
    <3>7. \A i \in 1 .. Len(v14') : i \in 1 .. Len(v14) \/ (i = Len(v14) + 1 /\ i - 1 = v12)
      BY <3>2
    <3>8. \A i \in 1 .. Len(v14) : /\ v14'[i].frame = i - 1 /\ v14'[i].from = Restore!Most(0, i - 1 - Radius)
                                    /\ v14'[i].to = Restore!Least(i - 1 + Radius, v10' - 1)
      BY <2>1, <3>2 DEF Restore!FramesInOrder
    <3>9. ASSUME NEW i, i = Len(v14) + 1
          PROVE  /\ v14'[i].frame = i - 1 /\ v14'[i].from = Restore!Most(0, i - 1 - Radius)
                 /\ v14'[i].to = Restore!Least(i - 1 + Radius, v10' - 1)
      <4>1. i - 1 = v12 BY <3>9
      <4>2. QED BY <2>1, <3>3, <3>4, <3>9, <4>1
    <3>10. QED BY <3>6, <3>7, <3>8, <3>9 DEF Restore!FramesInOrder
  <2>3. CASE /\ v11' = v11 /\ v12' = v12 /\ v14' = v14 /\ v5' = "look" /\ ~v13
             /\ ~(v10 > v11 /\ Restore!Ready /\ v12 < v10)
    <3>1. v10 <= v12 + Radius BY <2>3 DEF Restore!Ready, Restore!Most
    <3>2. QED BY <2>1, <2>3, <3>1, RestoreUntouched
  <2>4. CASE v11' = v11 /\ v12' = v12 /\ v14' = v14 /\ v5' \notin {"probe", "popen", "look", "read"}
    BY <2>1, <2>4, RestoreUntouched
  <2>5. QED BY <1>3, <2>1, <2>2, <2>3, <2>4 DEF Restore!Write
<1>4. ASSUME Restore!CancelExport PROVE Restore!Rolling' /\ Restore!FramesInOrder'
  BY <1>4, RestoreUntouched DEF Restore!CancelExport
<1>5. ASSUME Restore!Quit PROVE Restore!Rolling' /\ Restore!FramesInOrder'
  BY <1>5, RestoreUntouched DEF Restore!Quit
<1>6. ASSUME Restore!Probe PROVE Restore!Rolling' /\ Restore!FramesInOrder'
  BY <1>6, RestoreUntouched DEF Restore!Probe
<1>7. ASSUME Restore!Popen PROVE Restore!Rolling' /\ Restore!FramesInOrder'
  BY <1>7, RestoreUntouched DEF Restore!Popen
<1>8. ASSUME Restore!Look PROVE Restore!Rolling' /\ Restore!FramesInOrder'
  BY <1>8, RestoreUntouched DEF Restore!Look
<1>9. ASSUME Restore!CloseInput PROVE Restore!Rolling' /\ Restore!FramesInOrder'
  BY <1>9, RestoreUntouched DEF Restore!CloseInput
<1>10. ASSUME Restore!Wait PROVE Restore!Rolling' /\ Restore!FramesInOrder'
  BY <1>10, RestoreUntouched DEF Restore!Wait
<1>11. ASSUME Restore!Close PROVE Restore!Rolling' /\ Restore!FramesInOrder'
  BY <1>11, RestoreUntouched DEF Restore!Close
<1>12. ASSUME Restore!Poll PROVE Restore!Rolling' /\ Restore!FramesInOrder'
  BY <1>12, RestoreUntouched DEF Restore!Poll
<1>13. ASSUME Restore!Validate PROVE Restore!Rolling' /\ Restore!FramesInOrder'
  BY <1>13, RestoreUntouched DEF Restore!Validate
<1>14. ASSUME Restore!Replace PROVE Restore!Rolling' /\ Restore!FramesInOrder'
  BY <1>14, RestoreUntouched DEF Restore!Replace
<1>15. ASSUME Restore!Unlink PROVE Restore!Rolling' /\ Restore!FramesInOrder'
  BY <1>15, RestoreUntouched DEF Restore!Unlink
<1>16. ASSUME Restore!Finish PROVE Restore!Rolling' /\ Restore!FramesInOrder'
  BY <1>16, RestoreUntouched DEF Restore!Finish
<1>17. ASSUME Restore!EncoderEnds PROVE Restore!Rolling' /\ Restore!FramesInOrder'
  BY <1>17, RestoreUntouched DEF Restore!EncoderEnds
<1>18. ASSUME Restore!DecoderEnds PROVE Restore!Rolling' /\ Restore!FramesInOrder'
  BY <1>18, RestoreUntouched DEF Restore!DecoderEnds
<1>19. ASSUME Restore!WatcherKills PROVE Restore!Rolling' /\ Restore!FramesInOrder'
  BY <1>19, RestoreUntouched DEF Restore!WatcherKills
<1>20. QED BY <1>1, <1>2, <1>3, <1>4, <1>5, <1>6, <1>7, <1>8, <1>9, <1>10, <1>11, <1>12, <1>13,
    <1>14, <1>15, <1>16, <1>17, <1>18, <1>19 DEF Restore!Next, Restore!Running, Restore!Work

(* A decoder, an encoder, the watcher and the temporary file exist only      *)
(* while the export is at a step that uses them.                             *)
LEMMA RestoreAlone ==
    ASSUME Restore!Inv, Restore!Next
    PROVE  Restore!Alone'
<1>a. MaxExports \in Nat /\ Radius \in Nat \ {0}
  BY RestoreAssumption, BoundsAreNatural
<1>b. v14 \in Seq([frame: Int, from: Int, to: Int]) /\ Len(v14) \in Nat /\ Len(<< >>) = 0
  BY DEF Restore!Inv, Restore!Shape
<1> USE <1>a, <1>b DEF Restore!Inv, Restore!stream, Restore!user, Restore!Goto, Restore!Temporal,
    Restore!Alone, Restore!NothingLeft, Restore!Shape, Restore!TypeOK, Restore!Places, Restore!ProcessStates
<1>1. ASSUME NEW j \in Restore!Possible, Restore!StartExport(j) PROVE Restore!Alone'
  BY <1>1 DEF Restore!StartExport
<1>2. ASSUME Restore!CancelExport PROVE Restore!Alone'
  BY <1>2 DEF Restore!CancelExport
<1>3. ASSUME Restore!Quit PROVE Restore!Alone'
  BY <1>3 DEF Restore!Quit
<1>4. ASSUME Restore!Probe PROVE Restore!Alone'
  BY <1>4 DEF Restore!Probe
<1>5. ASSUME Restore!Popen PROVE Restore!Alone'
  BY <1>5 DEF Restore!Popen, Restore!Raise, Restore!BrokenPipe
<1>6. ASSUME Restore!Look PROVE Restore!Alone'
  BY <1>6 DEF Restore!Look, Restore!Raise
<1>7. ASSUME Restore!Read PROVE Restore!Alone'
  BY <1>7 DEF Restore!Read, Restore!Raise
<1>8. ASSUME Restore!Write PROVE Restore!Alone'
  BY <1>8 DEF Restore!Write, Restore!Raise, Restore!BrokenPipe, Restore!Ready, Restore!Kept
<1>9. ASSUME Restore!CloseInput PROVE Restore!Alone'
  BY <1>9 DEF Restore!CloseInput, Restore!Raise, Restore!BrokenPipe
<1>10. ASSUME Restore!Wait PROVE Restore!Alone'
  BY <1>10 DEF Restore!Wait, Restore!Raise, Restore!Exact
<1>11. ASSUME Restore!Close PROVE Restore!Alone'
  BY <1>11 DEF Restore!Close, Restore!Terminate, Restore!Kill, Restore!Killed
<1>12. ASSUME Restore!Poll PROVE Restore!Alone'
  BY <1>12 DEF Restore!Poll, Restore!Raise, Restore!Kill, Restore!Killed
<1>13. ASSUME Restore!Validate PROVE Restore!Alone'
  BY <1>13 DEF Restore!Validate, Restore!Contract
<1>14. ASSUME Restore!Replace PROVE Restore!Alone'
  BY <1>14 DEF Restore!Replace
<1>15. ASSUME Restore!Unlink PROVE Restore!Alone'
  BY <1>15 DEF Restore!Unlink
<1>16. ASSUME Restore!Finish PROVE Restore!Alone'
  BY <1>16 DEF Restore!Finish
<1>17. ASSUME Restore!EncoderEnds PROVE Restore!Alone'
  BY <1>17 DEF Restore!EncoderEnds
<1>18. ASSUME Restore!DecoderEnds PROVE Restore!Alone'
  BY <1>18 DEF Restore!DecoderEnds
<1>19. ASSUME Restore!WatcherKills PROVE Restore!Alone'
  BY <1>19 DEF Restore!WatcherKills, Restore!Kill, Restore!Killed
<1>20. QED BY <1>1, <1>2, <1>3, <1>4, <1>5, <1>6, <1>7, <1>8, <1>9, <1>10, <1>11, <1>12, <1>13,
    <1>14, <1>15, <1>16, <1>17, <1>18, <1>19 DEF Restore!Next, Restore!Running, Restore!Work

(* The pipe closes, and the output is replaced, only with all the frames of  *)
(* the job.                                                                  *)
LEMMA RestoreGiven ==
    ASSUME Restore!Inv, Restore!Next
    PROVE  Restore!Given'
<1>a. MaxExports \in Nat /\ Radius \in Nat \ {0}
  BY RestoreAssumption, BoundsAreNatural
<1>b. v14 \in Seq([frame: Int, from: Int, to: Int]) /\ Len(v14) \in Nat /\ Len(<< >>) = 0
  BY DEF Restore!Inv, Restore!Shape
<1> USE <1>a, <1>b DEF Restore!Inv, Restore!stream, Restore!user, Restore!Goto, Restore!Temporal,
    Restore!Alone, Restore!Given, Restore!Shape, Restore!TypeOK, Restore!Places, Restore!ProcessStates
<1>1. ASSUME NEW j \in Restore!Possible, Restore!StartExport(j) PROVE Restore!Given'
  BY <1>1 DEF Restore!StartExport
<1>2. ASSUME Restore!CancelExport PROVE Restore!Given'
  BY <1>2 DEF Restore!CancelExport
<1>3. ASSUME Restore!Quit PROVE Restore!Given'
  BY <1>3 DEF Restore!Quit
<1>4. ASSUME Restore!Probe PROVE Restore!Given'
  BY <1>4 DEF Restore!Probe
<1>5. ASSUME Restore!Popen PROVE Restore!Given'
  BY <1>5 DEF Restore!Popen, Restore!Raise, Restore!BrokenPipe
<1>6. ASSUME Restore!Look PROVE Restore!Given'
  BY <1>6 DEF Restore!Look, Restore!Raise
<1>7. ASSUME Restore!Read PROVE Restore!Given'
  BY <1>7 DEF Restore!Read, Restore!Raise
<1>8. ASSUME Restore!Write PROVE Restore!Given'
  BY <1>8 DEF Restore!Write, Restore!Raise, Restore!BrokenPipe, Restore!Ready, Restore!Kept
<1>9. ASSUME Restore!CloseInput PROVE Restore!Given'
  BY <1>9 DEF Restore!CloseInput, Restore!Raise, Restore!BrokenPipe
<1>10. ASSUME Restore!Wait PROVE Restore!Given'
  BY <1>10 DEF Restore!Wait, Restore!Raise, Restore!Exact
<1>11. ASSUME Restore!Close PROVE Restore!Given'
  BY <1>11 DEF Restore!Close, Restore!Terminate, Restore!Kill, Restore!Killed
<1>12. ASSUME Restore!Poll PROVE Restore!Given'
  BY <1>12 DEF Restore!Poll, Restore!Raise, Restore!Kill, Restore!Killed
<1>13. ASSUME Restore!Validate PROVE Restore!Given'
  BY <1>13 DEF Restore!Validate, Restore!Contract
<1>14. ASSUME Restore!Replace PROVE Restore!Given'
  BY <1>14 DEF Restore!Replace
<1>15. ASSUME Restore!Unlink PROVE Restore!Given'
  BY <1>15 DEF Restore!Unlink
<1>16. ASSUME Restore!Finish PROVE Restore!Given'
  BY <1>16 DEF Restore!Finish
<1>17. ASSUME Restore!EncoderEnds PROVE Restore!Given'
  BY <1>17 DEF Restore!EncoderEnds
<1>18. ASSUME Restore!DecoderEnds PROVE Restore!Given'
  BY <1>18 DEF Restore!DecoderEnds
<1>19. ASSUME Restore!WatcherKills PROVE Restore!Given'
  BY <1>19 DEF Restore!WatcherKills, Restore!Kill, Restore!Killed
<1>20. QED BY <1>1, <1>2, <1>3, <1>4, <1>5, <1>6, <1>7, <1>8, <1>9, <1>10, <1>11, <1>12, <1>13,
    <1>14, <1>15, <1>16, <1>17, <1>18, <1>19 DEF Restore!Next, Restore!Running, Restore!Work

(* The invariant of a restoration is inductive.                              *)
LEMMA RestoreStep == Restore!Inv /\ [Restore!Next]_(Restore!vars) => Restore!Inv'
<1> SUFFICES ASSUME Restore!Inv, [Restore!Next]_(Restore!vars) PROVE Restore!Inv'
  OBVIOUS
<1>1. CASE UNCHANGED Restore!vars
  BY <1>1 DEF Restore!vars, Restore!Inv, Restore!Shape, Restore!TypeOK, Restore!Rolling,
      Restore!FramesInOrder,
              Restore!Alone, Restore!NothingLeft, Restore!Given, Restore!Temporal
<1>2. CASE Restore!Next
  BY <1>2, RestoreShape, RestoreRolling, RestoreAlone, RestoreGiven DEF Restore!Inv
<1>3. QED BY <1>1, <1>2

(* A restoration leaves nothing behind and holds no more frames than are counted. *)
LEMMA RestoreKeeps == Restore!Inv => Restore!TypeOK /\ Restore!FramesInOrder /\ Restore!NothingLeft /\ Restore!WindowBounded
<1> SUFFICES ASSUME Restore!Inv
             PROVE  Restore!TypeOK /\ Restore!FramesInOrder /\ Restore!NothingLeft /\ Restore!WindowBounded
  OBVIOUS
<1>1. v10 - v11 <= 2 * Radius + 1
  <2>1. /\ v10 \in Int /\ v12 \in Nat /\ Radius \in Nat \ {0} /\ v10 <= v12 + Radius + 1
        /\ v11 = Restore!Most(0, v12 - Radius)
    BY RestoreAssumption DEF Restore!Inv, Restore!Shape, Restore!TypeOK, Restore!Rolling
  <2>2. QED BY <2>1 DEF Restore!Most
<1>2. QED BY <1>1 DEF Restore!Inv, Restore!Shape, Restore!Alone, Restore!WindowBounded

(* Only a validated file is put in place.                                    *)
LEMMA RestorePublishes == ASSUME Restore!Inv, Restore!Next PROVE Restore!PublishesWhole
<1> USE DEF Restore!PublishesWhole, Restore!Inv, Restore!Given, Restore!stream, Restore!user,
    Restore!Temporal
<1>1. ASSUME NEW j \in Restore!Possible, Restore!StartExport(j) PROVE Restore!PublishesWhole
  BY <1>1 DEF Restore!StartExport
<1>2. ASSUME Restore!CancelExport PROVE Restore!PublishesWhole
  BY <1>2 DEF Restore!CancelExport
<1>3. ASSUME Restore!Quit PROVE Restore!PublishesWhole
  BY <1>3 DEF Restore!Quit
<1>4. ASSUME Restore!Probe PROVE Restore!PublishesWhole
  BY <1>4 DEF Restore!Probe
<1>5. ASSUME Restore!Popen PROVE Restore!PublishesWhole
  BY <1>5 DEF Restore!Popen, Restore!Raise, Restore!BrokenPipe
<1>6. ASSUME Restore!Look PROVE Restore!PublishesWhole
  BY <1>6 DEF Restore!Look, Restore!Raise
<1>7. ASSUME Restore!Read PROVE Restore!PublishesWhole
  BY <1>7 DEF Restore!Read, Restore!Raise
<1>8. ASSUME Restore!Write PROVE Restore!PublishesWhole
  BY <1>8 DEF Restore!Write, Restore!Raise, Restore!BrokenPipe, Restore!Ready, Restore!Kept
<1>9. ASSUME Restore!CloseInput PROVE Restore!PublishesWhole
  BY <1>9 DEF Restore!CloseInput, Restore!Raise, Restore!BrokenPipe
<1>10. ASSUME Restore!Wait PROVE Restore!PublishesWhole
  BY <1>10 DEF Restore!Wait, Restore!Raise, Restore!Exact
<1>11. ASSUME Restore!Close PROVE Restore!PublishesWhole
  BY <1>11 DEF Restore!Close, Restore!Terminate, Restore!Kill, Restore!Killed
<1>12. ASSUME Restore!Poll PROVE Restore!PublishesWhole
  BY <1>12 DEF Restore!Poll, Restore!Raise, Restore!Kill, Restore!Killed
<1>13. ASSUME Restore!Validate PROVE Restore!PublishesWhole
  BY <1>13 DEF Restore!Validate, Restore!Contract
<1>14. ASSUME Restore!Replace PROVE Restore!PublishesWhole
  BY <1>14 DEF Restore!Replace
<1>15. ASSUME Restore!Unlink PROVE Restore!PublishesWhole
  BY <1>15 DEF Restore!Unlink
<1>16. ASSUME Restore!Finish PROVE Restore!PublishesWhole
  BY <1>16 DEF Restore!Finish
<1>17. ASSUME Restore!EncoderEnds PROVE Restore!PublishesWhole
  BY <1>17 DEF Restore!EncoderEnds
<1>18. ASSUME Restore!DecoderEnds PROVE Restore!PublishesWhole
  BY <1>18 DEF Restore!DecoderEnds
<1>19. ASSUME Restore!WatcherKills PROVE Restore!PublishesWhole
  BY <1>19 DEF Restore!WatcherKills, Restore!Kill, Restore!Killed
<1>20. QED BY <1>1, <1>2, <1>3, <1>4, <1>5, <1>6, <1>7, <1>8, <1>9, <1>10, <1>11, <1>12, <1>13,
    <1>14, <1>15, <1>16, <1>17, <1>18, <1>19 DEF Restore!Next, Restore!Running, Restore!Work

(***************************************************************************)
(* The termination of a command and its tree.                              *)
(***************************************************************************)
TreeLevels(K, f) ==
  f = [n \in 0 .. Cardinality(Pids) |->
         IF n = 0 THEN K ELSE f[n - 1] \cup {p \in v3 : v2[p] \in f[n - 1]}]

(* The termination counts as FiniteSets does.                                *)
LEMMA TreeCardinality == \A S : Tree!Cardinality(S) = Cardinality(S)
BY DEF Tree!Cardinality, Cardinality

(* The levels of the family exist. *)
LEMMA TreeLevelsExist ==
    ASSUME NEW K
    PROVE  \E f : TreeLevels(K, f)
<1> DEFINE step(X) == X \cup {p \in v3 : v2[p] \in X}
           good == {k \in Nat : \E f : f = [n \in 0 .. k |-> IF n = 0 THEN K ELSE step(f[n - 1])]}
<1>1. 0 \in good
  <2> DEFINE g == [n \in 0 .. 0 |-> K]
  <2>1. g = [n \in 0 .. 0 |-> IF n = 0 THEN K ELSE step(g[n - 1])]
    OBVIOUS
  <2>2. QED BY <2>1
<1>2. ASSUME NEW k \in Nat, k \in good PROVE k + 1 \in good
  <2> HIDE DEF step
  <2>1. PICK g : g = [n \in 0 .. k |-> IF n = 0 THEN K ELSE step(g[n - 1])]
    BY <1>2
  <2> DEFINE h == [n \in 0 .. k + 1 |-> IF n = k + 1 THEN step(g[k]) ELSE g[n]]
  <2>2. ASSUME NEW n \in 0 .. k + 1 PROVE h[n] = IF n = 0 THEN K ELSE step(h[n - 1])
    BY <2>1
  <2>3. h = [n \in 0 .. k + 1 |-> IF n = 0 THEN K ELSE step(h[n - 1])]
    <3>1. h = [n \in 0 .. k + 1 |-> h[n]] OBVIOUS
    <3> HIDE DEF h
    <3>2. QED BY <2>2, <3>1
  <2> HIDE DEF h
  <2>4. \E g1 : g1 = [n \in 0 .. k + 1 |-> IF n = 0 THEN K ELSE step(g1[n - 1])]
    BY <2>3
  <2>5. QED BY <2>4
<1>3. Nat \subseteq good
  <2> HIDE DEF good
  <2>1. QED BY <1>1, <1>2, NaturalInduction
<1>4. Cardinality(Pids) \in Nat
  BY TreeAssumption, FS_CardinalityType
<1>5. QED BY <1>3, <1>4 DEF TreeLevels

(* Every level has one process more, or the family is complete. *)
LEMMA TreeLevelsGrow ==
    ASSUME v3 \subseteq Pids, NEW K \in SUBSET Pids, NEW f, TreeLevels(K, f)
    PROVE  LET N == Cardinality(Pids) IN
           /\ K \subseteq f[N] /\ f[N] \subseteq Pids
           /\ \A p \in v3 : v2[p] \in f[N] => p \in f[N]
<1> DEFINE N == Cardinality(Pids)
           Closed(X) == \A p \in v3 : v2[p] \in X => p \in X
           good == {n \in Nat : n <= N => /\ K \subseteq f[n] /\ f[n] \subseteq Pids
                                          /\ Closed(f[n]) \/ Cardinality(f[n]) >= n}
<1>1. N \in Nat /\ IsFiniteSet(Pids)
  BY TreeAssumption, FS_CardinalityType
<1>2. /\ f[0] = K
      /\ \A n \in 1 .. N : f[n] = f[n - 1] \cup {p \in v3 : v2[p] \in f[n - 1]}
  BY <1>1 DEF TreeLevels
<1>3. \A S \in SUBSET Pids : /\ IsFiniteSet(S) /\ Cardinality(S) \in Nat /\ Cardinality(S) <= N
                             /\ Cardinality(S) = N => S = Pids
  BY <1>1, FS_Subset, FS_CardinalityType
<1> HIDE DEF N
<1>4. 0 \in good
  BY <1>2, <1>3
<1>5. ASSUME NEW n \in Nat, n \in good PROVE n + 1 \in good
  <2> SUFFICES ASSUME n + 1 <= N
               PROVE  /\ K \subseteq f[n + 1] /\ f[n + 1] \subseteq Pids
                      /\ Closed(f[n + 1]) \/ Cardinality(f[n + 1]) >= n + 1
    OBVIOUS
  <2>1. /\ K \subseteq f[n] /\ f[n] \subseteq Pids /\ (Closed(f[n]) \/ Cardinality(f[n]) >= n)
        /\ f[n + 1] = f[n] \cup {p \in v3 : v2[p] \in f[n]}
    BY <1>1, <1>2, <1>5
  <2>2. f[n] \subseteq f[n + 1] /\ f[n + 1] \subseteq Pids
    BY <2>1
  <2>3. CASE Closed(f[n])
    <3>1. f[n + 1] = f[n] BY <2>1, <2>3
    <3>2. QED BY <2>1, <2>3, <3>1
  <2>4. CASE ~Closed(f[n])
    <3>1. PICK p \in v3 : v2[p] \in f[n] /\ p \notin f[n]
      BY <2>4
    <3>2. p \in f[n + 1] BY <2>1, <3>1
    <3>3. f[n] # f[n + 1] BY <3>1, <3>2
    <3>4. Cardinality(f[n]) <= Cardinality(f[n + 1]) /\ Cardinality(f[n]) # Cardinality(f[n + 1])
      BY <1>3, <2>2, <3>3, FS_Subset
    <3>5. QED BY <1>3, <2>1, <2>2, <2>4, <3>4
  <2>5. QED BY <2>3, <2>4
<1>6. N \in good
  <2> HIDE DEF good
  <2>1. QED BY <1>1, <1>4, <1>5, NaturalInduction
<1>7. CASE Closed(f[N]) BY <1>1, <1>6, <1>7 DEF N
<1>8. CASE Cardinality(f[N]) >= N
  <2>1. K \subseteq f[N] /\ f[N] \subseteq Pids BY <1>1, <1>6
  <2>2. f[N] = Pids BY <1>1, <1>3, <1>8, <2>1
  <2>3. QED BY <2>1, <2>2 DEF N
<1>9. QED BY <1>1, <1>6, <1>7, <1>8

(* The family of some processes holds them and whatever they, or one of it, started. *)
LEMMA TreeExpand ==
    ASSUME v3 \subseteq Pids, NEW K \in SUBSET Pids
    PROVE  /\ K \subseteq Tree!Expand(K) /\ Tree!Expand(K) \subseteq Pids
           /\ \A p \in v3 : v2[p] \in Tree!Expand(K) => p \in Tree!Expand(K)
<1> DEFINE f == CHOOSE g : TreeLevels(K, g)
<1>1. TreeLevels(K, f)
  BY TreeLevelsExist
<1>2. Tree!Expand(K) = f[Cardinality(Pids)]
  BY TreeCardinality DEF Tree!Expand, TreeLevels
<1> HIDE DEF f
<1>3. QED BY <1>1, <1>2, TreeLevelsGrow

(* The invariant of a termination holds initially.                           *)
LEMMA TreeInit == Tree!Init => Tree!Inv
<1>m. MaxScans \in Nat BY BoundsAreNatural
<1> USE TreeAssumption, <1>m DEF Tree!Init, Tree!Root
<1>1. Tree!Init => Tree!TypeOK BY DEF Tree!TypeOK
<1>2. Tree!Init => Tree!Started /\ Tree!NoneOutlives /\ Tree!CommandGone
  BY DEF Tree!Started, Tree!NoneOutlives, Tree!CommandGone
<1>3. QED BY <1>1, <1>2 DEF Tree!Inv

(* Every step of the termination, and of the tree beside it, keeps the invariant.*)
LEMMA TreeKeeps ==
    ASSUME Tree!Inv, Tree!Next
    PROVE  Tree!Inv'
<1>a. MaxScans \in Nat BY BoundsAreNatural
<1>b. \A K \in SUBSET Pids : /\ K \subseteq Tree!Expand(K) /\ Tree!Expand(K) \subseteq Pids
                             /\ \A p \in v3 : v2[p] \in Tree!Expand(K) => p \in Tree!Expand(K)
  BY TreeExpand DEF Tree!Inv, Tree!TypeOK
<1>c. {1} \in SUBSET Pids /\ 1 # 0 BY TreeAssumption
<1> USE <1>a, <1>b, <1>c DEF Tree!Inv, Tree!TypeOK, Tree!Started, Tree!NoneOutlives, Tree!CommandGone,
        Tree!Root, Tree!system
<1>1. ASSUME Tree!Cancel PROVE Tree!Inv'
  BY <1>1 DEF Tree!Cancel
<1>2. ASSUME Tree!KillRoot PROVE Tree!Inv'
  BY <1>2 DEF Tree!KillRoot, Tree!TaskKill, Tree!Killed
<1>3. ASSUME Tree!Scan PROVE Tree!Inv'
  BY <1>3 DEF Tree!Scan
<1>4. ASSUME Tree!KillOne PROVE Tree!Inv'
  BY <1>4 DEF Tree!KillOne, Tree!TaskKill, Tree!Killed
<1>5. ASSUME Tree!KillCommand PROVE Tree!Inv'
  BY <1>5 DEF Tree!KillCommand, Tree!KillRootOnly
<1>6. ASSUME Tree!Deadline PROVE Tree!Inv'
  BY <1>6 DEF Tree!Deadline, Tree!KillRootOnly
<1>7. ASSUME Tree!Final PROVE Tree!Inv'
  BY <1>7 DEF Tree!Final
<1>8. ASSUME Tree!Terminate PROVE Tree!Inv'
  BY <1>8 DEF Tree!Terminate
<1>9. ASSUME Tree!Escalate PROVE Tree!Inv'
  BY <1>9 DEF Tree!Escalate
<1>10. ASSUME NEW p \in Pids, Tree!Exit(p) PROVE Tree!Inv'
  BY <1>10 DEF Tree!Exit
<1>11. ASSUME NEW p \in Pids, NEW child \in Pids, Tree!Spawn(p, child) PROVE Tree!Inv'
  BY <1>11 DEF Tree!Spawn
<1>12. ASSUME Tree!Fallback PROVE Tree!Inv'
  BY <1>12 DEF Tree!Fallback
<1>13. ASSUME Tree!KillDirectly PROVE Tree!Inv'
  BY <1>13 DEF Tree!KillDirectly, Tree!KillRootOnly
<1>14. QED BY <1>1, <1>2, <1>3, <1>4, <1>5, <1>6, <1>7, <1>8, <1>9, <1>10, <1>11, <1>12, <1>13
  DEF Tree!Next, Tree!Work

(* The invariant of a termination is inductive.                              *)
LEMMA TreeStep == Tree!Inv /\ [Tree!Next]_(Tree!vars) => Tree!Inv'
<1> SUFFICES ASSUME Tree!Inv, [Tree!Next]_(Tree!vars) PROVE Tree!Inv'
  OBVIOUS
<1>1. CASE UNCHANGED Tree!vars
  BY <1>1 DEF Tree!vars, Tree!Inv, Tree!TypeOK, Tree!Started, Tree!NoneOutlives, Tree!CommandGone
<1>2. CASE Tree!Next
  BY <1>2, TreeKeeps
<1>3. QED BY <1>1, <1>2

(***************************************************************************)
(* Updates.  A roll-back that fails itself is beyond what they promise.     *)
(***************************************************************************)
(* The invariant of the updates holds initially.                             *)
LEMMA UpdateInit == Update!Init => Update!Inv
<1> SUFFICES ASSUME Update!Init PROVE Update!Inv
  OBVIOUS
<1>m. MaxStages \in Nat /\ MaxCrashes \in Nat BY BoundsAreNatural
<1> USE <1>m DEF Update!Init, Update!All
<1>1. Update!TypeOK
  <2>1. v12 \in Update!Payloads /\ v13 \in Update!Payloads BY DEF Update!Payloads
  <2>2. {v2, v3, v4, v5, v9, v10, v14, v17} \subseteq BOOLEAN OBVIOUS
  <2>3. QED BY <2>1, <2>2 DEF Update!TypeOK
<1>2. Update!Sane BY DEF Update!Sane, Update!Whole
<1>3. QED BY <1>1, <1>2 DEF Update!Inv

(* Every action of the program, of its threads and of the updater keeps the  *)
(* shape of the state.                                                       *)
LEMMA UpdateTypes == Update!TypeOK /\ Update!Next => Update!TypeOK'
<1> SUFFICES ASSUME Update!TypeOK, Update!Next PROVE Update!TypeOK'
  OBVIOUS
<1>1. ({v2, v3, v4, v5, v9, v10, v14, v17} \subseteq BOOLEAN)'
  <2> USE DEF Update!TypeOK, Update!studio, Update!thread, Update!install, Update!history,
      Update!Running,
      Update!Post, Update!Launchable, Update!Step, Update!Rest
<2>1. CASE Update!Work BY <2>1 DEF Update!Work
<2>2. CASE Update!Check BY <2>2 DEF Update!Check
<2>3. CASE Update!CheckAnswers BY <2>3 DEF Update!CheckAnswers
<2>4. CASE Update!HandleCheck BY <2>4 DEF Update!HandleCheck
<2>5. CASE Update!Click BY <2>5 DEF Update!Click
<2>6. CASE Update!Clean BY <2>6 DEF Update!Clean
<2>7. CASE Update!Download BY <2>7 DEF Update!Download
<2>8. CASE Update!DownloadFails BY <2>8 DEF Update!DownloadFails
<2>9. CASE Update!Describe BY <2>9 DEF Update!Describe
<2>10. CASE Update!StageFailed BY <2>10 DEF Update!StageFailed
<2>11. CASE Update!Defer BY <2>11 DEF Update!Defer
<2>12. CASE Update!Handoff BY <2>12 DEF Update!Handoff
<2>13. CASE Update!LaunchFails BY <2>13 DEF Update!LaunchFails
<2>14. CASE Update!Exit BY <2>14 DEF Update!Exit
<2>15. CASE Update!Start BY <2>15 DEF Update!Start
<2>16. CASE Update!StartAgain BY <2>16 DEF Update!StartAgain
<2>17. CASE Update!Validate BY <2>17 DEF Update!Validate
<2>18. CASE Update!RefuseSource BY <2>18 DEF Update!RefuseSource
<2>19. CASE Update!BackUp BY <2>19 DEF Update!BackUp
<2>20. CASE Update!Remove BY <2>20 DEF Update!Remove
<2>21. CASE Update!Copy BY <2>21 DEF Update!Copy
<2>22. CASE Update!Verify BY <2>22 DEF Update!Verify
<2>23. CASE Update!Discard BY <2>23 DEF Update!Discard
<2>24. CASE Update!ApplyFails BY <2>24 DEF Update!ApplyFails
<2>25. CASE Update!BackUpFails BY <2>25 DEF Update!BackUpFails
<2>26. CASE Update!RollBack BY <2>26 DEF Update!RollBack
<2>27. CASE Update!CrashApplier BY <2>27 DEF Update!CrashApplier
<2>28. QED BY <2>1, <2>2, <2>3, <2>4, <2>5, <2>6, <2>7, <2>8, <2>9, <2>10, <2>11, <2>12, <2>13,
    <2>14, <2>15, <2>16, <2>17, <2>18, <2>19, <2>20, <2>21, <2>22, <2>23, <2>24, <2>25, <2>26,
    <2>27 DEF Update!Next
<1>2. (v12 \in Update!Payloads /\ v13 \in Update!Payloads)'
  <2> USE DEF Update!TypeOK, Update!studio, Update!thread, Update!install, Update!history, Update!Step,
      Update!Rest, Update!Payloads, Update!All
<2>1. CASE Update!Work BY <2>1 DEF Update!Work
<2>2. CASE Update!Check BY <2>2 DEF Update!Check
<2>3. CASE Update!CheckAnswers BY <2>3 DEF Update!CheckAnswers
<2>4. CASE Update!HandleCheck BY <2>4 DEF Update!HandleCheck
<2>5. CASE Update!Click BY <2>5 DEF Update!Click
<2>6. CASE Update!Clean BY <2>6 DEF Update!Clean
<2>7. CASE Update!Download BY <2>7 DEF Update!Download
<2>8. CASE Update!DownloadFails BY <2>8 DEF Update!DownloadFails
<2>9. CASE Update!Describe BY <2>9 DEF Update!Describe
<2>10. CASE Update!StageFailed BY <2>10 DEF Update!StageFailed
<2>11. CASE Update!Defer BY <2>11 DEF Update!Defer
<2>12. CASE Update!Handoff BY <2>12 DEF Update!Handoff
<2>13. CASE Update!LaunchFails BY <2>13 DEF Update!LaunchFails
<2>14. CASE Update!Exit BY <2>14 DEF Update!Exit
<2>15. CASE Update!Start BY <2>15 DEF Update!Start
<2>16. CASE Update!StartAgain BY <2>16 DEF Update!StartAgain
<2>17. CASE Update!Validate BY <2>17 DEF Update!Validate
<2>18. CASE Update!RefuseSource BY <2>18 DEF Update!RefuseSource
<2>19. CASE Update!BackUp BY <2>19 DEF Update!BackUp
<2>20. CASE Update!Remove BY <2>20 DEF Update!Remove
<2>21. CASE Update!Copy BY <2>21 DEF Update!Copy
<2>22. CASE Update!Verify BY <2>22 DEF Update!Verify
<2>23. CASE Update!Discard BY <2>23 DEF Update!Discard
<2>24. CASE Update!ApplyFails BY <2>24 DEF Update!ApplyFails
<2>25. CASE Update!BackUpFails BY <2>25 DEF Update!BackUpFails
<2>26. CASE Update!RollBack BY <2>26 DEF Update!RollBack
<2>27. CASE Update!CrashApplier BY <2>27 DEF Update!CrashApplier
<2>28. QED BY <2>1, <2>2, <2>3, <2>4, <2>5, <2>6, <2>7, <2>8, <2>9, <2>10, <2>11, <2>12, <2>13,
    <2>14, <2>15, <2>16, <2>17, <2>18, <2>19, <2>20, <2>21, <2>22, <2>23, <2>24, <2>25, <2>26,
    <2>27 DEF Update!Next
<1>m. MaxStages \in Nat /\ MaxCrashes \in Nat BY BoundsAreNatural
<1> USE <1>m
    DEF Update!TypeOK, Update!studio, Update!thread, Update!install, Update!history, Update!Running,
        Update!Post, Update!Launchable, Update!Step, Update!Rest
<1>3. CASE Update!Work BY <1>1, <1>2, <1>3 DEF Update!Work
<1>4. CASE Update!Check BY <1>1, <1>2, <1>4 DEF Update!Check
<1>5. CASE Update!CheckAnswers BY <1>1, <1>2, <1>5 DEF Update!CheckAnswers
<1>6. CASE Update!HandleCheck BY <1>1, <1>2, <1>6 DEF Update!HandleCheck
<1>7. CASE Update!Click BY <1>1, <1>2, <1>7 DEF Update!Click
<1>8. CASE Update!Clean BY <1>1, <1>2, <1>8 DEF Update!Clean
<1>9. CASE Update!Download BY <1>1, <1>2, <1>9 DEF Update!Download
<1>10. CASE Update!DownloadFails BY <1>1, <1>2, <1>10 DEF Update!DownloadFails
<1>11. CASE Update!Describe BY <1>1, <1>2, <1>11 DEF Update!Describe
<1>12. CASE Update!StageFailed BY <1>1, <1>2, <1>12 DEF Update!StageFailed
<1>13. CASE Update!Defer BY <1>1, <1>2, <1>13 DEF Update!Defer
<1>14. CASE Update!Handoff BY <1>1, <1>2, <1>14 DEF Update!Handoff
<1>15. CASE Update!LaunchFails BY <1>1, <1>2, <1>15 DEF Update!LaunchFails
<1>16. CASE Update!Exit BY <1>1, <1>2, <1>16 DEF Update!Exit
<1>17. CASE Update!Start BY <1>1, <1>2, <1>17 DEF Update!Start
<1>18. CASE Update!StartAgain BY <1>1, <1>2, <1>18 DEF Update!StartAgain
<1>19. CASE Update!Validate BY <1>1, <1>2, <1>19 DEF Update!Validate
<1>20. CASE Update!RefuseSource BY <1>1, <1>2, <1>20 DEF Update!RefuseSource
<1>21. CASE Update!BackUp BY <1>1, <1>2, <1>21 DEF Update!BackUp
<1>22. CASE Update!Remove BY <1>1, <1>2, <1>22 DEF Update!Remove
<1>23. CASE Update!Copy BY <1>1, <1>2, <1>23 DEF Update!Copy
<1>24. CASE Update!Verify BY <1>1, <1>2, <1>24 DEF Update!Verify
<1>25. CASE Update!Discard BY <1>1, <1>2, <1>25 DEF Update!Discard
<1>26. CASE Update!ApplyFails BY <1>1, <1>2, <1>26 DEF Update!ApplyFails
<1>27. CASE Update!BackUpFails BY <1>1, <1>2, <1>27 DEF Update!BackUpFails
<1>28. CASE Update!RollBack BY <1>1, <1>2, <1>28 DEF Update!RollBack
<1>29. CASE Update!CrashApplier BY <1>1, <1>2, <1>29 DEF Update!CrashApplier
<1>30. QED BY <1>3, <1>4, <1>5, <1>6, <1>7, <1>8, <1>9, <1>10, <1>11, <1>12, <1>13, <1>14, <1>15, <1>16,
    <1>17, <1>18, <1>19, <1>20, <1>21, <1>22, <1>23, <1>24, <1>25, <1>26, <1>27, <1>28, <1>29 DEF
    Update!Next

(* As long as a roll-back does not fail, the tree is a whole version before  *)
(* it is touched, and the backup one until it is discarded.                  *)
LEMMA UpdateSane ==
    ASSUME "rollback" \notin UpdateFaults, Update!Inv, Update!Next
    PROVE  Update!Sane'
<1> USE DEF Update!Inv, Update!Sane, Update!studio, Update!thread, Update!install, Update!history,
            Update!Running, Update!Launchable, Update!Step, Update!Rest, Update!Whole
<1>1. CASE Update!Work BY <1>1 DEF Update!Work
<1>2. CASE Update!Check BY <1>2 DEF Update!Check
<1>3. CASE Update!CheckAnswers BY <1>3 DEF Update!CheckAnswers
<1>4. CASE Update!HandleCheck BY <1>4 DEF Update!HandleCheck
<1>5. CASE Update!Click BY <1>5 DEF Update!Click
<1>6. CASE Update!Clean BY <1>6 DEF Update!Clean
<1>7. CASE Update!Download BY <1>7 DEF Update!Download
<1>8. CASE Update!DownloadFails BY <1>8 DEF Update!DownloadFails
<1>9. CASE Update!Describe BY <1>9 DEF Update!Describe
<1>10. CASE Update!StageFailed BY <1>10 DEF Update!StageFailed
<1>11. CASE Update!Defer BY <1>11 DEF Update!Defer
<1>12. CASE Update!Handoff BY <1>12 DEF Update!Handoff
<1>13. CASE Update!LaunchFails BY <1>13 DEF Update!LaunchFails
<1>14. CASE Update!Exit BY <1>14 DEF Update!Exit
<1>15. CASE Update!Start BY <1>15 DEF Update!Start
<1>16. CASE Update!StartAgain BY <1>16 DEF Update!StartAgain
<1>17. CASE Update!Validate BY <1>17 DEF Update!Validate
<1>18. CASE Update!RefuseSource BY <1>18 DEF Update!RefuseSource
<1>19. CASE Update!BackUp BY <1>19 DEF Update!BackUp
<1>20. CASE Update!Remove BY <1>20 DEF Update!Remove
<1>21. CASE Update!Copy BY <1>21 DEF Update!Copy
<1>22. CASE Update!Verify BY <1>22 DEF Update!Verify
<1>23. CASE Update!Discard BY <1>23 DEF Update!Discard
<1>24. CASE Update!ApplyFails BY <1>24 DEF Update!ApplyFails
<1>25. CASE Update!BackUpFails BY <1>25 DEF Update!BackUpFails
<1>26. CASE Update!RollBack BY <1>26 DEF Update!RollBack
<1>27. CASE Update!CrashApplier BY <1>27 DEF Update!CrashApplier
<1>28. QED BY <1>1, <1>2, <1>3, <1>4, <1>5, <1>6, <1>7, <1>8, <1>9, <1>10, <1>11, <1>12, <1>13,
    <1>14, <1>15, <1>16, <1>17, <1>18, <1>19, <1>20, <1>21, <1>22, <1>23, <1>24, <1>25, <1>26,
    <1>27 DEF Update!Next

(* The invariant of the updates is inductive.                                *)
LEMMA UpdateStep ==
    ASSUME "rollback" \notin UpdateFaults
    PROVE  Update!Inv /\ [Update!Next]_(Update!vars) => Update!Inv'
<1> SUFFICES ASSUME Update!Inv, [Update!Next]_(Update!vars) PROVE Update!Inv'
  OBVIOUS
<1>1. CASE UNCHANGED Update!vars
  BY <1>1 DEF Update!vars, Update!Inv, Update!TypeOK, Update!Sane, Update!Whole
<1>2. CASE Update!Next
  BY <1>2, UpdateTypes, UpdateSane DEF Update!Inv
<1>3. QED BY <1>1, <1>2

(* The invariant contains that one whole version is kept.                    *)
LEMMA UpdateKeeps == Update!Inv => Update!OneVersionKept
  BY DEF Update!Inv, Update!TypeOK, Update!Sane, Update!OneVersionKept

(* The program only ever starts on the files of one version.                 *)
LEMMA UpdateStarts ==
    ASSUME Update!Inv, Update!Next
    PROVE  Update!StartsWhole
<1> USE DEF Update!Inv, Update!Sane, Update!studio, Update!thread, Update!install, Update!history,
            Update!Running, Update!Launchable, Update!Step, Update!Rest, Update!Whole, Update!StartsWhole
<1>1. CASE Update!Work BY <1>1 DEF Update!Work
<1>2. CASE Update!Check BY <1>2 DEF Update!Check
<1>3. CASE Update!CheckAnswers BY <1>3 DEF Update!CheckAnswers
<1>4. CASE Update!HandleCheck BY <1>4 DEF Update!HandleCheck
<1>5. CASE Update!Click BY <1>5 DEF Update!Click
<1>6. CASE Update!Clean BY <1>6 DEF Update!Clean
<1>7. CASE Update!Download BY <1>7 DEF Update!Download
<1>8. CASE Update!DownloadFails BY <1>8 DEF Update!DownloadFails
<1>9. CASE Update!Describe BY <1>9 DEF Update!Describe
<1>10. CASE Update!StageFailed BY <1>10 DEF Update!StageFailed
<1>11. CASE Update!Defer BY <1>11 DEF Update!Defer
<1>12. CASE Update!Handoff BY <1>12 DEF Update!Handoff
<1>13. CASE Update!LaunchFails BY <1>13 DEF Update!LaunchFails
<1>14. CASE Update!Exit BY <1>14 DEF Update!Exit
<1>15. CASE Update!Start BY <1>15 DEF Update!Start
<1>16. CASE Update!StartAgain BY <1>16 DEF Update!StartAgain
<1>17. CASE Update!Validate BY <1>17 DEF Update!Validate
<1>18. CASE Update!RefuseSource BY <1>18 DEF Update!RefuseSource
<1>19. CASE Update!BackUp BY <1>19 DEF Update!BackUp
<1>20. CASE Update!Remove BY <1>20 DEF Update!Remove
<1>21. CASE Update!Copy BY <1>21 DEF Update!Copy
<1>22. CASE Update!Verify BY <1>22 DEF Update!Verify
<1>23. CASE Update!Discard BY <1>23 DEF Update!Discard
<1>24. CASE Update!ApplyFails BY <1>24 DEF Update!ApplyFails
<1>25. CASE Update!BackUpFails BY <1>25 DEF Update!BackUpFails
<1>26. CASE Update!RollBack BY <1>26 DEF Update!RollBack
<1>27. CASE Update!CrashApplier BY <1>27 DEF Update!CrashApplier
<1>28. QED BY <1>1, <1>2, <1>3, <1>4, <1>5, <1>6, <1>7, <1>8, <1>9, <1>10, <1>11, <1>12, <1>13,
    <1>14, <1>15, <1>16, <1>17, <1>18, <1>19, <1>20, <1>21, <1>22, <1>23, <1>24, <1>25, <1>26,
    <1>27 DEF Update!Next

(***************************************************************************)
(* The window of the Overlay Composer.                                     *)
(***************************************************************************)
WindowDialogs == {<< >>, <<"save">>, <<"ask">>, <<"notice">>, <<"ask", "notice">>}
WindowEvents == [kind: {"exported", "export", "cancelled", "stage", "render"}, version: -1 .. MaxEdits]

(* Sequences: what appending and removing an element do. *)
LEMMA AppendFacts ==
    ASSUME NEW S, NEW s \in Seq(S), NEW a \in S
    PROVE  /\ Append(s, a) \in Seq(S) /\ Len(Append(s, a)) = Len(s) + 1
           /\ Append(s, a)[Len(s) + 1] = a
           /\ \A i \in 1 .. Len(s) : Append(s, a)[i] = s[i]
OBVIOUS

(* What Tail and Head are of a sequence that is not empty.                   *)
LEMMA TailFacts ==
    ASSUME NEW S, NEW s \in Seq(S), s # << >>
    PROVE  /\ Tail(s) \in Seq(S) /\ Len(Tail(s)) = Len(s) - 1 /\ Len(s) >= 1
           /\ Head(s) \in S /\ Head(s) = s[1]
           /\ \A i \in 1 .. Len(s) - 1 : Tail(s)[i] = s[i + 1]
OBVIOUS

(* The dialogs that can be open, and what opening and closing one makes of them. *)
LEMMA WindowModal ==
  /\ WindowDialogs \subseteq UNION {[1 .. n -> {"ask", "notice", "save"}] : n \in 0 .. 2}
  /\ Append(<< >>, "save") = <<"save">> /\ Append(<< >>, "ask") = <<"ask">>
  /\ Append(<< >>, "notice") = <<"notice">> /\ Append(<<"ask">>, "notice") = <<"ask", "notice">>
  /\ SubSeq(<<"save">>, 1, Len(<<"save">>) - 1) = << >>
  /\ SubSeq(<<"ask">>, 1, Len(<<"ask">>) - 1) = << >>
  /\ SubSeq(<<"notice">>, 1, Len(<<"notice">>) - 1) = << >>
  /\ SubSeq(<<"ask", "notice">>, 1, Len(<<"ask", "notice">>) - 1) = <<"ask">>
<1>1. << >> \in [1 .. 0 -> {"ask", "notice", "save"}]
  OBVIOUS
<1>2. \A a \in {"ask", "notice", "save"} : <<a>> \in [1 .. 1 -> {"ask", "notice", "save"}]
  OBVIOUS
<1>3. <<"ask", "notice">> \in [1 .. 2 -> {"ask", "notice", "save"}]
  OBVIOUS
<1>4. WindowDialogs \subseteq UNION {[1 .. n -> {"ask", "notice", "save"}] : n \in 0 .. 2}
  BY <1>1, <1>2, <1>3 DEF WindowDialogs
<1>5. /\ Append(<< >>, "save") = <<"save">> /\ Append(<< >>, "ask") = <<"ask">>
      /\ Append(<< >>, "notice") = <<"notice">> /\ Append(<<"ask">>, "notice") = <<"ask", "notice">>
  <2>1. \A a : Append(<< >>, a) = <<a>> OBVIOUS
  <2>2. ASSUME NEW D, NEW x \in Seq(D), NEW a \in D, Len(x) = 1
        PROVE  Append(x, a) \in Seq(D) /\ Len(Append(x, a)) = 2 /\ Append(x, a)[1] = x[1] /\ Append(x, a)[2] = a
    <3>1. \A i \in 1 .. Len(x) : Append(x, a)[i] = x[i] OBVIOUS
    <3>2. Append(x, a)[Len(x) + 1] = a OBVIOUS
    <3>3. 1 \in 1 .. Len(x) BY <2>2
    <3>4. Append(x, a) \in Seq(D) /\ Len(Append(x, a)) = 2 BY <2>2
    <3>5. Append(x, a)[1] = x[1] BY <3>1, <3>3
    <3>6. Append(x, a)[2] = a
      <4>1. Len(x) + 1 = 2 BY <2>2
      <4>2. QED BY <3>2, <4>1
    <3>7. QED BY <3>4, <3>5, <3>6
  <2>3. ASSUME NEW a, NEW b PROVE Append(<<a>>, b) = <<a, b>>
    <3>1. <<a>> \in Seq({a, b}) /\ b \in {a, b} /\ Len(<<a>>) = 1 /\ <<a>>[1] = a OBVIOUS
    <3>2. <<a, b>> \in Seq({a, b}) /\ Len(<<a, b>>) = 2 /\ <<a, b>>[1] = a /\ <<a, b>>[2] = b OBVIOUS
    <3>3. PICK s \in Seq({a, b}) : s = <<a>> BY <3>1
    <3>4. PICK t \in Seq({a, b}) : t = <<a, b>> BY <3>2
    <3>5. Append(s, b) \in Seq({a, b}) /\ Len(Append(s, b)) = 2 /\ Append(s, b)[1] = a /\ Append(s, b)[2] = b
      BY <2>2, <3>1, <3>3
    <3>6. Len(t) = 2 /\ t[1] = a /\ t[2] = b BY <3>2, <3>4
    <3>7. \A i \in 1 .. 2 : Append(s, b)[i] = t[i]
      <4>1. \A i \in 1 .. 2 : i = 1 \/ i = 2 OBVIOUS
      <4>2. QED BY <4>1, <3>5, <3>6
    <3>8. Append(s, b) = t BY <3>5, <3>6, <3>7
    <3>9. QED BY <3>3, <3>4, <3>8
  <2>4. QED BY <2>1, <2>3
<1>6. ASSUME NEW a PROVE SubSeq(<<a>>, 1, Len(<<a>>) - 1) = << >>
  <2> DEFINE s == <<a>>
  <2>1. s \in Seq({a}) /\ Len(s) = 1 OBVIOUS
  <2> HIDE DEF s
  <2>2. SubSeq(s, 1, 0) \in Seq({a}) /\ Len(SubSeq(s, 1, 0)) = 0 BY <2>1
  <2>3. SubSeq(s, 1, 0) = << >> BY <2>2
  <2>4. QED BY <2>1, <2>3 DEF s
<1>7. SubSeq(<<"ask", "notice">>, 1, Len(<<"ask", "notice">>) - 1) = <<"ask">>
  <2> DEFINE s == <<"ask", "notice">>
             t == <<"ask">>
  <2>1. s \in Seq({"ask", "notice"}) /\ Len(s) = 2 /\ s[1] = "ask" OBVIOUS
  <2>2. t \in Seq({"ask", "notice"}) /\ Len(t) = 1 /\ t[1] = "ask" OBVIOUS
  <2> HIDE DEF s, t
  <2>3. SubSeq(s, 1, 1) \in Seq({"ask", "notice"}) /\ Len(SubSeq(s, 1, 1)) = 1 /\ SubSeq(s, 1, 1)[1] = "ask"
    BY <2>1
  <2>4. \A i \in 1 .. 1 : SubSeq(s, 1, 1)[i] = t[i] BY <2>2, <2>3
  <2>5. SubSeq(s, 1, 1) = t BY <2>2, <2>3, <2>4
  <2>6. QED BY <2>1, <2>5 DEF s, t
<1>8. QED BY <1>4, <1>5, <1>6, <1>7

(* The dialog a user sees, and when none of them is a notice. *)
LEMMA WindowTops ==
    ASSUME NEW d \in WindowDialogs
    PROVE  /\ \A m : (d # << >> /\ d[Len(d)] = m) <=>
                 \/ d = <<"save">> /\ m = "save"
                 \/ d = <<"ask">> /\ m = "ask"
                 \/ d \in {<<"notice">>, <<"ask", "notice">>} /\ m = "notice"
           /\ (\A i \in 1 .. Len(d) : d[i] # "notice") => d \in {<< >>, <<"save">>, <<"ask">>}
           /\ d = << >> \/ d = <<"ask">> => ~(d # << >> /\ d[Len(d)] = "save") /\ ~(d # << >> /\ d[Len(d)] = "notice")
<1>0. d = << >> \/ d = <<"save">> \/ d = <<"ask">> \/ d = <<"notice">> \/ d = <<"ask", "notice">>
  BY DEF WindowDialogs
<1>1. CASE d = << >>
  <2>1. d # <<"save">> /\ d # <<"ask">> /\ d # <<"notice">> /\ d # <<"ask", "notice">> BY <1>1
  <2>2. QED BY <1>1, <2>1
<1>2. CASE d = <<"save">>
  <2>1. d # << >> /\ d # <<"ask">> /\ d # <<"notice">> /\ d # <<"ask", "notice">> BY <1>2
  <2>2. Len(d) = 1 /\ d[1] = "save" BY <1>2
  <2>3. QED BY <1>2, <2>1, <2>2
<1>3. CASE d = <<"ask">>
  <2>1. d # << >> /\ d # <<"save">> /\ d # <<"notice">> /\ d # <<"ask", "notice">> BY <1>3
  <2>2. Len(d) = 1 /\ d[1] = "ask" BY <1>3
  <2>3. QED BY <1>3, <2>1, <2>2
<1>4. CASE d = <<"notice">>
  <2>1. d # << >> /\ d # <<"save">> /\ d # <<"ask">> BY <1>4
  <2>2. Len(d) = 1 /\ d[1] = "notice" BY <1>4
  <2>3. QED BY <1>4, <2>1, <2>2
<1>5. CASE d = <<"ask", "notice">>
  <2>1. d # << >> /\ d # <<"save">> /\ d # <<"ask">> BY <1>5
  <2>2. Len(d) = 2 /\ d[2] = "notice" /\ 2 \in 1 .. 2 BY <1>5
  <2>3. QED BY <1>5, <2>1, <2>2
<1>6. QED BY <1>0, <1>1, <1>2, <1>3, <1>4, <1>5

(* The invariant of the window holds initially.                              *)
LEMMA WindowInit == Window!Init => Window!Inv
<1> SUFFICES ASSUME Window!Init PROVE Window!Inv
  OBVIOUS
<1>a. MaxEdits \in Nat BY BoundsAreNatural
<1> USE <1>a DEF Window!Init
<1>1. v13 \in WindowDialogs /\ v12 \in Seq(WindowEvents) /\ Len(v12) = 0
  BY DEF WindowDialogs
<1>2. Window!Shape
  BY <1>1, WindowModal DEF Window!Shape, Window!TypeOK, Window!ExportKinds, WindowDialogs
<1>3. Window!OneExport /\ Window!WaitsForExport
  <2>1. ~Window!Top("save") /\ ~Window!Top("notice") BY DEF Window!Top
  <2>2. 1 .. Len(v12) = {} BY <1>1
  <2>3. QED BY <2>1, <2>2 DEF Window!OneExport, Window!WaitsForExport
<1>4. QED BY <1>2, <1>3 DEF Window!Inv

(* Every action keeps the shape of the window, its threads and its dialogs.  *)
LEMMA WindowShape ==
    ASSUME Window!Inv, Window!Next
    PROVE  Window!Shape'
<1>a. MaxEdits \in Nat BY BoundsAreNatural
<1>b. v12 \in Seq(WindowEvents) /\ v13 \in WindowDialogs
  BY DEF Window!Inv, Window!Shape, Window!ExportKinds, WindowEvents, WindowDialogs
<1>c. /\ \A k \in {"exported", "export", "cancelled", "stage", "render"}, v \in -1 .. MaxEdits :
           Append(v12, [kind |-> k, version |-> v]) \in Seq(WindowEvents)
      /\ v12 # << >> => Tail(v12) \in Seq(WindowEvents) /\ Head(v12) \in WindowEvents
  <2>1. ASSUME NEW k \in {"exported", "export", "cancelled", "stage", "render"}, NEW v \in -1 .. MaxEdits
        PROVE  [kind |-> k, version |-> v] \in WindowEvents
    BY DEF WindowEvents
  <2>2. QED BY <1>b, <2>1, AppendFacts, TailFacts
<1>d. \A v \in -1 .. MaxEdits : v \in Int /\ -1 \in -1 .. MaxEdits
  BY <1>a
<1>e. Window!Shape' <=> Window!TypeOK' /\ v12' \in Seq(WindowEvents) /\ v13' \in WindowDialogs
  BY DEF Window!Shape, WindowEvents, WindowDialogs, Window!ExportKinds
<1>f. v13' \in WindowDialogs => v13' \in UNION {[1 .. n -> {"ask", "notice", "save"}] : n \in 0 .. 2}
  BY WindowModal
<1>g. v12 # << >> /\ Head(v12).kind \in Window!ExportKinds => v7 /\ ~v10
  <2>1. v12 # << >> => 1 \in 1 .. Len(v12) /\ Head(v12) = v12[1]
    <3>1. v12 # << >> => Len(v12) >= 1 /\ Head(v12) = v12[1] BY <1>b, TailFacts
    <3>2. Len(v12) \in Nat BY <1>b
    <3>3. QED BY <3>1, <3>2
  <2>2. QED BY <2>1 DEF Window!Inv, Window!OneExport
<1>1. v13' \in WindowDialogs
  <2> USE <1>b, WindowModal DEF WindowDialogs, Window!preview, Window!export, Window!closing,
      Window!Push,
          Window!Pop, Window!Top, Window!Idle, Window!Inv, Window!OneExport, Window!Head1
  <2>1. ASSUME Window!FirstRender PROVE v13' \in WindowDialogs
    BY <2>1 DEF Window!FirstRender
  <2>2. ASSUME Window!Edit PROVE v13' \in WindowDialogs
    BY <2>2 DEF Window!Edit, Window!RequestRender
  <2>3. ASSUME Window!DrawnOrFailed PROVE v13' \in WindowDialogs
    BY <2>3 DEF Window!DrawnOrFailed
  <2>4. ASSUME Window!AskOutput PROVE v13' \in WindowDialogs
    BY <2>4 DEF Window!AskOutput
  <2>5. ASSUME Window!StartExport PROVE v13' \in WindowDialogs
    BY <2>5 DEF Window!StartExport
  <2>6. ASSUME Window!RequestCancel PROVE v13' \in WindowDialogs
    BY <2>6 DEF Window!RequestCancel
  <2>7. ASSUME Window!ExporterEnds PROVE v13' \in WindowDialogs
    BY <2>7 DEF Window!ExporterEnds
  <2>8. ASSUME Window!ShowPreview PROVE v13' \in WindowDialogs
    BY <2>8 DEF Window!ShowPreview, Window!Pumps
  <2>9. ASSUME Window!FinishExport PROVE v13' \in WindowDialogs
    <3>1. v13 \in {<< >>, <<"save">>, <<"ask">>}
      BY <2>9, <1>b, WindowTops DEF Window!FinishExport, Window!Pumps
    <3>2. v7 BY <2>9, <1>g DEF Window!FinishExport, Window!Pumps, Window!ExportKinds
    <3>3. v13 # <<"save">>
      <4>1. ~Window!Top("save") BY <3>2
      <4>2. QED BY <4>1, <1>b, WindowTops DEF Window!Top
    <3>4. v13' \in {v13, << >>, Append(v13, "notice")} BY <2>9 DEF Window!FinishExport, Window!Closed
    <3>5. QED BY <3>1, <3>3, <3>4, WindowModal DEF WindowDialogs
  <2>10. ASSUME Window!DismissNotice PROVE v13' \in WindowDialogs
    BY <2>10 DEF Window!DismissNotice, Window!Closed
  <2>11. ASSUME Window!CloseWindow PROVE v13' \in WindowDialogs
    BY <2>11 DEF Window!CloseWindow, Window!Closed
  <2>12. ASSUME Window!Answer PROVE v13' \in WindowDialogs
    BY <2>12 DEF Window!Answer
  <2>13. ASSUME Window!Leave PROVE v13' \in WindowDialogs
    BY <2>13 DEF Window!Leave, Window!Closed
  <2>14. ASSUME Window!FinishLeave PROVE v13' \in WindowDialogs
    BY <2>14 DEF Window!FinishLeave, Window!Closed
  <2>15. QED BY <2>1, <2>2, <2>3, <2>4, <2>5, <2>6, <2>7, <2>8, <2>9, <2>10, <2>11, <2>12,
      <2>13, <2>14 DEF Window!Next, Window!Threads, Window!Interface, Window!User
<1>2. v12' \in Seq(WindowEvents)
  <2> USE <1>a, <1>b, <1>c DEF Window!preview, Window!export, Window!closing, Window!Inv, Window!Shape,
      Window!TypeOK
  <2>1. ASSUME Window!FirstRender PROVE v12' \in Seq(WindowEvents)
    BY <2>1 DEF Window!FirstRender
  <2>2. ASSUME Window!Edit PROVE v12' \in Seq(WindowEvents)
    BY <2>2 DEF Window!Edit, Window!RequestRender
  <2>3. ASSUME Window!DrawnOrFailed PROVE v12' \in Seq(WindowEvents)
    BY <2>3 DEF Window!DrawnOrFailed
  <2>4. ASSUME Window!AskOutput PROVE v12' \in Seq(WindowEvents)
    BY <2>4 DEF Window!AskOutput
  <2>5. ASSUME Window!StartExport PROVE v12' \in Seq(WindowEvents)
    BY <2>5 DEF Window!StartExport
  <2>6. ASSUME Window!RequestCancel PROVE v12' \in Seq(WindowEvents)
    BY <2>6 DEF Window!RequestCancel
  <2>7. ASSUME Window!ExporterEnds PROVE v12' \in Seq(WindowEvents)
    BY <2>7 DEF Window!ExporterEnds
  <2>8. ASSUME Window!ShowPreview PROVE v12' \in Seq(WindowEvents)
    BY <2>8 DEF Window!ShowPreview, Window!Pumps
  <2>9. ASSUME Window!FinishExport PROVE v12' \in Seq(WindowEvents)
    BY <2>9 DEF Window!FinishExport, Window!Pumps, Window!Closed
  <2>10. ASSUME Window!DismissNotice PROVE v12' \in Seq(WindowEvents)
    BY <2>10 DEF Window!DismissNotice, Window!Closed
  <2>11. ASSUME Window!CloseWindow PROVE v12' \in Seq(WindowEvents)
    BY <2>11 DEF Window!CloseWindow, Window!Closed
  <2>12. ASSUME Window!Answer PROVE v12' \in Seq(WindowEvents)
    BY <2>12 DEF Window!Answer
  <2>13. ASSUME Window!Leave PROVE v12' \in Seq(WindowEvents)
    BY <2>13 DEF Window!Leave, Window!Closed
  <2>14. ASSUME Window!FinishLeave PROVE v12' \in Seq(WindowEvents)
    BY <2>14 DEF Window!FinishLeave, Window!Closed
  <2>15. QED BY <2>1, <2>2, <2>3, <2>4, <2>5, <2>6, <2>7, <2>8, <2>9, <2>10, <2>11, <2>12,
      <2>13, <2>14 DEF Window!Next, Window!Threads, Window!Interface, Window!User
<1>3. Window!TypeOK'
  <2> USE <1>a, <1>b, <1>c, <1>1, <1>f DEF WindowEvents, Window!preview, Window!export, Window!closing,
          Window!Inv, Window!Shape, Window!TypeOK, Window!Head1
  <2>1. ASSUME Window!FirstRender PROVE Window!TypeOK'
    BY <2>1 DEF Window!FirstRender
  <2>2. ASSUME Window!Edit PROVE Window!TypeOK'
    BY <2>2 DEF Window!Edit, Window!RequestRender
  <2>3. ASSUME Window!DrawnOrFailed PROVE Window!TypeOK'
    BY <2>3 DEF Window!DrawnOrFailed
  <2>4. ASSUME Window!AskOutput PROVE Window!TypeOK'
    BY <2>4 DEF Window!AskOutput
  <2>5. ASSUME Window!StartExport PROVE Window!TypeOK'
    BY <2>5 DEF Window!StartExport
  <2>6. ASSUME Window!RequestCancel PROVE Window!TypeOK'
    BY <2>6 DEF Window!RequestCancel
  <2>7. ASSUME Window!ExporterEnds PROVE Window!TypeOK'
    BY <2>7 DEF Window!ExporterEnds
  <2>8. ASSUME Window!ShowPreview PROVE Window!TypeOK'
    BY <2>8 DEF Window!ShowPreview, Window!Pumps
  <2>9. ASSUME Window!FinishExport PROVE Window!TypeOK'
    BY <2>9 DEF Window!FinishExport, Window!Pumps, Window!Closed
  <2>10. ASSUME Window!DismissNotice PROVE Window!TypeOK'
    BY <2>10 DEF Window!DismissNotice, Window!Closed
  <2>11. ASSUME Window!CloseWindow PROVE Window!TypeOK'
    BY <2>11 DEF Window!CloseWindow, Window!Closed
  <2>12. ASSUME Window!Answer PROVE Window!TypeOK'
    BY <2>12 DEF Window!Answer
  <2>13. ASSUME Window!Leave PROVE Window!TypeOK'
    BY <2>13 DEF Window!Leave, Window!Closed
  <2>14. ASSUME Window!FinishLeave PROVE Window!TypeOK'
    BY <2>14 DEF Window!FinishLeave, Window!Closed
  <2>15. QED BY <2>1, <2>2, <2>3, <2>4, <2>5, <2>6, <2>7, <2>8, <2>9, <2>10, <2>11, <2>12,
      <2>13, <2>14 DEF Window!Next, Window!Threads, Window!Interface, Window!User
<1>4. QED BY <1>1, <1>2, <1>3, <1>e

(* One export runs at a time and tells its end once; the window is destroyed *)
(* under it only by a late answer.                                           *)
LEMMA WindowOneExport ==
    ASSUME Window!Inv, Window!Next
    PROVE  Window!OneExport' /\ Window!WaitsForExport'
<1>a. MaxEdits \in Nat BY BoundsAreNatural
<1>b. v12 \in Seq(WindowEvents) /\ v13 \in WindowDialogs
  BY DEF Window!Inv, Window!Shape, Window!ExportKinds, WindowEvents, WindowDialogs
<1>c. /\ \A k \in {"exported", "export", "cancelled", "stage", "render"}, v \in -1 .. MaxEdits :
           Append(v12, [kind |-> k, version |-> v]) \in Seq(WindowEvents)
      /\ v12 # << >> => Tail(v12) \in Seq(WindowEvents) /\ Head(v12) \in WindowEvents
  <2>1. ASSUME NEW k \in {"exported", "export", "cancelled", "stage", "render"}, NEW v \in -1 .. MaxEdits
        PROVE  [kind |-> k, version |-> v] \in WindowEvents
    BY DEF WindowEvents
  <2>2. QED BY <1>b, <2>1, AppendFacts, TailFacts
<1>d. /\ Len(v12) \in Nat /\ (v12 = << >> <=> Len(v12) = 0)
      /\ \A e : /\ Len(Append(v12, e)) = Len(v12) + 1 /\ Append(v12, e)[Len(v12) + 1] = e
                /\ \A i \in 1 .. Len(v12) : Append(v12, e)[i] = v12[i]
      /\ v12 # << >> => /\ Len(Tail(v12)) = Len(v12) - 1 /\ Head(v12) = v12[1]
                        /\ \A i \in 1 .. Len(v12) - 1 : Tail(v12)[i] = v12[i + 1]
  BY <1>b
<1> USE <1>a, <1>b, <1>c, <1>d, WindowModal DEF WindowDialogs, Window!preview, Window!export,
    Window!closing,
        Window!Push, Window!Pop, Window!Top, Window!Idle, Window!Inv, Window!OneExport,
        Window!WaitsForExport, Window!Head1, Window!ExportKinds
<1>e. \A m : Window!Top(m) <=>
                 \/ v13 = <<"save">> /\ m = "save"
                 \/ v13 = <<"ask">> /\ m = "ask"
                 \/ v13 \in {<<"notice">>, <<"ask", "notice">>} /\ m = "notice"
  BY <1>b, WindowTops
<1>f. /\ \A m : Window!Top(m)' <=> v13' # << >> /\ v13'[Len(v13')] = m
      /\ v13' = v13 => \A m : Window!Top(m)' <=> Window!Top(m)
      /\ v13' = << >> \/ v13' = <<"ask">> => ~Window!Top("save")' /\ ~Window!Top("notice")'
  <2>1. v13' = << >> => ~Window!Top("save")' /\ ~Window!Top("notice")' OBVIOUS
  <2>2. v13' = <<"ask">> => ~Window!Top("save")' /\ ~Window!Top("notice")'
    BY WindowTops
  <2>3. QED BY <2>1, <2>2
<1>1. ASSUME Window!FirstRender PROVE Window!OneExport' /\ Window!WaitsForExport'
  BY <1>1 DEF Window!FirstRender
<1>2. ASSUME Window!Edit PROVE Window!OneExport' /\ Window!WaitsForExport'
  BY <1>2 DEF Window!Edit, Window!RequestRender
<1>3. ASSUME Window!DrawnOrFailed PROVE Window!OneExport' /\ Window!WaitsForExport'
  BY <1>3 DEF Window!DrawnOrFailed
<1>4. ASSUME Window!AskOutput PROVE Window!OneExport' /\ Window!WaitsForExport'
  BY <1>4 DEF Window!AskOutput
<1>5. ASSUME Window!StartExport PROVE Window!OneExport' /\ Window!WaitsForExport'
  <2>1. v13 = <<"save">> /\ v13' = << >> BY <1>5, <1>e DEF Window!StartExport
  <2>2. ~v7 /\ v1 # "closed" BY <2>1, <1>e
  <2>3. ~Window!Top("save")' /\ ~Window!Top("notice")' BY <2>1, <1>f
  <2>4. v1' = v1 /\ v12' = v12 BY <1>5 DEF Window!StartExport
  <2>a. \/ v9' = FALSE /\ v7' = TRUE /\ v10' = TRUE
        \/ v9' = v9 /\ v7' = v7 /\ v10' = v10
    BY <1>5 DEF Window!StartExport
  <2>5. \A i \in 1 .. Len(v12) : v12[i].kind \notin {"exported", "export", "cancelled"} BY <2>2
  <2>b. v10' \in BOOLEAN /\ v7' \in BOOLEAN /\ v9' = ~v10' /\ (v10' => v7')
    <3>1. v10 \in BOOLEAN /\ v7 \in BOOLEAN /\ v9 = ~v10 /\ (v10 => v7) OBVIOUS
    <3>2. CASE v9' = FALSE /\ v7' = TRUE /\ v10' = TRUE BY ONLY <3>2
    <3>3. CASE v9' = v9 /\ v7' = v7 /\ v10' = v10 BY ONLY <3>1, <3>3
    <3>4. QED BY ONLY <3>2, <3>3, <2>a
  <2>c. \A i \in 1 .. Len(v12') : v12'[i].kind \notin {"exported", "export", "cancelled"} BY <2>4, <2>5
  <2>d. Window!OneExport' BY <2>1, <2>3, <2>b, <2>c
  <2>6. QED BY <2>d, <2>2, <2>4
<1>6. ASSUME Window!RequestCancel PROVE Window!OneExport' /\ Window!WaitsForExport'
  BY <1>6 DEF Window!RequestCancel
<1>7. ASSUME Window!ExporterEnds PROVE Window!OneExport' /\ Window!WaitsForExport'
  <2>1. PICK k : v12' = Append(v12, [kind |-> k, version |-> -1])
    BY <1>7 DEF Window!ExporterEnds
  <2>2. /\ v10 /\ v7 /\ v7' = v7 /\ v10' = FALSE /\ v9' = TRUE /\ v13' = v13 /\ v1' = v1
    BY <1>7 DEF Window!ExporterEnds
  <2>3. \A i \in 1 .. Len(v12) : v12[i].kind \notin {"exported", "export", "cancelled"} BY <2>2
  <2>4. /\ Len(v12') = Len(v12) + 1
        /\ \A i \in 1 .. Len(v12) : v12'[i] = v12[i]
    BY <2>1, <1>d
  <2>5. \A i \in 1 .. Len(v12') : v12'[i].kind \in {"exported", "export", "cancelled"} => i = Len(v12) + 1
    BY <2>3, <2>4, <1>d
  <2>6. ~Window!Top("save")' /\ ~Window!Top("notice")' BY <2>2, <1>f
  <2>7. QED BY <2>2, <2>5, <2>6
<1>8. ASSUME Window!ShowPreview PROVE Window!OneExport' /\ Window!WaitsForExport'
  BY <1>8 DEF Window!ShowPreview, Window!Pumps
<1>9. ASSUME Window!FinishExport PROVE Window!OneExport' /\ Window!WaitsForExport'
  <2>0. v12 # << >> /\ v12' = Tail(v12) /\ Head(v12).kind \in {"exported", "export", "cancelled"} /\ ~v7' /\ v10' = v10 /\ v9' = v9
    BY <1>9 DEF Window!FinishExport, Window!Pumps
  <2>1. 1 \in 1 .. Len(v12) /\ Head(v12) = v12[1] BY <2>0, <1>d
  <2>2. v7 /\ ~v10 BY <2>0, <2>1
  <2>3. \A j \in 1 .. Len(v12) : v12[j].kind \in {"exported", "export", "cancelled"} => 1 = j
    BY <2>0, <2>1
  <2>4. /\ Len(v12') = Len(v12) - 1 /\ Len(v12) \in Nat
        /\ \A i \in 1 .. Len(v12) - 1 : v12'[i] = v12[i + 1]
    BY <2>0, <1>d
  <2>5. ASSUME NEW i \in 1 .. Len(v12') PROVE v12'[i].kind \notin {"exported", "export", "cancelled"}
    <3>1. i + 1 \in 1 .. Len(v12) /\ i + 1 # 1 /\ v12'[i] = v12[i + 1] BY <2>4
    <3>2. QED BY <3>1, <2>3
  <2>7. v1' = "closed" => v13' = << >> BY <1>9 DEF Window!FinishExport, Window!Pumps, Window!Closed
  <2>8. v7' = FALSE BY <1>9 DEF Window!FinishExport
  <2>9. QED BY <2>0, <2>2, <2>5, <2>7, <2>8
<1>10. ASSUME Window!DismissNotice PROVE Window!OneExport' /\ Window!WaitsForExport'
  BY <1>10 DEF Window!DismissNotice, Window!Closed
<1>11. ASSUME Window!CloseWindow PROVE Window!OneExport' /\ Window!WaitsForExport'
  BY <1>11 DEF Window!CloseWindow, Window!Closed
<1>12. ASSUME Window!Answer PROVE Window!OneExport' /\ Window!WaitsForExport'
  BY <1>12 DEF Window!Answer
<1>13. ASSUME Window!Leave PROVE Window!OneExport' /\ Window!WaitsForExport'
  BY <1>13 DEF Window!Leave, Window!Closed
<1>14. ASSUME Window!FinishLeave PROVE Window!OneExport' /\ Window!WaitsForExport'
  BY <1>14 DEF Window!FinishLeave, Window!Closed
<1>15. QED BY <1>1, <1>2, <1>3, <1>4, <1>5, <1>6, <1>7, <1>8, <1>9, <1>10, <1>11, <1>12, <1>13,
    <1>14 DEF Window!Next, Window!Threads, Window!Interface, Window!User

(* The invariant of the window is inductive.                                 *)
LEMMA WindowStep == Window!Inv /\ [Window!Next]_(Window!vars) => Window!Inv'
<1> SUFFICES ASSUME Window!Inv, [Window!Next]_(Window!vars) PROVE Window!Inv'
  OBVIOUS
<1>1. CASE UNCHANGED Window!vars
  BY <1>1 DEF Window!vars, Window!Inv, Window!Shape, Window!TypeOK, Window!OneExport, Window!Top,
      Window!WaitsForExport
<1>2. CASE Window!Next
  BY <1>2, WindowShape, WindowOneExport DEF Window!Inv
<1>3. QED BY <1>1, <1>2

(* Closing the window waits for the export, unless CinePulse itself is closed and it came late. *)
LEMMA WindowWaits == Window!Inv => Window!TypeOK /\ Window!WaitsForExport
  BY DEF Window!Inv, Window!Shape

(***************************************************************************)
(* The chunk loops of the neural stages.                                   *)
(***************************************************************************)
(* The sum of the first numbers of a sequence, as the recursive function of a    *)
(* definition: it exists, and is the only one.                               *)
NeuralSums(N, c, f) == f = [n \in 0 .. N |-> IF n = 0 THEN 0 ELSE f[n - 1] + c[n].count]

(* The sums over the first N segments exist, by induction over N.            *)
LEMMA NeuralSumsExist ==
    ASSUME NEW c
    PROVE  \A N \in Nat : \E f : NeuralSums(N, c, f)
<1> DEFINE good == {k \in Nat : \E f : NeuralSums(k, c, f)}
<1>1. 0 \in good
  <2> DEFINE f == [n \in 0 .. 0 |-> 0]
  <2>1. f = [n \in 0 .. 0 |-> IF n = 0 THEN 0 ELSE f[n - 1] + c[n].count]
    <3>1. \A n \in 0 .. 0 : n = 0 OBVIOUS
    <3>2. QED BY <3>1
  <2>2. NeuralSums(0, c, f) BY <2>1 DEF NeuralSums
  <2>3. QED BY <2>2
<1>2. ASSUME NEW k \in Nat, k \in good PROVE k + 1 \in good
  <2>1. PICK f : NeuralSums(k, c, f) BY <1>2
  <2> DEFINE g == [n \in 0 .. k + 1 |-> IF n = k + 1 THEN f[k] + c[k + 1].count ELSE f[n]]
  <2>2. \A n \in 0 .. k + 1 : g[n] = IF n = 0 THEN 0 ELSE g[n - 1] + c[n].count
    <3> SUFFICES ASSUME NEW n \in 0 .. k + 1 PROVE g[n] = IF n = 0 THEN 0 ELSE g[n - 1] + c[n].count
      OBVIOUS
    <3>1. CASE n = k + 1
      <4>1. n - 1 \in 0 .. k + 1 /\ n - 1 # k + 1 /\ n - 1 = k /\ n # 0 BY <3>1
      <4>2. g[n - 1] = f[k] BY <4>1
      <4>3. QED BY <3>1, <4>1, <4>2
    <3>2. CASE n # k + 1 /\ n # 0
      <4>1. n \in 0 .. k /\ n - 1 \in 0 .. k + 1 /\ n - 1 # k + 1 BY <3>2
      <4>2. g[n] = f[n] /\ g[n - 1] = f[n - 1] BY <4>1, <3>2
      <4>3. f[n] = f[n - 1] + c[n].count BY <2>1, <4>1, <3>2 DEF NeuralSums
      <4>4. QED BY <4>2, <4>3, <3>2
    <3>3. CASE n = 0
      <4>1. 0 \in 0 .. k /\ 0 # k + 1 BY <1>2
      <4>2. g[0] = f[0] /\ f[0] = 0 BY <2>1, <4>1 DEF NeuralSums
      <4>3. QED BY <4>2, <3>3
    <3>4. QED BY <3>1, <3>2, <3>3
  <2>3. g = [n \in 0 .. k + 1 |-> g[n]] OBVIOUS
  <2> HIDE DEF g
  <2>4. g = [n \in 0 .. k + 1 |-> IF n = 0 THEN 0 ELSE g[n - 1] + c[n].count] BY <2>2, <2>3
  <2>5. \E h : NeuralSums(k + 1, c, h) BY <2>4 DEF NeuralSums
  <2>6. QED BY <2>5
<1> HIDE DEF good
<1>3. Nat \subseteq good BY <1>1, <1>2, NaturalInduction
<1>4. QED BY <1>3 DEF good

(* The frames of a sequence of segments are the last of its sums.            *)
LEMMA NeuralFrames ==
    ASSUME NEW s \in Seq(Neural!Segment)
    PROVE  \E f : NeuralSums(Len(s), s, f) /\ Neural!FramesIn(s) = f[Len(s)]
<1> DEFINE g == CHOOSE f : NeuralSums(Len(s), s, f)
<1>1. NeuralSums(Len(s), s, g)
  <2>1. \E f : NeuralSums(Len(s), s, f) BY NeuralSumsExist
  <2>2. QED BY <2>1
<1>2. Neural!FramesIn(s) = g[Len(s)] BY DEF Neural!FramesIn, NeuralSums
<1> HIDE DEF g
<1>3. QED BY <1>1, <1>2

(* Two sums of sequences that begin alike, and that they are numbers.        *)
LEMMA NeuralSumsAgree ==
    ASSUME NEW N \in Nat, NEW M \in Nat, NEW c, NEW d, NEW f, NEW g, N <= M,
           NeuralSums(N, c, f), NeuralSums(M, d, g),
           \A i \in 1 .. N : c[i].count = d[i].count /\ c[i].count \in Nat
    PROVE  f[N] = g[N] /\ f[N] \in Nat
<1> DEFINE good == {k \in Nat : k <= N => f[k] = g[k] /\ f[k] \in Nat}
<1>1. 0 \in good
  <2>1. 0 \in 0 .. N /\ 0 \in 0 .. M OBVIOUS
  <2>2. f[0] = 0 /\ g[0] = 0 BY <2>1 DEF NeuralSums
  <2>3. QED BY <2>2
<1>2. ASSUME NEW k \in Nat, k \in good PROVE k + 1 \in good
  <2> SUFFICES ASSUME k + 1 <= N PROVE f[k + 1] = g[k + 1] /\ f[k + 1] \in Nat
    OBVIOUS
  <2>1. k + 1 \in 0 .. N /\ k + 1 \in 0 .. M /\ k + 1 # 0 /\ (k + 1) - 1 = k /\ k + 1 \in 1 .. N BY <1>2
  <2>2. f[k + 1] = f[k] + c[k + 1].count /\ g[k + 1] = g[k] + d[k + 1].count
    BY <2>1 DEF NeuralSums
  <2>3. f[k] = g[k] /\ f[k] \in Nat BY <1>2
  <2>4. QED BY <2>1, <2>2, <2>3
<1> HIDE DEF good
<1>3. Nat \subseteq good BY <1>1, <1>2, NaturalInduction
<1>4. QED BY <1>3 DEF good

(* A segment more, the frames of a segment more.                             *)
LEMMA NeuralAppends ==
    ASSUME NEW s \in Seq(Neural!Segment), NEW x \in Neural!Segment
    PROVE  /\ Neural!FramesIn(s) \in Nat
           /\ Neural!FramesIn(Append(s, x)) = Neural!FramesIn(s) + x.count
<1> DEFINE t == Append(s, x)
           n == Len(s)
<1>0. /\ t \in Seq(Neural!Segment) /\ n \in Nat /\ Len(t) = n + 1 /\ t[n + 1] = x
      /\ \A i \in 1 .. n : t[i] = s[i] /\ s[i] \in Neural!Segment
  OBVIOUS
<1> HIDE DEF t, n
<1>1. PICK f : NeuralSums(n, s, f) /\ Neural!FramesIn(s) = f[n] BY NeuralFrames DEF n
<1>2. PICK g : NeuralSums(n + 1, t, g) /\ Neural!FramesIn(t) = g[n + 1] BY <1>0, NeuralFrames
<1>3. f[n] = g[n] /\ f[n] \in Nat
  <2>1. \A i \in 1 .. n : s[i].count = t[i].count /\ s[i].count \in Nat BY <1>0 DEF Neural!Segment
  <2>2. n <= n + 1 /\ n + 1 \in Nat BY <1>0
  <2>3. QED BY <1>0, <1>1, <1>2, <2>1, <2>2, NeuralSumsAgree
<1>4. g[n + 1] = g[n] + t[n + 1].count
  <2>1. n + 1 \in 0 .. n + 1 /\ n + 1 # 0 /\ (n + 1) - 1 = n BY <1>0
  <2>2. QED BY <2>1, <1>2 DEF NeuralSums
<1>5. QED BY <1>0, <1>1, <1>2, <1>3, <1>4 DEF t, n

(* No segments hold no frames.                                               *)
LEMMA NeuralNothing == Neural!FramesIn(<< >>) = 0
<1>1. << >> \in Seq(Neural!Segment) /\ Len(<< >>) = 0 OBVIOUS
<1>2. PICK f : NeuralSums(0, << >>, f) /\ Neural!FramesIn(<< >>) = f[0] BY <1>1, NeuralFrames
<1>3. QED
  <2>1. 0 \in 0 .. 0 OBVIOUS
  <2>2. QED BY <2>1, <1>2 DEF NeuralSums

(* The least and the greatest of two numbers.                                *)
LEMMA NeuralMinMax ==
    ASSUME NEW a \in Int, NEW b \in Int
    PROVE  /\ Neural!Min({a, b}) = IF a <= b THEN a ELSE b
           /\ Neural!Max({a, b}) = IF a >= b THEN a ELSE b
<1>1. Neural!Min({a, b}) = IF a <= b THEN a ELSE b BY DEF Neural!Min
<1>2. Neural!Max({a, b}) = IF a >= b THEN a ELSE b BY DEF Neural!Max
<1>3. QED BY <1>1, <1>2

(* A number raised to a least value.                                         *)
LEMMA NeuralAtLeast ==
    ASSUME NEW b \in Int
    PROVE  /\ Neural!Max({2, b}) = IF 2 >= b THEN 2 ELSE b
           /\ Neural!Max({0, b}) = IF 0 >= b THEN 0 ELSE b
<1>1. Neural!Max({2, b}) = IF 2 >= b THEN 2 ELSE b BY DEF Neural!Max
<1>2. Neural!Max({0, b}) = IF 0 >= b THEN 0 ELSE b BY DEF Neural!Max
<1>3. QED BY <1>1, <1>2

(* The ranges of the counters and of what the two background commands hold.  *)
LEMMA NeuralNumbers ==
    ASSUME Neural!Inv
    PROVE  /\ MaxFrames \in Nat /\ ChunkFrames \in Nat \ {0}
           /\ v1.nominal \in 0 .. MaxFrames /\ v1.real \in 0 .. MaxFrames /\ v1.stage \in {"ai", "rife"}
           /\ {v1.overlapExtract, v1.overlapPack, v1.cuda} \subseteq BOOLEAN
           /\ v3 \in Nat /\ v4 \in Nat /\ v5 \in Nat /\ v6 \in Nat /\ v3 <= v4 /\ v4 <= MaxFrames
           /\ v5 <= MaxFrames /\ v4 <= v1.nominal
           /\ v8.chunk \in 0 .. MaxFrames /\ v8.from \in 0 .. MaxFrames /\ v8.count \in 0 .. MaxFrames
           /\ v8.gpu \in BOOLEAN
           /\ v9.chunk \in 0 .. MaxFrames /\ v9.from \in 0 .. MaxFrames /\ v9.count \in 0 .. MaxFrames
           /\ Neural!Indexes = 1 .. MaxFrames + 1
           /\ \A i \in Neural!Indexes : v7[i].from \in 0 .. MaxFrames /\ v7[i].count \in 0 .. MaxFrames
           /\ v10 \in Seq(Neural!Segment)
<1> USE ChunkAssumption DEF Neural!Inv, Neural!Shape
<1>1. MaxFrames \in Nat /\ ChunkFrames \in Nat \ {0} OBVIOUS
<1>2. v1 \in ChunkJobs BY DEF Neural!TypeOK
<1>3. /\ v1.nominal \in 0 .. MaxFrames /\ v1.real \in 0 .. MaxFrames /\ v1.stage \in {"ai", "rife"}
      /\ {v1.overlapExtract, v1.overlapPack, v1.cuda} \subseteq BOOLEAN
  BY <1>2
<1>4. v3 \in 0 .. v4 /\ v4 \in 0 .. v1.nominal /\ v5 \in 0 .. MaxFrames /\ v6 \in 0 .. v1.nominal
  BY DEF Neural!TypeOK
<1>5. /\ v8.chunk \in 0 .. MaxFrames /\ v8.from \in 0 .. MaxFrames /\ v8.count \in 0 .. MaxFrames
      /\ v8.gpu \in BOOLEAN
  OBVIOUS
<1>6. v9.chunk \in 0 .. MaxFrames /\ v9.from \in 0 .. MaxFrames /\ v9.count \in 0 .. MaxFrames
  OBVIOUS
<1>7. Neural!Indexes = 1 .. MaxFrames + 1 BY DEF Neural!Indexes
<1>8. \A i \in Neural!Indexes : v7[i].from \in 0 .. MaxFrames /\ v7[i].count \in 0 .. MaxFrames
  OBVIOUS
<1>9. v10 \in Seq(Neural!Segment) OBVIOUS
<1>10. /\ v3 \in Nat /\ v4 \in Nat /\ v5 \in Nat /\ v6 \in Nat /\ v3 <= v4 /\ v4 <= MaxFrames
       /\ v5 <= MaxFrames /\ v4 <= v1.nominal
  BY ONLY <1>1, <1>3, <1>4
<1>11. QED BY ONLY <1>1, <1>3, <1>5, <1>6, <1>7, <1>8, <1>9, <1>10

(* A chunk has frames of what is left; it may be none for RIFE only.         *)
LEMMA NeuralChunkAt ==
    ASSUME Neural!Inv, NEW o \in 0 .. v4
    PROVE  Neural!ChunkAt(o) \in 0 .. v4 - o
<1>1. v4 \in Nat /\ ChunkFrames \in Nat \ {0} BY NeuralNumbers
<1> DEFINE left == v4 - o
           plain == Neural!Min({ChunkFrames, left})
           two == Neural!Max({2, plain})
           n == Neural!Min({IF left - two = 1 THEN two + 1 ELSE two, left})
<1>2. left \in Nat BY <1>1
<1> HIDE DEF left
<1>3. plain \in Nat /\ plain <= left BY <1>1, <1>2, NeuralMinMax
<1> HIDE DEF plain
<1>a. plain \in Int BY <1>3
<1>b. two = IF 2 >= plain THEN 2 ELSE plain BY <1>a, NeuralAtLeast
<1>4. two \in Nat BY <1>3, <1>b
<1> HIDE DEF two
<1>5. n \in Nat /\ n <= left
  <2>1. (IF left - two = 1 THEN two + 1 ELSE two) \in Nat BY <1>2, <1>4
  <2>2. QED BY <2>1, <1>2, NeuralMinMax
<1> HIDE DEF n
<1>6. Neural!ChunkAt(o) = IF v1.stage = "ai" THEN plain ELSE IF n >= 2 THEN n ELSE 0
  BY DEF Neural!ChunkAt, plain, n, two, left
<1>7. QED BY <1>2, <1>3, <1>5, <1>6 DEF left

(* What an extraction leaves is truthful.                                    *)
LEMMA NeuralExtracts ==
    ASSUME Neural!Inv, NEW o \in Nat, NEW n \in Nat \ {0}, NEW cuda \in BOOLEAN,
           NEW f \in Neural!Extracted(o, n, cuda)
    PROVE  f.from = o /\ f.count \in 0 .. n /\ f = [from |-> o, count |-> f.count] /\ Neural!Truthful(f, o, n, cuda)
<1>1. v1.real \in Nat BY NeuralNumbers
<1> DEFINE m == v1.real - o
           d == Neural!Decodable(o, n)
<1>2. m \in Int BY <1>1
<1>3. Neural!Min({n, m}) = IF n <= m THEN n ELSE m BY <1>2, NeuralMinMax
<1>a. Neural!Min({n, m}) \in Int BY <1>2, <1>3
<1>b. d = Neural!Max({0, Neural!Min({n, m})}) BY DEF Neural!Decodable
<1>4. d = IF 0 >= Neural!Min({n, m}) THEN 0 ELSE Neural!Min({n, m})
  BY <1>a, <1>b, NeuralAtLeast
<1>5. PICK cut \in (IF cuda /\ "cut" \in ChunkFaults THEN 0 .. 1 ELSE {0}) :
        f = [from |-> o, count |-> Neural!Max({0, d - cut})]
  BY DEF Neural!Extracted
<1>6. cut \in 0 .. 1 /\ (~cuda => cut = 0) BY <1>5
<1>7. d \in Nat /\ d <= n /\ (d = n => o + n <= v1.real) /\ (0 < d /\ d < n => o + d = v1.real)
  BY <1>1, <1>3, <1>4
<1> HIDE DEF d
<1>c. d - cut \in Int BY <1>6, <1>7
<1>8. Neural!Max({0, d - cut}) = IF 0 >= d - cut THEN 0 ELSE d - cut
  BY <1>c, NeuralAtLeast
<1>9. /\ f.from = o /\ f.count \in 0 .. n /\ (f.count = n => d = n)
      /\ (~cuda => f.count = d) /\ f = [from |-> o, count |-> f.count]
  BY <1>5, <1>6, <1>7, <1>8
<1>10. QED BY <1>7, <1>9 DEF Neural!Truthful

(* The invariant of the chunk loop holds initially.                          *)
LEMMA NeuralInit == Neural!Init => Neural!Inv
<1> SUFFICES ASSUME Neural!Init PROVE Neural!Inv
  OBVIOUS
<1>1. /\ MaxFrames \in Nat /\ v1 \in ChunkJobs /\ v1.nominal \in 0 .. MaxFrames /\ v1.real \in 0 .. MaxFrames
      /\ v1.cuda \in BOOLEAN
  <2>1. v1 \in ChunkJobs BY DEF Neural!Init
  <2>2. QED BY <2>1, ChunkAssumption
<1> USE <1>1 DEF Neural!Init
<1>2. Neural!TypeOK
  BY DEF Neural!TypeOK, Neural!NoTask, Neural!NoFrames, Neural!Indexes, Neural!Policies
<1>3. Neural!Shape
  <2>1. {v8, v9} \subseteq [state: {"none", "running", "ok", "failed", "gpufailed", "cancelled"},
                            chunk: 0..MaxFrames, from: 0..MaxFrames, count: 0..MaxFrames, gpu: BOOLEAN]
    BY DEF Neural!NoTask
  <2>2. v7 \in [Neural!Indexes -> [from: 0..MaxFrames, count: 0..MaxFrames]]
    BY DEF Neural!NoFrames
  <2>3. v10 \in Seq(Neural!Segment) OBVIOUS
  <2>4. {v11, v12, v16} \subseteq BOOLEAN OBVIOUS
  <2>5. QED BY <1>2, <2>1, <2>2, <2>3, <2>4 DEF Neural!Shape
<1>4. Neural!Course /\ Neural!Ahead /\ Neural!Behind
  BY DEF Neural!Course, Neural!Ahead, Neural!Behind, Neural!NoTask, Neural!InChunk
<1>5. Neural!Packing
  <2>a. v10 = << >> /\ v9.state = "none" BY DEF Neural!NoTask
  <2>b. Len(v10) = 0 /\ DOMAIN v10 = {} BY <2>a
  <2>1. v10 = << >> /\ Len(v10) = 0 /\ DOMAIN v10 = {} /\ v9.state = "none" BY <2>a, <2>b
  <2>2. Neural!Packed = 0 BY <2>1, NeuralNothing DEF Neural!Packed
  <2>3. QED BY <2>1, <2>2 DEF Neural!Packing, Neural!Reached, Neural!Gapless, Neural!EndOf,
      Neural!InChunk
<1>6. Neural!OnlyTheirs BY DEF Neural!OnlyTheirs, Neural!NoFrames
<1>7. QED BY <1>3, <1>4, <1>5, <1>6 DEF Neural!Inv

(* The length of the chunk ahead is a matter of the job and its length only. *)
LEMMA NeuralSameChunk ==
    ASSUME v1' = v1, v4' = v4
    PROVE  Neural!ChunkAt(v8.from)' = Neural!ChunkAt(v8'.from)
BY DEF Neural!ChunkAt

(* The counters of the loop stay within the clip, and its job never changes. *)
LEMMA NeuralPlaces ==
    ASSUME Neural!Inv, Neural!Next
    PROVE  /\ v1' = v1 /\ v3' \in 0 .. v4' /\ v4' \in 0 .. v1.nominal /\ v5' \in 0 .. MaxFrames /\ v6' \in 0 .. v1.nominal
           /\ v4' \in {v4, v1.real}
<1> DEFINE Goal == /\ v1' = v1 /\ v3' \in 0 .. v4' /\ v4' \in 0 .. v1.nominal /\ v5' \in 0 .. MaxFrames /\ v6' \in 0 .. v1.nominal
                   /\ v4' \in {v4, v1.real}
<1>a. \A o \in 0 .. v4 : Neural!ChunkAt(o) \in 0 .. v4 - o BY NeuralChunkAt
<1>b. v3 \in 0 .. v4 /\ v4 \in 0 .. v1.nominal /\ v5 \in 0 .. MaxFrames /\ v6 \in 0 .. v1.nominal
  BY DEF Neural!Inv, Neural!Shape, Neural!TypeOK
<1>c. v1.nominal \in Nat /\ v1.nominal <= MaxFrames /\ MaxFrames \in Nat /\ v3 \in Nat /\ v4 \in Nat /\ v5 \in Nat /\ v6 \in Nat
  BY NeuralNumbers
<1>d. /\ v2 = "top" => v5 <= v3
      /\ v2 \in {"check", "neural", "collect", "merge"} => v6 >= 1 /\ v3 + v6 <= v4
      /\ v2 = "check" => Neural!Truthful(v7[v5], v3, v6, v12)
  BY DEF Neural!Inv, Neural!Course, Neural!InChunk
<1> USE <1>b, <1>c, <1>d DEF Neural!place
<1>1. ASSUME Neural!PrefetchEnds PROVE Goal
  BY <1>1 DEF Neural!PrefetchEnds, Neural!Running
<1>2. ASSUME Neural!PackEnds PROVE Goal
  BY <1>2 DEF Neural!PackEnds, Neural!Running
<1>3. ASSUME Neural!Cancel PROVE Goal
  BY <1>3 DEF Neural!Cancel
<1>4. ASSUME Neural!Top PROVE Goal
  <2>1. v2 = "top" /\ v3 < v4 /\ v6' = Neural!ChunkAt(v3) /\ v5' = v5 + 1 /\ v1' = v1 /\ v3' = v3 /\ v4' = v4
    BY <1>4 DEF Neural!Top
  <2>2. v5 <= v3 /\ v3 \in 0 .. v4 BY <2>1
  <2>3. v6' \in 0 .. v4 BY <2>1, <2>2, <1>a
  <2>4. QED BY <2>1, <2>2, <2>3
<1>5. ASSUME Neural!LeaveLoop PROVE Goal
  BY <1>5 DEF Neural!LeaveLoop, Neural!Raise
<1>6. ASSUME Neural!Extract PROVE Goal
  BY <1>6 DEF Neural!Extract
<1>7. ASSUME Neural!AwaitPrefetch PROVE Goal
  BY <1>7 DEF Neural!AwaitPrefetch
<1>8. ASSUME Neural!RejectGpuFrames PROVE Goal
  BY <1>8 DEF Neural!RejectGpuFrames, Neural!Got
<1>9. ASSUME Neural!AcceptChunk PROVE Goal
  BY <1>9 DEF Neural!AcceptChunk, Neural!Got, Neural!StartNeural
<1>10. ASSUME Neural!AcceptEnd PROVE Goal
  <2>1. /\ v2 = "check" /\ v7[v5].count \in 1 .. (v6 - 1) /\ ~v12
        /\ v6' = v7[v5].count /\ v4' = v3 + v7[v5].count
        /\ v1' = v1 /\ v3' = v3 /\ v5' = v5
    BY <1>10 DEF Neural!AcceptEnd, Neural!StartNeural, Neural!Got
  <2>2. Neural!Truthful(v7[v5], v3, v6, v12) /\ v3 + v6 <= v4 BY <2>1
  <2>3. v3 + v7[v5].count = v1.real BY <2>1, <2>2 DEF Neural!Truthful
  <2>4. QED BY <2>1, <2>2, <2>3
<1>11. ASSUME Neural!RejectChunk PROVE Goal
  BY <1>11 DEF Neural!RejectChunk, Neural!Raise
<1>12. ASSUME Neural!Process PROVE Goal
  BY <1>12 DEF Neural!Process
<1>13. ASSUME Neural!Retry PROVE Goal
  BY <1>13 DEF Neural!Retry
<1>14. ASSUME Neural!GiveUp PROVE Goal
  BY <1>14 DEF Neural!GiveUp, Neural!Raise
<1>15. ASSUME Neural!Collect PROVE Goal
  BY <1>15 DEF Neural!Collect
<1>16. ASSUME Neural!CollectNothing PROVE Goal
  BY <1>16 DEF Neural!CollectNothing
<1>17. ASSUME Neural!PackBehind PROVE Goal
  BY <1>17 DEF Neural!PackBehind, Neural!InBackground
<1>18. ASSUME Neural!PackNow PROVE Goal
  BY <1>18 DEF Neural!PackNow, Neural!InBackground
<1>19. ASSUME Neural!Break PROVE Goal
  BY <1>19 DEF Neural!Break, Neural!Raise
<1>20. ASSUME Neural!SeeCancel PROVE Goal
  BY <1>20 DEF Neural!SeeCancel, Neural!Raise
<1>21. ASSUME Neural!Finally PROVE Goal
  BY <1>21 DEF Neural!Finally
<1>22. ASSUME Neural!JoinChunks PROVE Goal
  BY <1>22 DEF Neural!JoinChunks
<1>23. QED BY ONLY Neural!Next, <1>1, <1>2, <1>3, <1>4, <1>5, <1>6, <1>7, <1>8, <1>9, <1>10,
    <1>11, <1>12, <1>13, <1>14, <1>15, <1>16, <1>17, <1>18, <1>19, <1>20, <1>21, <1>22 DEF
    Neural!Next

(* Every action keeps the shape of the loop, its directories and its segments.*)
LEMMA NeuralShape ==
    ASSUME Neural!Inv, Neural!Next
    PROVE  Neural!Shape'
<1>a. \A o \in 0 .. v4 : Neural!ChunkAt(o) \in 0 .. v4 - o BY NeuralChunkAt
<1>b. Neural!Indexes = 1 .. MaxFrames + 1 /\ MaxFrames \in Nat BY NeuralNumbers
<1>c. \A o \in Nat, n \in Nat \ {0}, cuda \in BOOLEAN : \A f \in Neural!Extracted(o, n, cuda) :
        f.count \in 0 .. n /\ f = [from |-> o, count |-> f.count]
  BY NeuralExtracts
<1>1. v7' \in [Neural!Indexes -> [from: 0..MaxFrames, count: 0..MaxFrames]]
  <2> DEFINE F == [from: 0..MaxFrames, count: 0..MaxFrames]
  <2>a. v7 \in [Neural!Indexes -> F] /\ Neural!NoFrames \in F
    BY <1>b DEF Neural!Inv, Neural!Shape, Neural!NoFrames
  <2>b. \A o \in 0 .. v4, n \in Nat \ {0}, cuda \in BOOLEAN : o + n <= v4 =>
          \A f \in Neural!Extracted(o, n, cuda) : f \in F
    <3> SUFFICES ASSUME NEW o \in 0 .. v4, NEW n \in Nat \ {0}, NEW cuda \in BOOLEAN, o + n <= v4,
                        NEW f \in Neural!Extracted(o, n, cuda)
                 PROVE  f \in F
      OBVIOUS
    <3>1. v4 \in Nat /\ v4 <= MaxFrames BY NeuralNumbers
    <3>2. f.count \in 0 .. n /\ f = [from |-> o, count |-> f.count] BY <1>c, <3>1
    <3>3. o \in 0 .. MaxFrames /\ f.count \in 0 .. MaxFrames BY <3>1, <3>2, <1>b
    <3>4. QED BY <3>2, <3>3
  <2> HIDE DEF F
  <2> USE <2>a DEF Neural!place, Neural!worker, Neural!tasks
  <2> DEFINE FS == [Neural!Indexes -> F]
  <2>c. v7' \in FS
    <3>1. ASSUME Neural!PrefetchEnds PROVE v7' \in FS
    <4>1. v7' = v7 \/ \E f \in Neural!Extracted(v8.from, v8.count, v8.gpu) : v7' = [v7 EXCEPT ![v8.chunk] = f]
      BY <3>1 DEF Neural!PrefetchEnds
    <4>2. v8.state # "none" BY <3>1 DEF Neural!PrefetchEnds, Neural!Running
    <4>3. v8.from \in 0 .. v4 /\ v8.count \in Nat \ {0} /\ v8.gpu \in BOOLEAN /\ v8.from + v8.count <= v4
      BY <4>2, NeuralNumbers DEF Neural!Inv, Neural!Ahead
    <4>4. \A f \in Neural!Extracted(v8.from, v8.count, v8.gpu) : f \in F BY <4>3, <2>b
    <4>5. QED BY <4>1, <4>4
    <3>2. ASSUME Neural!PackEnds PROVE v7' \in FS
      BY <3>2 DEF Neural!PackEnds, Neural!Running
    <3>3. ASSUME Neural!Cancel PROVE v7' \in FS
      BY <3>3 DEF Neural!Cancel
    <3>4. ASSUME Neural!Top PROVE v7' \in FS
      BY <3>4 DEF Neural!Top, Neural!Prefetched
    <3>5. ASSUME Neural!LeaveLoop PROVE v7' \in FS
      BY <3>5 DEF Neural!LeaveLoop, Neural!Raise
    <3>6. ASSUME Neural!Extract PROVE v7' \in FS
    <4>1. v7' = v7 \/ \E f \in Neural!Extracted(v3, v6, v11) : v7' = [v7 EXCEPT ![v5] = f]
      BY <3>6 DEF Neural!Extract
    <4>3. v3 \in 0 .. v4 /\ v6 \in Nat \ {0} /\ v11 \in BOOLEAN /\ v3 + v6 <= v4
      BY <3>6, NeuralNumbers DEF Neural!Inv, Neural!Shape, Neural!Course, Neural!Extract, Neural!InChunk
    <4>4. \A f \in Neural!Extracted(v3, v6, v11) : f \in F BY <4>3, <2>b
    <4>5. QED BY <4>1, <4>4
    <3>7. ASSUME Neural!AwaitPrefetch PROVE v7' \in FS
      BY <3>7 DEF Neural!AwaitPrefetch
    <3>8. ASSUME Neural!RejectGpuFrames PROVE v7' \in FS
      BY <3>8 DEF Neural!RejectGpuFrames, Neural!Got
    <3>9. ASSUME Neural!AcceptChunk PROVE v7' \in FS
      BY <3>9 DEF Neural!AcceptChunk, Neural!Got, Neural!StartNeural
    <3>10. ASSUME Neural!AcceptEnd PROVE v7' \in FS
      BY <3>10 DEF Neural!AcceptEnd, Neural!Got, Neural!Last, Neural!StartNeural
    <3>11. ASSUME Neural!RejectChunk PROVE v7' \in FS
      BY <3>11 DEF Neural!RejectChunk, Neural!Raise
    <3>12. ASSUME Neural!Process PROVE v7' \in FS
      BY <3>12 DEF Neural!Process
    <3>13. ASSUME Neural!Retry PROVE v7' \in FS
      BY <3>13 DEF Neural!Retry
    <3>14. ASSUME Neural!GiveUp PROVE v7' \in FS
      BY <3>14 DEF Neural!GiveUp, Neural!Raise
    <3>15. ASSUME Neural!Collect PROVE v7' \in FS
      BY <3>15 DEF Neural!Collect
    <3>16. ASSUME Neural!CollectNothing PROVE v7' \in FS
      BY <3>16 DEF Neural!CollectNothing
    <3>17. ASSUME Neural!PackBehind PROVE v7' \in FS
      BY <3>17 DEF Neural!PackBehind, Neural!InBackground
    <3>18. ASSUME Neural!PackNow PROVE v7' \in FS
      BY <3>18 DEF Neural!PackNow, Neural!InBackground
    <3>19. ASSUME Neural!Break PROVE v7' \in FS
      BY <3>19 DEF Neural!Break, Neural!Raise
    <3>20. ASSUME Neural!SeeCancel PROVE v7' \in FS
      BY <3>20 DEF Neural!SeeCancel, Neural!Raise
    <3>21. ASSUME Neural!Finally PROVE v7' \in FS
      BY <3>21 DEF Neural!Finally
    <3>22. ASSUME Neural!JoinChunks PROVE v7' \in FS
    BY <3>22 DEF Neural!JoinChunks
    <3> HIDE DEF FS
    <3>23. QED BY ONLY Neural!Next, <3>1, <3>2, <3>3, <3>4, <3>5, <3>6, <3>7, <3>8, <3>9, <3>10,
        <3>11, <3>12, <3>13, <3>14, <3>15, <3>16, <3>17, <3>18, <3>19, <3>20, <3>21, <3>22 DEF
        Neural!Next
  <2>d. QED BY <2>c DEF FS, F
<1>2. {v8', v9'} \subseteq [state: {"none", "running", "ok", "failed", "gpufailed", "cancelled"},
                           chunk: 0..MaxFrames, from: 0..MaxFrames, count: 0..MaxFrames, gpu: BOOLEAN]
  <2> DEFINE T == [state: {"none", "running", "ok", "failed", "gpufailed", "cancelled"},
                   chunk: 0..MaxFrames, from: 0..MaxFrames, count: 0..MaxFrames, gpu: BOOLEAN]
  <2>a. v8 \in T /\ v9 \in T /\ Neural!NoTask \in T
    BY <1>b DEF Neural!Inv, Neural!Shape, Neural!NoTask
  <2>b. \A t \in T : \A s \in {"none", "running", "ok", "failed", "gpufailed", "cancelled"} : [t EXCEPT !.state = s] \in T
    OBVIOUS
  <2> HIDE DEF T
  <2> USE <2>a, <2>b DEF Neural!place, Neural!worker, Neural!tasks
  <2>c. v8' \in T /\ v9' \in T
    <3>1. ASSUME Neural!PrefetchEnds PROVE v8' \in T /\ v9' \in T
      BY <3>1 DEF Neural!PrefetchEnds, Neural!Running
    <3>2. ASSUME Neural!PackEnds PROVE v8' \in T /\ v9' \in T
      BY <3>2 DEF Neural!PackEnds, Neural!Running
    <3>3. ASSUME Neural!Cancel PROVE v8' \in T /\ v9' \in T
      BY <3>3 DEF Neural!Cancel
    <3>4. ASSUME Neural!Top PROVE v8' \in T /\ v9' \in T
      BY <3>4 DEF Neural!Top, Neural!Prefetched
    <3>5. ASSUME Neural!LeaveLoop PROVE v8' \in T /\ v9' \in T
      BY <3>5 DEF Neural!LeaveLoop, Neural!Raise
    <3>6. ASSUME Neural!Extract PROVE v8' \in T /\ v9' \in T
      BY <3>6 DEF Neural!Extract
    <3>7. ASSUME Neural!AwaitPrefetch PROVE v8' \in T /\ v9' \in T
      BY <3>7 DEF Neural!AwaitPrefetch
    <3>8. ASSUME Neural!RejectGpuFrames PROVE v8' \in T /\ v9' \in T
      BY <3>8 DEF Neural!RejectGpuFrames, Neural!Got
    <3>9. ASSUME Neural!AcceptChunk PROVE v8' \in T /\ v9' \in T
    <4> DEFINE t == [state |-> "running", chunk |-> v5 + 1, from |-> v3 + v6, count |-> Neural!ChunkAt(v3 + v6), gpu |-> v11]
    <4>1. v8' = v8 \/ (v3 + v6 < v4 /\ v8' = t)
      <5>1. v8' = IF v1.overlapExtract /\ v3 + v6 < v4 /\ Neural!ChunkAt(v3 + v6) > 0
                  THEN t ELSE v8
        BY ONLY <3>9 DEF Neural!AcceptChunk
      <5> HIDE DEF t
      <5>2. QED BY ONLY <5>1
    <4>2. v9' = v9 BY <3>9 DEF Neural!AcceptChunk, Neural!StartNeural
    <4>3. /\ v3 \in Nat /\ v4 \in Nat /\ v6 \in Nat \ {0} /\ v5 \in 1 .. v3 + 1 /\ v4 <= MaxFrames /\ v11 \in BOOLEAN
      BY <3>9, NeuralNumbers DEF Neural!Inv, Neural!Shape, Neural!Course, Neural!AcceptChunk,
          Neural!InChunk
    <4>4. ASSUME v3 + v6 < v4 PROVE t \in T
      <5>1. v3 + v6 \in 0 .. v4 /\ v5 + 1 \in 0 .. MaxFrames /\ v3 + v6 \in 0 .. MaxFrames
        BY <4>3, <4>4, <1>b
      <5>2. Neural!ChunkAt(v3 + v6) \in 0 .. MaxFrames BY <5>1, <4>3, <1>a, <1>b
      <5>3. QED BY <5>1, <5>2, <4>3 DEF T
    <4> HIDE DEF t
    <4>5. QED BY <4>1, <4>2, <4>4
    <3>10. ASSUME Neural!AcceptEnd PROVE v8' \in T /\ v9' \in T
      BY <3>10 DEF Neural!AcceptEnd, Neural!Got, Neural!Last, Neural!StartNeural
    <3>11. ASSUME Neural!RejectChunk PROVE v8' \in T /\ v9' \in T
      BY <3>11 DEF Neural!RejectChunk, Neural!Raise
    <3>12. ASSUME Neural!Process PROVE v8' \in T /\ v9' \in T
      BY <3>12 DEF Neural!Process
    <3>13. ASSUME Neural!Retry PROVE v8' \in T /\ v9' \in T
      BY <3>13 DEF Neural!Retry
    <3>14. ASSUME Neural!GiveUp PROVE v8' \in T /\ v9' \in T
      BY <3>14 DEF Neural!GiveUp, Neural!Raise
    <3>15. ASSUME Neural!Collect PROVE v8' \in T /\ v9' \in T
      BY <3>15 DEF Neural!Collect
    <3>16. ASSUME Neural!CollectNothing PROVE v8' \in T /\ v9' \in T
      BY <3>16 DEF Neural!CollectNothing
    <3>17. ASSUME Neural!PackBehind PROVE v8' \in T /\ v9' \in T
    <4> DEFINE t == [state |-> "running", chunk |-> v5, from |-> v3, count |-> v6, gpu |-> FALSE]
    <4>1. v9' = t /\ v8' = v8 BY <3>17 DEF Neural!PackBehind
    <4>2. v5 \in 0 .. MaxFrames /\ v3 \in 0 .. MaxFrames /\ v6 \in 0 .. MaxFrames
      BY ONLY Neural!Inv, NeuralNumbers DEF Neural!Inv, Neural!Shape, Neural!TypeOK
    <4>3. t \in T BY <4>2 DEF T
    <4>4. QED BY <4>1, <4>3
    <3>18. ASSUME Neural!PackNow PROVE v8' \in T /\ v9' \in T
      BY <3>18 DEF Neural!PackNow, Neural!InBackground
    <3>19. ASSUME Neural!Break PROVE v8' \in T /\ v9' \in T
      BY <3>19 DEF Neural!Break, Neural!Raise
    <3>20. ASSUME Neural!SeeCancel PROVE v8' \in T /\ v9' \in T
      BY <3>20 DEF Neural!SeeCancel, Neural!Raise
    <3>21. ASSUME Neural!Finally PROVE v8' \in T /\ v9' \in T
      BY <3>21 DEF Neural!Finally
    <3>22. ASSUME Neural!JoinChunks PROVE v8' \in T /\ v9' \in T
      BY <3>22 DEF Neural!JoinChunks
    <3>23. QED BY ONLY Neural!Next, <3>1, <3>2, <3>3, <3>4, <3>5, <3>6, <3>7, <3>8, <3>9, <3>10,
        <3>11, <3>12, <3>13, <3>14, <3>15, <3>16, <3>17, <3>18, <3>19, <3>20, <3>21, <3>22 DEF
        Neural!Next
  <2>d. QED BY <2>c DEF T
<1>3. v10' \in Seq(Neural!Segment)
  <2>a. v10 \in Seq(Neural!Segment) BY NeuralNumbers
  <2>b. ASSUME NEW i \in Neural!Indexes, NEW n \in Nat \ {0}, NEW s \in Neural!Segments(i, n)
        PROVE  Append(v10, s) \in Seq(Neural!Segment)
    <3>1. v7[i].from \in Nat /\ i \in Nat
      <4>1. MaxFrames \in Nat /\ i \in 1 .. MaxFrames + 1 /\ v7[i].from \in 0 .. MaxFrames
        BY ONLY Neural!Inv, i \in Neural!Indexes, NeuralNumbers
      <4>2. QED BY ONLY <4>1
    <3>2. s \in Neural!Segment BY <3>1 DEF Neural!Segments, Neural!Segment
    <3>3. QED BY <2>a, <3>2
  <2> USE <2>a DEF Neural!place, Neural!worker, Neural!tasks
  <2> DEFINE SS == Seq(Neural!Segment)
  <2>c. v10' \in SS
    <3>1. ASSUME Neural!PrefetchEnds PROVE v10' \in SS
      BY <3>1 DEF Neural!PrefetchEnds, Neural!Running
    <3>2. ASSUME Neural!PackEnds PROVE v10' \in SS
      BY <3>2 DEF Neural!PackEnds, Neural!Running
    <3>3. ASSUME Neural!Cancel PROVE v10' \in SS
      BY <3>3 DEF Neural!Cancel
    <3>4. ASSUME Neural!Top PROVE v10' \in SS
      BY <3>4 DEF Neural!Top, Neural!Prefetched
    <3>5. ASSUME Neural!LeaveLoop PROVE v10' \in SS
      BY <3>5 DEF Neural!LeaveLoop, Neural!Raise
    <3>6. ASSUME Neural!Extract PROVE v10' \in SS
      BY <3>6 DEF Neural!Extract
    <3>7. ASSUME Neural!AwaitPrefetch PROVE v10' \in SS
      BY <3>7 DEF Neural!AwaitPrefetch
    <3>8. ASSUME Neural!RejectGpuFrames PROVE v10' \in SS
      BY <3>8 DEF Neural!RejectGpuFrames, Neural!Got
    <3>9. ASSUME Neural!AcceptChunk PROVE v10' \in SS
      BY <3>9 DEF Neural!AcceptChunk, Neural!Got, Neural!StartNeural
    <3>10. ASSUME Neural!AcceptEnd PROVE v10' \in SS
      BY <3>10 DEF Neural!AcceptEnd, Neural!Got, Neural!Last, Neural!StartNeural
    <3>11. ASSUME Neural!RejectChunk PROVE v10' \in SS
      BY <3>11 DEF Neural!RejectChunk, Neural!Raise
    <3>12. ASSUME Neural!Process PROVE v10' \in SS
      BY <3>12 DEF Neural!Process
    <3>13. ASSUME Neural!Retry PROVE v10' \in SS
      BY <3>13 DEF Neural!Retry
    <3>14. ASSUME Neural!GiveUp PROVE v10' \in SS
      BY <3>14 DEF Neural!GiveUp, Neural!Raise
    <3>15. ASSUME Neural!Collect PROVE v10' \in SS
    <4>1. v10' = v10 \/ (v9.state = "ok" /\ \E s \in Neural!Segments(v9.chunk, v9.count) : v10' = Append(v10, s))
      BY <3>15 DEF Neural!Collect
    <4>2. v9.state = "ok" => v9.chunk \in Neural!Indexes /\ v9.count \in Nat \ {0}
      BY NeuralNumbers DEF Neural!Inv, Neural!Behind
    <4>3. QED BY <4>1, <4>2, <2>b
    <3>16. ASSUME Neural!CollectNothing PROVE v10' \in SS
      BY <3>16 DEF Neural!CollectNothing
    <3>17. ASSUME Neural!PackBehind PROVE v10' \in SS
      BY <3>17 DEF Neural!PackBehind, Neural!InBackground
    <3>18. ASSUME Neural!PackNow PROVE v10' \in SS
    <4>1. \E s \in Neural!Segments(v5, v6) : v10' = Append(v10, s) BY <3>18 DEF Neural!PackNow
    <4>2. v5 \in Neural!Indexes /\ v6 \in Nat \ {0}
      <5>1. v2 = "merge" BY ONLY <3>18 DEF Neural!PackNow
      <5>2. /\ v6 >= 1 /\ v3 + v6 <= v4 /\ v5 \in 1 .. (v3 + 1)
            /\ v3 \in Nat /\ v4 \in Nat /\ v6 \in Nat /\ v3 <= v4 /\ v4 <= MaxFrames /\ MaxFrames \in Nat
        BY ONLY Neural!Inv, <5>1, NeuralNumbers DEF Neural!Inv, Neural!Course, Neural!InChunk
      <5>3. Neural!Indexes = 1 .. MaxFrames + 1 BY ONLY Neural!Inv, NeuralNumbers
      <5>4. QED BY ONLY <5>2, <5>3
    <4>3. QED BY <4>1, <4>2, <2>b
    <3>19. ASSUME Neural!Break PROVE v10' \in SS
      BY <3>19 DEF Neural!Break, Neural!Raise
    <3>20. ASSUME Neural!SeeCancel PROVE v10' \in SS
      BY <3>20 DEF Neural!SeeCancel, Neural!Raise
    <3>21. ASSUME Neural!Finally PROVE v10' \in SS
      BY <3>21 DEF Neural!Finally
    <3>22. ASSUME Neural!JoinChunks PROVE v10' \in SS
    BY <3>22 DEF Neural!JoinChunks
    <3> HIDE DEF SS
    <3>23. QED BY ONLY Neural!Next, <3>1, <3>2, <3>3, <3>4, <3>5, <3>6, <3>7, <3>8, <3>9, <3>10,
        <3>11, <3>12, <3>13, <3>14, <3>15, <3>16, <3>17, <3>18, <3>19, <3>20, <3>21, <3>22 DEF
        Neural!Next
  <2>d. QED BY <2>c DEF SS
<1>4. {v11', v12', v16'} \subseteq BOOLEAN
  <2> USE NeuralNumbers DEF Neural!Inv, Neural!Shape, Neural!place, Neural!worker, Neural!tasks
  <2>1. ASSUME Neural!PrefetchEnds PROVE {v11', v12', v16'} \subseteq BOOLEAN
    BY <2>1 DEF Neural!PrefetchEnds, Neural!Running
  <2>2. ASSUME Neural!PackEnds PROVE {v11', v12', v16'} \subseteq BOOLEAN
    BY <2>2 DEF Neural!PackEnds, Neural!Running
  <2>3. ASSUME Neural!Cancel PROVE {v11', v12', v16'} \subseteq BOOLEAN
    BY <2>3 DEF Neural!Cancel
  <2>4. ASSUME Neural!Top PROVE {v11', v12', v16'} \subseteq BOOLEAN
    BY <2>4 DEF Neural!Top, Neural!Prefetched
  <2>5. ASSUME Neural!LeaveLoop PROVE {v11', v12', v16'} \subseteq BOOLEAN
    BY <2>5 DEF Neural!LeaveLoop, Neural!Raise
  <2>6. ASSUME Neural!Extract PROVE {v11', v12', v16'} \subseteq BOOLEAN
    BY <2>6 DEF Neural!Extract
  <2>7. ASSUME Neural!AwaitPrefetch PROVE {v11', v12', v16'} \subseteq BOOLEAN
    BY <2>7 DEF Neural!AwaitPrefetch
  <2>8. ASSUME Neural!RejectGpuFrames PROVE {v11', v12', v16'} \subseteq BOOLEAN
    BY <2>8 DEF Neural!RejectGpuFrames, Neural!Got
  <2>9. ASSUME Neural!AcceptChunk PROVE {v11', v12', v16'} \subseteq BOOLEAN
    BY <2>9 DEF Neural!AcceptChunk, Neural!Got, Neural!StartNeural
  <2>10. ASSUME Neural!AcceptEnd PROVE {v11', v12', v16'} \subseteq BOOLEAN
    BY <2>10 DEF Neural!AcceptEnd, Neural!Got, Neural!Last, Neural!StartNeural
  <2>11. ASSUME Neural!RejectChunk PROVE {v11', v12', v16'} \subseteq BOOLEAN
    BY <2>11 DEF Neural!RejectChunk, Neural!Raise
  <2>12. ASSUME Neural!Process PROVE {v11', v12', v16'} \subseteq BOOLEAN
    BY <2>12 DEF Neural!Process
  <2>13. ASSUME Neural!Retry PROVE {v11', v12', v16'} \subseteq BOOLEAN
    BY <2>13 DEF Neural!Retry
  <2>14. ASSUME Neural!GiveUp PROVE {v11', v12', v16'} \subseteq BOOLEAN
    BY <2>14 DEF Neural!GiveUp, Neural!Raise
  <2>15. ASSUME Neural!Collect PROVE {v11', v12', v16'} \subseteq BOOLEAN
    BY <2>15 DEF Neural!Collect
  <2>16. ASSUME Neural!CollectNothing PROVE {v11', v12', v16'} \subseteq BOOLEAN
    BY <2>16 DEF Neural!CollectNothing
  <2>17. ASSUME Neural!PackBehind PROVE {v11', v12', v16'} \subseteq BOOLEAN
    BY <2>17 DEF Neural!PackBehind, Neural!InBackground
  <2>18. ASSUME Neural!PackNow PROVE {v11', v12', v16'} \subseteq BOOLEAN
    BY <2>18 DEF Neural!PackNow, Neural!InBackground
  <2>19. ASSUME Neural!Break PROVE {v11', v12', v16'} \subseteq BOOLEAN
    BY <2>19 DEF Neural!Break, Neural!Raise
  <2>20. ASSUME Neural!SeeCancel PROVE {v11', v12', v16'} \subseteq BOOLEAN
    BY <2>20 DEF Neural!SeeCancel, Neural!Raise
  <2>21. ASSUME Neural!Finally PROVE {v11', v12', v16'} \subseteq BOOLEAN
    BY <2>21 DEF Neural!Finally
  <2>22. ASSUME Neural!JoinChunks PROVE {v11', v12', v16'} \subseteq BOOLEAN
    BY <2>22 DEF Neural!JoinChunks
  <2>23. QED BY ONLY Neural!Next, <2>1, <2>2, <2>3, <2>4, <2>5, <2>6, <2>7, <2>8, <2>9, <2>10,
      <2>11, <2>12, <2>13, <2>14, <2>15, <2>16, <2>17, <2>18, <2>19, <2>20, <2>21, <2>22 DEF
      Neural!Next
<1>5. /\ v2' \in {"top", "extract", "await", "check", "neural", "collect", "merge", "finally", "join", "over"}
      /\ v17' \in {"running", "joined", "failed", "cancelled"}
  <2> USE DEF Neural!Inv, Neural!Shape, Neural!TypeOK, Neural!place, Neural!worker, Neural!tasks
  <2> DEFINE G == /\ v2' \in {"top", "extract", "await", "check", "neural", "collect", "merge", "finally", "join", "over"}
                  /\ v17' \in {"running", "joined", "failed", "cancelled"}
  <2>1. ASSUME Neural!PrefetchEnds PROVE G
    BY <2>1 DEF Neural!PrefetchEnds, Neural!Running
  <2>2. ASSUME Neural!PackEnds PROVE G
    BY <2>2 DEF Neural!PackEnds, Neural!Running
  <2>3. ASSUME Neural!Cancel PROVE G
    BY <2>3 DEF Neural!Cancel
  <2>4. ASSUME Neural!Top PROVE G
    BY <2>4 DEF Neural!Top, Neural!Prefetched
  <2>5. ASSUME Neural!LeaveLoop PROVE G
    BY <2>5 DEF Neural!LeaveLoop, Neural!Raise
  <2>6. ASSUME Neural!Extract PROVE G
    BY <2>6 DEF Neural!Extract
  <2>7. ASSUME Neural!AwaitPrefetch PROVE G
    BY <2>7 DEF Neural!AwaitPrefetch
  <2>8. ASSUME Neural!RejectGpuFrames PROVE G
    BY <2>8 DEF Neural!RejectGpuFrames, Neural!Got
  <2>9. ASSUME Neural!AcceptChunk PROVE G
    BY <2>9 DEF Neural!AcceptChunk, Neural!Got, Neural!StartNeural
  <2>10. ASSUME Neural!AcceptEnd PROVE G
    BY <2>10 DEF Neural!AcceptEnd, Neural!Got, Neural!Last, Neural!StartNeural
  <2>11. ASSUME Neural!RejectChunk PROVE G
    BY <2>11 DEF Neural!RejectChunk, Neural!Raise
  <2>12. ASSUME Neural!Process PROVE G
    BY <2>12 DEF Neural!Process
  <2>13. ASSUME Neural!Retry PROVE G
    BY <2>13 DEF Neural!Retry
  <2>14. ASSUME Neural!GiveUp PROVE G
    BY <2>14 DEF Neural!GiveUp, Neural!Raise
  <2>15. ASSUME Neural!Collect PROVE G
    BY <2>15 DEF Neural!Collect
  <2>16. ASSUME Neural!CollectNothing PROVE G
    BY <2>16 DEF Neural!CollectNothing
  <2>17. ASSUME Neural!PackBehind PROVE G
    BY <2>17 DEF Neural!PackBehind, Neural!InBackground
  <2>18. ASSUME Neural!PackNow PROVE G
    BY <2>18 DEF Neural!PackNow, Neural!InBackground
  <2>19. ASSUME Neural!Break PROVE G
    BY <2>19 DEF Neural!Break, Neural!Raise
  <2>20. ASSUME Neural!SeeCancel PROVE G
    BY <2>20 DEF Neural!SeeCancel, Neural!Raise
  <2>21. ASSUME Neural!Finally PROVE G
    BY <2>21 DEF Neural!Finally
  <2>22. ASSUME Neural!JoinChunks PROVE G
    BY <2>22 DEF Neural!JoinChunks
  <2>23. QED BY ONLY Neural!Next, <2>1, <2>2, <2>3, <2>4, <2>5, <2>6, <2>7, <2>8, <2>9, <2>10,
      <2>11, <2>12, <2>13, <2>14, <2>15, <2>16, <2>17, <2>18, <2>19, <2>20, <2>21, <2>22 DEF
      Neural!Next
<1>6. v13' \in Neural!Policies /\ v15' \in Neural!Policies /\ v14' \subseteq Neural!Policies
  <2>a. v13 \in Neural!Policies /\ v15 \in Neural!Policies /\ v14 \subseteq Neural!Policies
    BY DEF Neural!Inv, Neural!Shape, Neural!TypeOK
  <2> USE <2>a DEF Neural!place, Neural!worker, Neural!tasks
  <2> DEFINE G == v13' \in Neural!Policies /\ v15' \in Neural!Policies /\ v14' \subseteq Neural!Policies
  <2>1. ASSUME Neural!PrefetchEnds PROVE G
    BY <2>1 DEF Neural!PrefetchEnds, Neural!Running
  <2>2. ASSUME Neural!PackEnds PROVE G
    BY <2>2 DEF Neural!PackEnds, Neural!Running
  <2>3. ASSUME Neural!Cancel PROVE G
    BY <2>3 DEF Neural!Cancel
  <2>4. ASSUME Neural!Top PROVE G
    BY <2>4 DEF Neural!Top, Neural!Prefetched
  <2>5. ASSUME Neural!LeaveLoop PROVE G
    BY <2>5 DEF Neural!LeaveLoop, Neural!Raise
  <2>6. ASSUME Neural!Extract PROVE G
    BY <2>6 DEF Neural!Extract
  <2>7. ASSUME Neural!AwaitPrefetch PROVE G
    BY <2>7 DEF Neural!AwaitPrefetch
  <2>8. ASSUME Neural!RejectGpuFrames PROVE G
    BY <2>8 DEF Neural!RejectGpuFrames, Neural!Got
  <2>9. ASSUME Neural!AcceptChunk PROVE G
    BY <2>9 DEF Neural!AcceptChunk, Neural!Got, Neural!StartNeural
  <2>10. ASSUME Neural!AcceptEnd PROVE G
    BY <2>10 DEF Neural!AcceptEnd, Neural!Got, Neural!Last, Neural!StartNeural
  <2>11. ASSUME Neural!RejectChunk PROVE G
    BY <2>11 DEF Neural!RejectChunk, Neural!Raise
  <2>12. ASSUME Neural!Process PROVE G
    BY <2>12 DEF Neural!Process
  <2>13. ASSUME Neural!Retry PROVE G
    BY <2>13 DEF Neural!Retry, Neural!Milder, Neural!Policies
  <2>14. ASSUME Neural!GiveUp PROVE G
    BY <2>14 DEF Neural!GiveUp, Neural!Raise
  <2>15. ASSUME Neural!Collect PROVE G
    BY <2>15 DEF Neural!Collect
  <2>16. ASSUME Neural!CollectNothing PROVE G
    BY <2>16 DEF Neural!CollectNothing
  <2>17. ASSUME Neural!PackBehind PROVE G
    BY <2>17 DEF Neural!PackBehind, Neural!InBackground
  <2>18. ASSUME Neural!PackNow PROVE G
    BY <2>18 DEF Neural!PackNow, Neural!InBackground
  <2>19. ASSUME Neural!Break PROVE G
    BY <2>19 DEF Neural!Break, Neural!Raise
  <2>20. ASSUME Neural!SeeCancel PROVE G
    BY <2>20 DEF Neural!SeeCancel, Neural!Raise
  <2>21. ASSUME Neural!Finally PROVE G
    BY <2>21 DEF Neural!Finally
  <2>22. ASSUME Neural!JoinChunks PROVE G
    BY <2>22 DEF Neural!JoinChunks
  <2>23. QED BY ONLY Neural!Next, <2>1, <2>2, <2>3, <2>4, <2>5, <2>6, <2>7, <2>8, <2>9, <2>10,
      <2>11, <2>12, <2>13, <2>14, <2>15, <2>16, <2>17, <2>18, <2>19, <2>20, <2>21, <2>22 DEF
      Neural!Next
<1>7. v9'.state \in {"none", "running", "ok", "failed", "cancelled"}
  <2>a. v9.state \in {"none", "running", "ok", "failed", "cancelled"} /\ v9 \in [state: {"none", "running", "ok", "failed", "gpufailed", "cancelled"},
                           chunk: 0..MaxFrames, from: 0..MaxFrames, count: 0..MaxFrames, gpu: BOOLEAN]
    BY DEF Neural!Inv, Neural!Shape, Neural!TypeOK
  <2> USE <2>a DEF Neural!place, Neural!worker, Neural!tasks, Neural!NoTask
  <2>1. ASSUME Neural!PrefetchEnds PROVE v9'.state \in {"none", "running", "ok", "failed", "cancelled"}
    BY <2>1 DEF Neural!PrefetchEnds, Neural!Running
  <2>2. ASSUME Neural!PackEnds PROVE v9'.state \in {"none", "running", "ok", "failed", "cancelled"}
    BY <2>2 DEF Neural!PackEnds, Neural!Running
  <2>3. ASSUME Neural!Cancel PROVE v9'.state \in {"none", "running", "ok", "failed", "cancelled"}
    BY <2>3 DEF Neural!Cancel
  <2>4. ASSUME Neural!Top PROVE v9'.state \in {"none", "running", "ok", "failed", "cancelled"}
    BY <2>4 DEF Neural!Top, Neural!Prefetched
  <2>5. ASSUME Neural!LeaveLoop PROVE v9'.state \in {"none", "running", "ok", "failed", "cancelled"}
    BY <2>5 DEF Neural!LeaveLoop, Neural!Raise
  <2>6. ASSUME Neural!Extract PROVE v9'.state \in {"none", "running", "ok", "failed", "cancelled"}
    BY <2>6 DEF Neural!Extract
  <2>7. ASSUME Neural!AwaitPrefetch PROVE v9'.state \in {"none", "running", "ok", "failed", "cancelled"}
    BY <2>7 DEF Neural!AwaitPrefetch
  <2>8. ASSUME Neural!RejectGpuFrames PROVE v9'.state \in {"none", "running", "ok", "failed", "cancelled"}
    BY <2>8 DEF Neural!RejectGpuFrames, Neural!Got
  <2>9. ASSUME Neural!AcceptChunk PROVE v9'.state \in {"none", "running", "ok", "failed", "cancelled"}
    BY <2>9 DEF Neural!AcceptChunk, Neural!Got, Neural!StartNeural
  <2>10. ASSUME Neural!AcceptEnd PROVE v9'.state \in {"none", "running", "ok", "failed", "cancelled"}
    BY <2>10 DEF Neural!AcceptEnd, Neural!Got, Neural!Last, Neural!StartNeural
  <2>11. ASSUME Neural!RejectChunk PROVE v9'.state \in {"none", "running", "ok", "failed", "cancelled"}
    BY <2>11 DEF Neural!RejectChunk, Neural!Raise
  <2>12. ASSUME Neural!Process PROVE v9'.state \in {"none", "running", "ok", "failed", "cancelled"}
    BY <2>12 DEF Neural!Process
  <2>13. ASSUME Neural!Retry PROVE v9'.state \in {"none", "running", "ok", "failed", "cancelled"}
    BY <2>13 DEF Neural!Retry
  <2>14. ASSUME Neural!GiveUp PROVE v9'.state \in {"none", "running", "ok", "failed", "cancelled"}
    BY <2>14 DEF Neural!GiveUp, Neural!Raise
  <2>15. ASSUME Neural!Collect PROVE v9'.state \in {"none", "running", "ok", "failed", "cancelled"}
    BY <2>15 DEF Neural!Collect
  <2>16. ASSUME Neural!CollectNothing PROVE v9'.state \in {"none", "running", "ok", "failed", "cancelled"}
    BY <2>16 DEF Neural!CollectNothing
  <2>17. ASSUME Neural!PackBehind PROVE v9'.state \in {"none", "running", "ok", "failed", "cancelled"}
    BY <2>17 DEF Neural!PackBehind, Neural!InBackground
  <2>18. ASSUME Neural!PackNow PROVE v9'.state \in {"none", "running", "ok", "failed", "cancelled"}
    BY <2>18 DEF Neural!PackNow, Neural!InBackground
  <2>19. ASSUME Neural!Break PROVE v9'.state \in {"none", "running", "ok", "failed", "cancelled"}
    BY <2>19 DEF Neural!Break, Neural!Raise
  <2>20. ASSUME Neural!SeeCancel PROVE v9'.state \in {"none", "running", "ok", "failed", "cancelled"}
    BY <2>20 DEF Neural!SeeCancel, Neural!Raise
  <2>21. ASSUME Neural!Finally PROVE v9'.state \in {"none", "running", "ok", "failed", "cancelled"}
    BY <2>21 DEF Neural!Finally
  <2>22. ASSUME Neural!JoinChunks PROVE v9'.state \in {"none", "running", "ok", "failed", "cancelled"}
    BY <2>22 DEF Neural!JoinChunks
  <2>23. QED BY ONLY Neural!Next, <2>1, <2>2, <2>3, <2>4, <2>5, <2>6, <2>7, <2>8, <2>9, <2>10,
      <2>11, <2>12, <2>13, <2>14, <2>15, <2>16, <2>17, <2>18, <2>19, <2>20, <2>21, <2>22 DEF
      Neural!Next
<1>8. Neural!TypeOK'
  <2>1. v1' \in ChunkJobs BY NeuralPlaces DEF Neural!Inv, Neural!Shape, Neural!TypeOK
  <2>2. v3' \in 0 .. v4' /\ v4' \in 0 .. v1'.nominal /\ v5' \in 0 .. MaxFrames /\ v6' \in 0 .. v1'.nominal
    BY NeuralPlaces
  <2>3. \A i \in Neural!Indexes : v7'[i].from \in 0 .. MaxFrames /\ v7'[i].count \in 0 .. MaxFrames
    BY <1>1
  <2>4. v8'.state \in {"none", "running", "ok", "failed", "gpufailed", "cancelled"} BY <1>2
  <2>5. QED BY <1>5, <1>6, <1>7, <2>1, <2>2, <2>3, <2>4 DEF Neural!TypeOK, Neural!Indexes
<1>9. QED BY <1>1, <1>2, <1>3, <1>4, <1>8 DEF Neural!Shape, Neural!Indexes

(* A record of frames is determined by its two fields.                       *)
LEMMA NeuralRecord ==
    ASSUME NEW f \in [from: 0..MaxFrames, count: 0..MaxFrames], NEW a, NEW b, f.from = a, f.count = b
    PROVE  f = [from |-> a, count |-> b]
OBVIOUS

(* The chunk in work is the next one of the clip; once checked, its frames   *)
(* are all there and truthful.                                               *)
LEMMA NeuralCourse ==
    ASSUME Neural!Inv, Neural!Next
    PROVE  Neural!Course'
<1>0. /\ v3 \in Nat /\ v4 \in Nat /\ v5 \in Nat /\ v6 \in Nat /\ v3 <= v4 /\ v1.real \in Nat
      /\ v8.chunk \in Nat /\ v8.from \in Nat /\ v8.count \in Nat /\ v9.chunk \in Nat /\ v9.from \in Nat /\ v9.count \in Nat
  <2>1. \A k \in 0 .. MaxFrames : k \in Nat BY NeuralNumbers
  <2>2. v3 \in Nat /\ v4 \in Nat /\ v5 \in Nat /\ v6 \in Nat /\ v3 <= v4 /\ v1.real \in Nat
    BY NeuralNumbers, <2>1
  <2>3. v8.chunk \in Nat /\ v8.from \in Nat /\ v8.count \in Nat BY NeuralNumbers, <2>1
  <2>4. v9.chunk \in Nat /\ v9.from \in Nat /\ v9.count \in Nat BY NeuralNumbers, <2>1
  <2>5. QED BY <2>2, <2>3, <2>4
<1>p. v1' = v1 BY NeuralPlaces
<1>a. \A o \in 0 .. v4 : Neural!ChunkAt(o) \in 0 .. v4 - o BY NeuralChunkAt
<1>b. /\ (v17 = "running" <=> v2 # "over") /\ (v2 = "join" => v3 = v4) /\ v3 <= v1.real
      /\ v2 = "top" => v5 <= v3
      /\ v2 \in {"extract", "await", "check", "neural", "collect", "merge"} =>
           v6 >= 1 /\ v3 + v6 <= v4 /\ v5 \in 1 .. v3 + 1
      /\ v2 = "await" => v8.state # "none"
      /\ v2 = "check" => Neural!Truthful(v7[v5], v3, v6, v12)
      /\ v2 \in {"neural", "collect", "merge"} => v3 + v6 <= v1.real /\ v7[v5] = [from |-> v3, count |-> v6]
  BY DEF Neural!Inv, Neural!Course, Neural!InChunk
<1>c. v8.state # "none" =>
        /\ v2 \notin {"extract", "check", "join", "over"} /\ v8.count >= 1 /\ v8.chunk >= 1
        /\ v2 = "top" => v8.chunk = v5 + 1 /\ v8.from = v3
        /\ v2 = "await" => v8.chunk = v5 /\ v8.from = v3 /\ v8.count = v6
        /\ v2 \in {"neural", "collect", "merge"} => v8.chunk = v5 + 1 /\ v8.from = v3 + v6
        /\ v8.state = "ok" => Neural!Truthful(v7[v8.chunk], v8.from, v8.count, v8.gpu)
  BY DEF Neural!Inv, Neural!Ahead
<1>d. v9.state # "none" => /\ v2 \notin {"merge", "join", "over"}
                           /\ v2 \in {"extract", "await", "check", "neural", "collect", "merge"} => v9.chunk = v5 - 1
  BY DEF Neural!Inv, Neural!Behind, Neural!InChunk
<1>e. /\ v7 \in [Neural!Indexes -> [from: 0..MaxFrames, count: 0..MaxFrames]]
      /\ Neural!Indexes = 1 .. MaxFrames + 1 /\ MaxFrames \in Nat /\ v5 <= MaxFrames /\ v8.chunk <= MaxFrames
      /\ v12 \in BOOLEAN /\ v11 \in BOOLEAN /\ v8.gpu \in BOOLEAN
  BY NeuralNumbers DEF Neural!Inv, Neural!Shape
<1>1. (v17' = "running" <=> v2' # "over") /\ (v2' = "join" => v3' = v4')
  <2> USE <1>b DEF Neural!place, Neural!worker, Neural!tasks
  <2> DEFINE G == (v17' = "running" <=> v2' # "over") /\ (v2' = "join" => v3' = v4')
  <2>1. ASSUME Neural!PrefetchEnds PROVE G
    BY <2>1 DEF Neural!PrefetchEnds, Neural!Running
  <2>2. ASSUME Neural!PackEnds PROVE G
    BY <2>2 DEF Neural!PackEnds, Neural!Running
  <2>3. ASSUME Neural!Cancel PROVE G
    BY <2>3 DEF Neural!Cancel
  <2>4. ASSUME Neural!Top PROVE G
    BY <2>4 DEF Neural!Top, Neural!Prefetched
  <2>5. ASSUME Neural!LeaveLoop PROVE G
    BY <2>5 DEF Neural!LeaveLoop, Neural!Raise
  <2>6. ASSUME Neural!Extract PROVE G
    BY <2>6 DEF Neural!Extract
  <2>7. ASSUME Neural!AwaitPrefetch PROVE G
    BY <2>7 DEF Neural!AwaitPrefetch
  <2>8. ASSUME Neural!RejectGpuFrames PROVE G
    BY <2>8 DEF Neural!RejectGpuFrames, Neural!Got
  <2>9. ASSUME Neural!AcceptChunk PROVE G
    BY <2>9 DEF Neural!AcceptChunk, Neural!Got, Neural!StartNeural
  <2>10. ASSUME Neural!AcceptEnd PROVE G
    BY <2>10 DEF Neural!AcceptEnd, Neural!Got, Neural!Last, Neural!StartNeural
  <2>11. ASSUME Neural!RejectChunk PROVE G
    BY <2>11 DEF Neural!RejectChunk, Neural!Raise
  <2>12. ASSUME Neural!Process PROVE G
    BY <2>12 DEF Neural!Process
  <2>13. ASSUME Neural!Retry PROVE G
    BY <2>13 DEF Neural!Retry
  <2>14. ASSUME Neural!GiveUp PROVE G
    BY <2>14 DEF Neural!GiveUp, Neural!Raise
  <2>15. ASSUME Neural!Collect PROVE G
    BY <2>15 DEF Neural!Collect
  <2>16. ASSUME Neural!CollectNothing PROVE G
    BY <2>16 DEF Neural!CollectNothing
  <2>17. ASSUME Neural!PackBehind PROVE G
    BY <2>17 DEF Neural!PackBehind, Neural!InBackground
  <2>18. ASSUME Neural!PackNow PROVE G
    BY <2>18 DEF Neural!PackNow, Neural!InBackground
  <2>19. ASSUME Neural!Break PROVE G
    BY <2>19 DEF Neural!Break, Neural!Raise
  <2>20. ASSUME Neural!SeeCancel PROVE G
    BY <2>20 DEF Neural!SeeCancel, Neural!Raise
  <2>21. ASSUME Neural!Finally PROVE G
    BY <2>21 DEF Neural!Finally
  <2>22. ASSUME Neural!JoinChunks PROVE G
    BY <2>22 DEF Neural!JoinChunks
  <2>23. QED BY ONLY Neural!Next, <2>1, <2>2, <2>3, <2>4, <2>5, <2>6, <2>7, <2>8, <2>9, <2>10,
      <2>11, <2>12, <2>13, <2>14, <2>15, <2>16, <2>17, <2>18, <2>19, <2>20, <2>21, <2>22 DEF
      Neural!Next
<1>2. v4' \in {v1.nominal, v1.real}
  BY NeuralPlaces DEF Neural!Inv, Neural!Course
<1>3. /\ v3' <= v1.real
      /\ v2' = "top" => v5' <= v3'
      /\ v2' \in {"extract", "await", "check", "neural", "collect", "merge"} =>
           v6' >= 1 /\ v3' + v6' <= v4' /\ v5' \in 1 .. v3' + 1
  <2> DEFINE G == /\ v3' <= v1.real
                  /\ v2' = "top" => v5' <= v3'
                  /\ v2' \in {"extract", "await", "check", "neural", "collect", "merge"} =>
                       v6' >= 1 /\ v3' + v6' <= v4' /\ v5' \in 1 .. v3' + 1
  <2>a. Neural!ChunkAt(v3) \in 0 .. v4 - v3 BY <1>0, <1>a
  <2> USE <1>0, <1>b DEF Neural!place, Neural!worker, Neural!tasks
  <2>1. ASSUME Neural!PrefetchEnds PROVE G
    BY <2>1 DEF Neural!PrefetchEnds, Neural!Running
  <2>2. ASSUME Neural!PackEnds PROVE G
    BY <2>2 DEF Neural!PackEnds, Neural!Running
  <2>3. ASSUME Neural!Cancel PROVE G
    BY <2>3 DEF Neural!Cancel
  <2>4. ASSUME Neural!Top PROVE G
    <3>1. v2 = "top" /\ v6' = Neural!ChunkAt(v3) /\ v6' > 0 /\ v5' = v5 + 1 /\ v3' = v3 /\ v4' = v4 /\ v2' # "top"
      BY <2>4 DEF Neural!Top
    <3>2. v6' >= 1 /\ v3' + v6' <= v4' BY <3>1, <2>a
    <3>3. QED BY <3>1, <3>2
  <2>5. ASSUME Neural!LeaveLoop PROVE G
    BY <2>5 DEF Neural!LeaveLoop, Neural!Raise
  <2>6. ASSUME Neural!Extract PROVE G
    BY <2>6 DEF Neural!Extract
  <2>7. ASSUME Neural!AwaitPrefetch PROVE G
    BY <2>7 DEF Neural!AwaitPrefetch
  <2>8. ASSUME Neural!RejectGpuFrames PROVE G
    BY <2>8 DEF Neural!RejectGpuFrames, Neural!Got
  <2>9. ASSUME Neural!AcceptChunk PROVE G
    BY <2>9 DEF Neural!AcceptChunk, Neural!Got, Neural!StartNeural
  <2>10. ASSUME Neural!AcceptEnd PROVE G
    BY <2>10 DEF Neural!AcceptEnd, Neural!Got, Neural!Last, Neural!StartNeural
  <2>11. ASSUME Neural!RejectChunk PROVE G
    BY <2>11 DEF Neural!RejectChunk, Neural!Raise
  <2>12. ASSUME Neural!Process PROVE G
    BY <2>12 DEF Neural!Process
  <2>13. ASSUME Neural!Retry PROVE G
    BY <2>13 DEF Neural!Retry
  <2>14. ASSUME Neural!GiveUp PROVE G
    BY <2>14 DEF Neural!GiveUp, Neural!Raise
  <2>15. ASSUME Neural!Collect PROVE G
    BY <2>15 DEF Neural!Collect
  <2>16. ASSUME Neural!CollectNothing PROVE G
    BY <2>16 DEF Neural!CollectNothing
  <2>17. ASSUME Neural!PackBehind PROVE G
    BY <2>17 DEF Neural!PackBehind, Neural!InBackground
  <2>18. ASSUME Neural!PackNow PROVE G
    BY <2>18 DEF Neural!PackNow, Neural!InBackground
  <2>19. ASSUME Neural!Break PROVE G
    BY <2>19 DEF Neural!Break, Neural!Raise
  <2>20. ASSUME Neural!SeeCancel PROVE G
    BY <2>20 DEF Neural!SeeCancel, Neural!Raise
  <2>21. ASSUME Neural!Finally PROVE G
    BY <2>21 DEF Neural!Finally
  <2>22. ASSUME Neural!JoinChunks PROVE G
    BY <2>22 DEF Neural!JoinChunks
  <2>23. QED BY ONLY Neural!Next, <2>1, <2>2, <2>3, <2>4, <2>5, <2>6, <2>7, <2>8, <2>9, <2>10,
      <2>11, <2>12, <2>13, <2>14, <2>15, <2>16, <2>17, <2>18, <2>19, <2>20, <2>21, <2>22 DEF
      Neural!Next
<1>4. v2' = "await" => v8'.state # "none"
  <2> USE <1>b, <1>c DEF Neural!place, Neural!worker, Neural!tasks
  <2>1. ASSUME Neural!PrefetchEnds PROVE (v2' = "await" => v8'.state # "none")
    <3>1. \A s : [v8 EXCEPT !.state = s].state = s BY DEF Neural!Inv, Neural!Shape
    <3>2. v8' = [v8 EXCEPT !.state = v8'.state] /\ v8'.state # "none"
      <4>1. \E s : s # "none" /\ v8' = [v8 EXCEPT !.state = s] BY <2>1 DEF Neural!PrefetchEnds
      <4>2. QED BY <3>1, <4>1
    <3>3. QED BY <3>2
  <2>2. ASSUME Neural!PackEnds PROVE (v2' = "await" => v8'.state # "none")
    BY <2>2 DEF Neural!PackEnds, Neural!Running
  <2>3. ASSUME Neural!Cancel PROVE (v2' = "await" => v8'.state # "none")
    BY <2>3 DEF Neural!Cancel
  <2>4. ASSUME Neural!Top PROVE (v2' = "await" => v8'.state # "none")
    BY <2>4 DEF Neural!Top, Neural!Prefetched
  <2>5. ASSUME Neural!LeaveLoop PROVE (v2' = "await" => v8'.state # "none")
    BY <2>5 DEF Neural!LeaveLoop, Neural!Raise
  <2>6. ASSUME Neural!Extract PROVE (v2' = "await" => v8'.state # "none")
    BY <2>6 DEF Neural!Extract
  <2>7. ASSUME Neural!AwaitPrefetch PROVE (v2' = "await" => v8'.state # "none")
    BY <2>7 DEF Neural!AwaitPrefetch
  <2>8. ASSUME Neural!RejectGpuFrames PROVE (v2' = "await" => v8'.state # "none")
    BY <2>8 DEF Neural!RejectGpuFrames, Neural!Got
  <2>9. ASSUME Neural!AcceptChunk PROVE (v2' = "await" => v8'.state # "none")
    BY <2>9 DEF Neural!AcceptChunk, Neural!Got, Neural!StartNeural
  <2>10. ASSUME Neural!AcceptEnd PROVE (v2' = "await" => v8'.state # "none")
    BY <2>10 DEF Neural!AcceptEnd, Neural!Got, Neural!Last, Neural!StartNeural
  <2>11. ASSUME Neural!RejectChunk PROVE (v2' = "await" => v8'.state # "none")
    BY <2>11 DEF Neural!RejectChunk, Neural!Raise
  <2>12. ASSUME Neural!Process PROVE (v2' = "await" => v8'.state # "none")
    BY <2>12 DEF Neural!Process
  <2>13. ASSUME Neural!Retry PROVE (v2' = "await" => v8'.state # "none")
    BY <2>13 DEF Neural!Retry
  <2>14. ASSUME Neural!GiveUp PROVE (v2' = "await" => v8'.state # "none")
    BY <2>14 DEF Neural!GiveUp, Neural!Raise
  <2>15. ASSUME Neural!Collect PROVE (v2' = "await" => v8'.state # "none")
    BY <2>15 DEF Neural!Collect
  <2>16. ASSUME Neural!CollectNothing PROVE (v2' = "await" => v8'.state # "none")
    BY <2>16 DEF Neural!CollectNothing
  <2>17. ASSUME Neural!PackBehind PROVE (v2' = "await" => v8'.state # "none")
    BY <2>17 DEF Neural!PackBehind, Neural!InBackground
  <2>18. ASSUME Neural!PackNow PROVE (v2' = "await" => v8'.state # "none")
    BY <2>18 DEF Neural!PackNow, Neural!InBackground
  <2>19. ASSUME Neural!Break PROVE (v2' = "await" => v8'.state # "none")
    BY <2>19 DEF Neural!Break, Neural!Raise
  <2>20. ASSUME Neural!SeeCancel PROVE (v2' = "await" => v8'.state # "none")
    BY <2>20 DEF Neural!SeeCancel, Neural!Raise
  <2>21. ASSUME Neural!Finally PROVE (v2' = "await" => v8'.state # "none")
    BY <2>21 DEF Neural!Finally
  <2>22. ASSUME Neural!JoinChunks PROVE (v2' = "await" => v8'.state # "none")
    BY <2>22 DEF Neural!JoinChunks
  <2>23. QED BY ONLY Neural!Next, <2>1, <2>2, <2>3, <2>4, <2>5, <2>6, <2>7, <2>8, <2>9, <2>10,
      <2>11, <2>12, <2>13, <2>14, <2>15, <2>16, <2>17, <2>18, <2>19, <2>20, <2>21, <2>22 DEF
      Neural!Next
<1>5. v2' = "check" => Neural!Truthful(v7[v5], v3, v6, v12)'
  <2>a. ASSUME v7' = v7, v5' = v5, v3' = v3, v6' = v6, v12' = v12
        PROVE  Neural!Truthful(v7[v5], v3, v6, v12)' = Neural!Truthful(v7[v5], v3, v6, v12)
    BY <2>a, <1>p DEF Neural!Truthful
  <2> USE <1>b, <2>a DEF Neural!place, Neural!worker, Neural!tasks
  <2>1. ASSUME Neural!PrefetchEnds PROVE (v2' = "check" => Neural!Truthful(v7[v5], v3, v6, v12)')
    <3>1. v8.state # "none" /\ v2' = v2 BY <2>1 DEF Neural!PrefetchEnds, Neural!Running
    <3>2. QED BY <3>1, <1>c
  <2>2. ASSUME Neural!PackEnds PROVE (v2' = "check" => Neural!Truthful(v7[v5], v3, v6, v12)')
    BY <2>2 DEF Neural!PackEnds, Neural!Running
  <2>3. ASSUME Neural!Cancel PROVE (v2' = "check" => Neural!Truthful(v7[v5], v3, v6, v12)')
    BY <2>3 DEF Neural!Cancel
  <2>4. ASSUME Neural!Top PROVE (v2' = "check" => Neural!Truthful(v7[v5], v3, v6, v12)')
    BY <2>4 DEF Neural!Top, Neural!Prefetched
  <2>5. ASSUME Neural!LeaveLoop PROVE (v2' = "check" => Neural!Truthful(v7[v5], v3, v6, v12)')
    BY <2>5 DEF Neural!LeaveLoop, Neural!Raise
  <2>6. ASSUME Neural!Extract PROVE (v2' = "check" => Neural!Truthful(v7[v5], v3, v6, v12)')
    <3> SUFFICES ASSUME v2' = "check" PROVE Neural!Truthful(v7[v5], v3, v6, v12)'
      OBVIOUS
    <3>1. /\ v2 = "extract" /\ v12' = v11 /\ v5' = v5 /\ v3' = v3 /\ v6' = v6
          /\ \E f \in Neural!Extracted(v3, v6, v11) : v7' = [v7 EXCEPT ![v5] = f]
      BY <2>6 DEF Neural!Extract
    <3>2. PICK f \in Neural!Extracted(v3, v6, v11) : v7' = [v7 EXCEPT ![v5] = f] BY <3>1
    <3>3. Neural!Truthful(f, v3, v6, v11)
      <4>1. v3 \in Nat /\ v6 \in Nat \ {0} /\ v11 \in BOOLEAN BY <3>1, <1>0, <1>e
      <4>2. QED BY ONLY Neural!Inv, <4>1, f \in Neural!Extracted(v3, v6, v11), NeuralExtracts
    <3>4. v7'[v5] = f BY <3>1, <3>2, <1>e
    <3>5. QED BY <3>1, <3>3, <3>4, <1>p DEF Neural!Truthful
  <2>7. ASSUME Neural!AwaitPrefetch PROVE (v2' = "check" => Neural!Truthful(v7[v5], v3, v6, v12)')
    <3> SUFFICES ASSUME v2' = "check" PROVE Neural!Truthful(v7[v5], v3, v6, v12)'
      OBVIOUS
    <3>1. /\ v2 = "await" /\ v8.state = "ok" /\ v12' = v8.gpu /\ v5' = v5 /\ v3' = v3 /\ v6' = v6 /\ v7' = v7
      BY <2>7 DEF Neural!AwaitPrefetch
    <3>2. Neural!Truthful(v7[v5], v3, v6, v8.gpu) BY <3>1, <1>c
    <3>3. QED BY <3>1, <3>2, <1>p DEF Neural!Truthful
  <2>8. ASSUME Neural!RejectGpuFrames PROVE (v2' = "check" => Neural!Truthful(v7[v5], v3, v6, v12)')
    BY <2>8 DEF Neural!RejectGpuFrames, Neural!Got
  <2>9. ASSUME Neural!AcceptChunk PROVE (v2' = "check" => Neural!Truthful(v7[v5], v3, v6, v12)')
    BY <2>9 DEF Neural!AcceptChunk, Neural!Got, Neural!StartNeural
  <2>10. ASSUME Neural!AcceptEnd PROVE (v2' = "check" => Neural!Truthful(v7[v5], v3, v6, v12)')
    BY <2>10 DEF Neural!AcceptEnd, Neural!Got, Neural!Last, Neural!StartNeural
  <2>11. ASSUME Neural!RejectChunk PROVE (v2' = "check" => Neural!Truthful(v7[v5], v3, v6, v12)')
    BY <2>11 DEF Neural!RejectChunk, Neural!Raise
  <2>12. ASSUME Neural!Process PROVE (v2' = "check" => Neural!Truthful(v7[v5], v3, v6, v12)')
    BY <2>12 DEF Neural!Process
  <2>13. ASSUME Neural!Retry PROVE (v2' = "check" => Neural!Truthful(v7[v5], v3, v6, v12)')
    BY <2>13 DEF Neural!Retry
  <2>14. ASSUME Neural!GiveUp PROVE (v2' = "check" => Neural!Truthful(v7[v5], v3, v6, v12)')
    BY <2>14 DEF Neural!GiveUp, Neural!Raise
  <2>15. ASSUME Neural!Collect PROVE (v2' = "check" => Neural!Truthful(v7[v5], v3, v6, v12)')
    BY <2>15 DEF Neural!Collect
  <2>16. ASSUME Neural!CollectNothing PROVE (v2' = "check" => Neural!Truthful(v7[v5], v3, v6, v12)')
    BY <2>16 DEF Neural!CollectNothing
  <2>17. ASSUME Neural!PackBehind PROVE (v2' = "check" => Neural!Truthful(v7[v5], v3, v6, v12)')
    BY <2>17 DEF Neural!PackBehind, Neural!InBackground
  <2>18. ASSUME Neural!PackNow PROVE (v2' = "check" => Neural!Truthful(v7[v5], v3, v6, v12)')
    BY <2>18 DEF Neural!PackNow, Neural!InBackground
  <2>19. ASSUME Neural!Break PROVE (v2' = "check" => Neural!Truthful(v7[v5], v3, v6, v12)')
    BY <2>19 DEF Neural!Break, Neural!Raise
  <2>20. ASSUME Neural!SeeCancel PROVE (v2' = "check" => Neural!Truthful(v7[v5], v3, v6, v12)')
    BY <2>20 DEF Neural!SeeCancel, Neural!Raise
  <2>21. ASSUME Neural!Finally PROVE (v2' = "check" => Neural!Truthful(v7[v5], v3, v6, v12)')
    BY <2>21 DEF Neural!Finally
  <2>22. ASSUME Neural!JoinChunks PROVE (v2' = "check" => Neural!Truthful(v7[v5], v3, v6, v12)')
    BY <2>22 DEF Neural!JoinChunks
  <2>23. QED BY ONLY Neural!Next, <2>1, <2>2, <2>3, <2>4, <2>5, <2>6, <2>7, <2>8, <2>9, <2>10,
      <2>11, <2>12, <2>13, <2>14, <2>15, <2>16, <2>17, <2>18, <2>19, <2>20, <2>21, <2>22 DEF
      Neural!Next
<1>6. v2' \in {"neural", "collect", "merge"} => v3' + v6' <= v1.real /\ v7'[v5'] = [from |-> v3', count |-> v6']
  <2> DEFINE G == v2' \in {"neural", "collect", "merge"} => v3' + v6' <= v1.real /\ v7'[v5'] = [from |-> v3', count |-> v6']
  <2> USE <1>0, <1>b DEF Neural!place, Neural!worker, Neural!tasks
  <2>1. ASSUME Neural!PrefetchEnds PROVE G
    <3>1. v7' = v7 \/ \E f : v7' = [v7 EXCEPT ![v8.chunk] = f] BY <2>1 DEF Neural!PrefetchEnds
    <3>2. v8.state # "none" /\ v2' = v2 /\ v3' = v3 /\ v5' = v5 /\ v6' = v6
      BY <2>1 DEF Neural!PrefetchEnds, Neural!Running
    <3>3. v2 \in {"neural", "collect", "merge"} => v5 # v8.chunk BY <3>2, <1>c
    <3>4. ASSUME v2 \in {"neural", "collect", "merge"} PROVE v7'[v5] = v7[v5]
      <4>1. v5 \in Neural!Indexes /\ v5 # v8.chunk BY <3>3, <3>4, <1>e
      <4>2. \A f : [v7 EXCEPT ![v8.chunk] = f][v5] = v7[v5] BY <4>1, <1>e
      <4>3. QED BY <3>1, <4>2
    <3>5. QED BY <3>2, <3>4
  <2>2. ASSUME Neural!PackEnds PROVE G
    BY <2>2 DEF Neural!PackEnds, Neural!Running
  <2>3. ASSUME Neural!Cancel PROVE G
    BY <2>3 DEF Neural!Cancel
  <2>4. ASSUME Neural!Top PROVE G
    BY <2>4 DEF Neural!Top, Neural!Prefetched
  <2>5. ASSUME Neural!LeaveLoop PROVE G
    BY <2>5 DEF Neural!LeaveLoop, Neural!Raise
  <2>6. ASSUME Neural!Extract PROVE G
    BY <2>6 DEF Neural!Extract
  <2>7. ASSUME Neural!AwaitPrefetch PROVE G
    BY <2>7 DEF Neural!AwaitPrefetch
  <2>8. ASSUME Neural!RejectGpuFrames PROVE G
    BY <2>8 DEF Neural!RejectGpuFrames, Neural!Got
  <2>9. ASSUME Neural!AcceptChunk PROVE G
    <3>1. v2 = "check" /\ v7[v5].count = v6 /\ v7' = v7 /\ v5' = v5 /\ v3' = v3 /\ v6' = v6
      BY <2>9 DEF Neural!AcceptChunk, Neural!Got, Neural!StartNeural
    <3>2. v7[v5].from = v3 /\ v3 + v6 <= v1.real BY <3>1, <1>b DEF Neural!Truthful
    <3>3. v7[v5] \in [from: 0..MaxFrames, count: 0..MaxFrames] BY <3>1, <1>e
    <3>4. QED BY <3>1, <3>2, <3>3, NeuralRecord
  <2>10. ASSUME Neural!AcceptEnd PROVE G
    <3>1. v2 = "check" /\ v7[v5].count \in 1 .. (v6 - 1) /\ ~v12 /\ v7' = v7 /\ v5' = v5 /\ v3' = v3 /\ v6' = v7[v5].count
      BY <2>10 DEF Neural!AcceptEnd, Neural!Got, Neural!StartNeural
    <3>2. v7[v5].from = v3 /\ v3 + v6' = v1.real BY <3>1, <1>b DEF Neural!Truthful
    <3>3. v7[v5] \in [from: 0..MaxFrames, count: 0..MaxFrames] BY <3>1, <1>e
    <3>4. QED BY <3>1, <3>2, <3>3, NeuralRecord
  <2>11. ASSUME Neural!RejectChunk PROVE G
    BY <2>11 DEF Neural!RejectChunk, Neural!Raise
  <2>12. ASSUME Neural!Process PROVE G
    BY <2>12 DEF Neural!Process
  <2>13. ASSUME Neural!Retry PROVE G
    BY <2>13 DEF Neural!Retry
  <2>14. ASSUME Neural!GiveUp PROVE G
    BY <2>14 DEF Neural!GiveUp, Neural!Raise
  <2>15. ASSUME Neural!Collect PROVE G
    <3>1. v7' = v7 \/ (v9.state = "ok" /\ \E f : v7' = [v7 EXCEPT ![v9.chunk] = f])
      BY <2>15 DEF Neural!Collect
    <3>2. v2 = "collect" /\ v3' = v3 /\ v5' = v5 /\ v6' = v6 BY <2>15 DEF Neural!Collect
    <3>3. v9.state = "ok" => v5 # v9.chunk BY <3>2, <1>d
    <3>4. v7'[v5] = v7[v5] BY <3>1, <3>2, <3>3, <1>e
    <3>5. QED BY <3>2, <3>4
  <2>16. ASSUME Neural!CollectNothing PROVE G
    BY <2>16 DEF Neural!CollectNothing
  <2>17. ASSUME Neural!PackBehind PROVE G
    BY <2>17 DEF Neural!PackBehind, Neural!InBackground
  <2>18. ASSUME Neural!PackNow PROVE G
    BY <2>18 DEF Neural!PackNow, Neural!InBackground
  <2>19. ASSUME Neural!Break PROVE G
    BY <2>19 DEF Neural!Break, Neural!Raise
  <2>20. ASSUME Neural!SeeCancel PROVE G
    BY <2>20 DEF Neural!SeeCancel, Neural!Raise
  <2>21. ASSUME Neural!Finally PROVE G
    BY <2>21 DEF Neural!Finally
  <2>22. ASSUME Neural!JoinChunks PROVE G
    BY <2>22 DEF Neural!JoinChunks
  <2>23. QED BY ONLY Neural!Next, <2>1, <2>2, <2>3, <2>4, <2>5, <2>6, <2>7, <2>8, <2>9, <2>10,
      <2>11, <2>12, <2>13, <2>14, <2>15, <2>16, <2>17, <2>18, <2>19, <2>20, <2>21, <2>22 DEF
      Neural!Next
<1>7. QED BY <1>p, <1>1, <1>2, <1>3, <1>4, <1>5, <1>6 DEF Neural!Course, Neural!InChunk

(* What the end of the prefetch changes.                                     *)
LEMMA NeuralPrefetchEnds ==
    ASSUME Neural!Inv, Neural!PrefetchEnds
    PROVE  /\ v8.state = "running" /\ v8'.state # "none" /\ v8'.chunk = v8.chunk /\ v8'.from = v8.from
           /\ v8'.count = v8.count /\ v8'.gpu = v8.gpu
           /\ v2' = v2 /\ v3' = v3 /\ v4' = v4 /\ v5' = v5 /\ v6' = v6
           /\ \/ v7' = v7 /\ v8'.state # "ok"
              \/ v8'.state = "ok" /\ \E f \in Neural!Extracted(v8.from, v8.count, v8.gpu) : v7' = [v7 EXCEPT ![v8.chunk] = f]
<1>g. \A s : /\ [v8 EXCEPT !.state = s].state = s /\ [v8 EXCEPT !.state = s].chunk = v8.chunk
             /\ [v8 EXCEPT !.state = s].from = v8.from /\ [v8 EXCEPT !.state = s].count = v8.count
             /\ [v8 EXCEPT !.state = s].gpu = v8.gpu
  BY DEF Neural!Inv, Neural!Shape
<1>1. /\ v8.state = "running" /\ v2' = v2 /\ v3' = v3 /\ v4' = v4 /\ v5' = v5 /\ v6' = v6
  BY DEF Neural!PrefetchEnds, Neural!Running, Neural!place
<1>2. \/ v8' = [v8 EXCEPT !.state = "ok"] /\ \E f \in Neural!Extracted(v8.from, v8.count, v8.gpu) : v7' = [v7 EXCEPT ![v8.chunk] = f]
      \/ v7' = v7 /\ \E s : s # "none" /\ s # "ok" /\ v8' = [v8 EXCEPT !.state = s]
  <2>1. CASE v8' = [v8 EXCEPT !.state = "ok"] /\ \E f \in Neural!Extracted(v8.from, v8.count, v8.gpu) : v7' = [v7 EXCEPT ![v8.chunk] = f]
    BY <2>1
  <2>2. CASE /\ \E s \in (IF "run" \in ChunkFaults THEN {"failed"} ELSE {})
                           \cup (IF v8.gpu /\ "gpu" \in ChunkFaults THEN {"gpufailed"} ELSE {}) :
                 v8' = [v8 EXCEPT !.state = s]
             /\ v7' = v7
    <3>1. PICK s \in (IF "run" \in ChunkFaults THEN {"failed"} ELSE {})
                     \cup (IF v8.gpu /\ "gpu" \in ChunkFaults THEN {"gpufailed"} ELSE {}) :
                 v8' = [v8 EXCEPT !.state = s]
      BY <2>2
    <3>2. s # "none" /\ s # "ok" OBVIOUS
    <3>3. QED BY <2>2, <3>1, <3>2
  <2>3. CASE v8' = [v8 EXCEPT !.state = "cancelled"] /\ v7' = v7
    BY <2>3
  <2>4. QED BY <2>1, <2>2, <2>3 DEF Neural!PrefetchEnds
<1>3. CASE /\ v8' = [v8 EXCEPT !.state = "ok"]
           /\ \E f \in Neural!Extracted(v8.from, v8.count, v8.gpu) : v7' = [v7 EXCEPT ![v8.chunk] = f]
  <2>1. /\ v8'.state = "ok" /\ v8'.chunk = v8.chunk /\ v8'.from = v8.from
        /\ v8'.count = v8.count /\ v8'.gpu = v8.gpu
    BY ONLY <1>3, <1>g
  <2>2. QED BY ONLY <1>1, <1>3, <2>1
<1>4. CASE v7' = v7 /\ \E s : s # "none" /\ s # "ok" /\ v8' = [v8 EXCEPT !.state = s]
  <2>1. PICK s : s # "none" /\ s # "ok" /\ v8' = [v8 EXCEPT !.state = s] BY ONLY <1>4
  <2>2. /\ v8'.state = s /\ v8'.chunk = v8.chunk /\ v8'.from = v8.from
        /\ v8'.count = v8.count /\ v8'.gpu = v8.gpu
    BY ONLY <2>1, <1>g
  <2>3. QED BY ONLY <1>1, <1>4, <2>1, <2>2
<1>5. QED BY ONLY <1>2, <1>3, <1>4

(* What accepting a chunk's frames changes, and which prefetch it starts.    *)
LEMMA NeuralAcceptChunk ==
    ASSUME Neural!Inv, Neural!AcceptChunk
    PROVE  /\ v2 = "check" /\ v2' = "neural" /\ v3' = v3 /\ v4' = v4 /\ v5' = v5 /\ v6' = v6 /\ v7' = v7
           /\ v8'.state # "none" =>
                /\ v1.overlapExtract /\ v3 + v6 < v4 /\ Neural!ChunkAt(v3 + v6) > 0
                /\ v8'.state = "running" /\ v8'.chunk = v5 + 1 /\ v8'.from = v3 + v6 /\ v8'.count = Neural!ChunkAt(v3 + v6)
<1>1. /\ v2 = "check" /\ v2' = "neural" /\ v3' = v3 /\ v4' = v4 /\ v5' = v5 /\ v6' = v6 /\ v7' = v7
  BY DEF Neural!AcceptChunk, Neural!StartNeural
<1>2. v8' = IF v1.overlapExtract /\ v3 + v6 < v4 /\ Neural!ChunkAt(v3 + v6) > 0
            THEN [state |-> "running", chunk |-> v5 + 1, from |-> v3 + v6, count |-> Neural!ChunkAt(v3 + v6), gpu |-> v11]
            ELSE v8
  BY DEF Neural!AcceptChunk
<1>3. v8.state = "none" BY <1>1 DEF Neural!Inv, Neural!Ahead
<1>4. QED BY <1>1, <1>2, <1>3

(* The prefetch is of the very next chunk, and what it leaves is truthful.   *)
LEMMA NeuralAhead ==
    ASSUME Neural!Inv, Neural!Next
    PROVE  Neural!Ahead'
<1>0. /\ v3 \in Nat /\ v4 \in Nat /\ v5 \in Nat /\ v6 \in Nat /\ v3 <= v4 /\ v1.real \in Nat
      /\ v8.chunk \in Nat /\ v8.from \in Nat /\ v8.count \in Nat /\ v9.chunk \in Nat /\ v9.from \in Nat /\ v9.count \in Nat
  <2>1. \A k \in 0 .. MaxFrames : k \in Nat BY NeuralNumbers
  <2>2. v3 \in Nat /\ v4 \in Nat /\ v5 \in Nat /\ v6 \in Nat /\ v3 <= v4 /\ v1.real \in Nat
    BY NeuralNumbers, <2>1
  <2>3. v8.chunk \in Nat /\ v8.from \in Nat /\ v8.count \in Nat BY NeuralNumbers, <2>1
  <2>4. v9.chunk \in Nat /\ v9.from \in Nat /\ v9.count \in Nat BY NeuralNumbers, <2>1
  <2>5. QED BY <2>2, <2>3, <2>4
<1>p. v1' = v1 BY NeuralPlaces
<1>a. \A o \in 0 .. v4 : Neural!ChunkAt(o) \in 0 .. v4 - o BY NeuralChunkAt
<1>b. /\ (v17 = "running" <=> v2 # "over") /\ (v2 = "join" => v3 = v4) /\ v3 <= v1.real
      /\ v2 = "top" => v5 <= v3
      /\ v2 \in {"extract", "await", "check", "neural", "collect", "merge"} =>
           v6 >= 1 /\ v3 + v6 <= v4 /\ v5 \in 1 .. v3 + 1
      /\ v2 = "await" => v8.state # "none"
      /\ v2 = "check" => Neural!Truthful(v7[v5], v3, v6, v12)
      /\ v2 \in {"neural", "collect", "merge"} => v3 + v6 <= v1.real /\ v7[v5] = [from |-> v3, count |-> v6]
  BY DEF Neural!Inv, Neural!Course, Neural!InChunk
<1>c. v8.state # "none" =>
        /\ v2 \notin {"extract", "check", "join", "over"} /\ v8.count >= 1 /\ v8.chunk >= 1
        /\ v2 = "top" => v8.chunk = v5 + 1 /\ v8.from = v3
        /\ v2 = "await" => v8.chunk = v5 /\ v8.from = v3 /\ v8.count = v6
        /\ v2 \in {"neural", "collect", "merge"} => v8.chunk = v5 + 1 /\ v8.from = v3 + v6
        /\ v8.state = "ok" => Neural!Truthful(v7[v8.chunk], v8.from, v8.count, v8.gpu)
  BY DEF Neural!Inv, Neural!Ahead
<1>d. v9.state # "none" => /\ v2 \notin {"merge", "join", "over"}
                           /\ v2 \in {"extract", "await", "check", "neural", "collect", "merge"} => v9.chunk = v5 - 1
  BY DEF Neural!Inv, Neural!Behind, Neural!InChunk
<1>e. /\ v7 \in [Neural!Indexes -> [from: 0..MaxFrames, count: 0..MaxFrames]]
      /\ Neural!Indexes = 1 .. MaxFrames + 1 /\ MaxFrames \in Nat /\ v5 <= MaxFrames /\ v8.chunk <= MaxFrames
      /\ v12 \in BOOLEAN /\ v11 \in BOOLEAN /\ v8.gpu \in BOOLEAN
  BY NeuralNumbers DEF Neural!Inv, Neural!Shape
<1>f. v8.state # "none" =>
        /\ v1.overlapExtract /\ v3 <= v8.from /\ v8.from + v8.count <= v4
        /\ v8.count = Neural!ChunkAt(v8.from)
  BY DEF Neural!Inv, Neural!Ahead
<1>h. Neural!NoTask.state = "none" BY DEF Neural!NoTask
<1>i. ASSUME Neural!PrefetchEnds
      PROVE  /\ v8.state = "running" /\ v8'.state # "none" /\ v8'.chunk = v8.chunk /\ v8'.from = v8.from
             /\ v8'.count = v8.count /\ v8'.gpu = v8.gpu
             /\ v2' = v2 /\ v3' = v3 /\ v4' = v4 /\ v5' = v5 /\ v6' = v6
             /\ \/ v7' = v7 /\ v8'.state # "ok"
                \/ v8'.state = "ok" /\ \E f \in Neural!Extracted(v8.from, v8.count, v8.gpu) : v7' = [v7 EXCEPT ![v8.chunk] = f]
  BY <1>i, NeuralPrefetchEnds
<1>j. ASSUME Neural!AcceptChunk
      PROVE  /\ v2 = "check" /\ v2' = "neural" /\ v3' = v3 /\ v4' = v4 /\ v5' = v5 /\ v6' = v6 /\ v7' = v7
             /\ v8'.state # "none" =>
                  /\ v1.overlapExtract /\ v3 + v6 < v4 /\ Neural!ChunkAt(v3 + v6) > 0
                  /\ v8'.state = "running" /\ v8'.chunk = v5 + 1 /\ v8'.from = v3 + v6 /\ v8'.count = Neural!ChunkAt(v3 + v6)
  BY <1>j, NeuralAcceptChunk
<1>1. v8'.state # "none" =>
        /\ v1.overlapExtract /\ v2' \notin {"extract", "check", "join", "over"} /\ v8'.count >= 1 /\ v8'.chunk >= 1
        /\ v3' <= v8'.from /\ v8'.from + v8'.count <= v4' /\ v4' = v4
        /\ v2' = "top" => v8'.chunk = v5' + 1 /\ v8'.from = v3'
        /\ v2' = "await" => v8'.chunk = v5' /\ v8'.from = v3' /\ v8'.count = v6'
        /\ v2' \in {"neural", "collect", "merge"} => v8'.chunk = v5' + 1 /\ v8'.from = v3' + v6'
  <2> DEFINE G == v8'.state # "none" =>
        /\ v1.overlapExtract /\ v2' \notin {"extract", "check", "join", "over"} /\ v8'.count >= 1 /\ v8'.chunk >= 1
        /\ v3' <= v8'.from /\ v8'.from + v8'.count <= v4' /\ v4' = v4
        /\ v2' = "top" => v8'.chunk = v5' + 1 /\ v8'.from = v3'
        /\ v2' = "await" => v8'.chunk = v5' /\ v8'.from = v3' /\ v8'.count = v6'
        /\ v2' \in {"neural", "collect", "merge"} => v8'.chunk = v5' + 1 /\ v8'.from = v3' + v6'
  <2> USE <1>0, <1>b, <1>c, <1>f, <1>h DEF Neural!place, Neural!worker, Neural!tasks
  <2>1. ASSUME Neural!PrefetchEnds PROVE G
    BY <2>1, <1>i
  <2>2. ASSUME Neural!PackEnds PROVE G
    BY <2>2 DEF Neural!PackEnds, Neural!Running
  <2>3. ASSUME Neural!Cancel PROVE G
    BY <2>3 DEF Neural!Cancel
  <2>4. ASSUME Neural!Top PROVE G
    <3>1. /\ v2 = "top" /\ v3' = v3 /\ v4' = v4 /\ v5' = v5 + 1 /\ v6' = Neural!ChunkAt(v3) /\ v8' = v8
          /\ v2' = IF v8.state # "none" /\ v8.from = v3 /\ v8.count = v6' THEN "await" ELSE "extract"
      BY <2>4 DEF Neural!Top, Neural!Prefetched
    <3>2. QED BY <3>1
  <2>5. ASSUME Neural!LeaveLoop PROVE G
    BY <2>5 DEF Neural!LeaveLoop, Neural!Raise
  <2>6. ASSUME Neural!Extract PROVE G
    BY <2>6 DEF Neural!Extract
  <2>7. ASSUME Neural!AwaitPrefetch PROVE G
    BY <2>7 DEF Neural!AwaitPrefetch
  <2>8. ASSUME Neural!RejectGpuFrames PROVE G
    BY <2>8 DEF Neural!RejectGpuFrames, Neural!Got
  <2>9. ASSUME Neural!AcceptChunk PROVE G
    <3> SUFFICES ASSUME v8'.state # "none"
                 PROVE  /\ v1.overlapExtract /\ v8'.count >= 1 /\ v8'.chunk >= 1
                        /\ v3' <= v8'.from /\ v8'.from + v8'.count <= v4' /\ v4' = v4
                        /\ v2' = "neural" /\ v8'.chunk = v5' + 1 /\ v8'.from = v3' + v6'
      OBVIOUS
    <3>1. v3 + v6 \in 0 .. v4 BY <2>9, <1>j
    <3>2. Neural!ChunkAt(v3 + v6) \in 0 .. v4 - (v3 + v6) BY <3>1, <1>a
    <3>3. QED BY <2>9, <1>j, <3>2
  <2>10. ASSUME Neural!AcceptEnd PROVE G
    BY <2>10 DEF Neural!AcceptEnd, Neural!Got, Neural!Last, Neural!StartNeural
  <2>11. ASSUME Neural!RejectChunk PROVE G
    BY <2>11 DEF Neural!RejectChunk, Neural!Raise
  <2>12. ASSUME Neural!Process PROVE G
    BY <2>12 DEF Neural!Process
  <2>13. ASSUME Neural!Retry PROVE G
    BY <2>13 DEF Neural!Retry
  <2>14. ASSUME Neural!GiveUp PROVE G
    BY <2>14 DEF Neural!GiveUp, Neural!Raise
  <2>15. ASSUME Neural!Collect PROVE G
    BY <2>15 DEF Neural!Collect
  <2>16. ASSUME Neural!CollectNothing PROVE G
    BY <2>16 DEF Neural!CollectNothing
  <2>17. ASSUME Neural!PackBehind PROVE G
    BY <2>17 DEF Neural!PackBehind, Neural!InBackground
  <2>18. ASSUME Neural!PackNow PROVE G
    BY <2>18 DEF Neural!PackNow, Neural!InBackground
  <2>19. ASSUME Neural!Break PROVE G
    BY <2>19 DEF Neural!Break, Neural!Raise
  <2>20. ASSUME Neural!SeeCancel PROVE G
    BY <2>20 DEF Neural!SeeCancel, Neural!Raise
  <2>21. ASSUME Neural!Finally PROVE G
    BY <2>21 DEF Neural!Finally
  <2>22. ASSUME Neural!JoinChunks PROVE G
    BY <2>22 DEF Neural!JoinChunks
  <2>23. QED BY ONLY Neural!Next, <2>1, <2>2, <2>3, <2>4, <2>5, <2>6, <2>7, <2>8, <2>9, <2>10,
      <2>11, <2>12, <2>13, <2>14, <2>15, <2>16, <2>17, <2>18, <2>19, <2>20, <2>21, <2>22 DEF
      Neural!Next
<1>2. v8'.state # "none" => v8'.count = Neural!ChunkAt(v8.from)'
  <2> SUFFICES ASSUME v8'.state # "none" PROVE v8'.count = Neural!ChunkAt(v8.from)'
    OBVIOUS
  <2>a. Neural!ChunkAt(v8.from)' = Neural!ChunkAt(v8'.from) BY <1>1, <1>p, NeuralSameChunk
  <2> USE <1>c, <1>f, <1>h DEF Neural!place, Neural!worker, Neural!tasks
  <2>b. v8'.count = Neural!ChunkAt(v8'.from)
    <3>1. ASSUME Neural!PrefetchEnds PROVE v8'.count = Neural!ChunkAt(v8'.from)
    BY <3>1, <1>i
    <3>2. ASSUME Neural!PackEnds PROVE v8'.count = Neural!ChunkAt(v8'.from)
      BY <3>2 DEF Neural!PackEnds, Neural!Running
    <3>3. ASSUME Neural!Cancel PROVE v8'.count = Neural!ChunkAt(v8'.from)
      BY <3>3 DEF Neural!Cancel
    <3>4. ASSUME Neural!Top PROVE v8'.count = Neural!ChunkAt(v8'.from)
      BY <3>4 DEF Neural!Top, Neural!Prefetched
    <3>5. ASSUME Neural!LeaveLoop PROVE v8'.count = Neural!ChunkAt(v8'.from)
      BY <3>5 DEF Neural!LeaveLoop, Neural!Raise
    <3>6. ASSUME Neural!Extract PROVE v8'.count = Neural!ChunkAt(v8'.from)
      BY <3>6 DEF Neural!Extract
    <3>7. ASSUME Neural!AwaitPrefetch PROVE v8'.count = Neural!ChunkAt(v8'.from)
      BY <3>7 DEF Neural!AwaitPrefetch
    <3>8. ASSUME Neural!RejectGpuFrames PROVE v8'.count = Neural!ChunkAt(v8'.from)
      BY <3>8 DEF Neural!RejectGpuFrames, Neural!Got
    <3>9. ASSUME Neural!AcceptChunk PROVE v8'.count = Neural!ChunkAt(v8'.from)
    BY <3>9, <1>j
    <3>10. ASSUME Neural!AcceptEnd PROVE v8'.count = Neural!ChunkAt(v8'.from)
      BY <3>10 DEF Neural!AcceptEnd, Neural!Got, Neural!Last, Neural!StartNeural
    <3>11. ASSUME Neural!RejectChunk PROVE v8'.count = Neural!ChunkAt(v8'.from)
      BY <3>11 DEF Neural!RejectChunk, Neural!Raise
    <3>12. ASSUME Neural!Process PROVE v8'.count = Neural!ChunkAt(v8'.from)
      BY <3>12 DEF Neural!Process
    <3>13. ASSUME Neural!Retry PROVE v8'.count = Neural!ChunkAt(v8'.from)
      BY <3>13 DEF Neural!Retry
    <3>14. ASSUME Neural!GiveUp PROVE v8'.count = Neural!ChunkAt(v8'.from)
      BY <3>14 DEF Neural!GiveUp, Neural!Raise
    <3>15. ASSUME Neural!Collect PROVE v8'.count = Neural!ChunkAt(v8'.from)
      BY <3>15 DEF Neural!Collect
    <3>16. ASSUME Neural!CollectNothing PROVE v8'.count = Neural!ChunkAt(v8'.from)
      BY <3>16 DEF Neural!CollectNothing
    <3>17. ASSUME Neural!PackBehind PROVE v8'.count = Neural!ChunkAt(v8'.from)
      BY <3>17 DEF Neural!PackBehind, Neural!InBackground
    <3>18. ASSUME Neural!PackNow PROVE v8'.count = Neural!ChunkAt(v8'.from)
      BY <3>18 DEF Neural!PackNow, Neural!InBackground
    <3>19. ASSUME Neural!Break PROVE v8'.count = Neural!ChunkAt(v8'.from)
      BY <3>19 DEF Neural!Break, Neural!Raise
    <3>20. ASSUME Neural!SeeCancel PROVE v8'.count = Neural!ChunkAt(v8'.from)
      BY <3>20 DEF Neural!SeeCancel, Neural!Raise
    <3>21. ASSUME Neural!Finally PROVE v8'.count = Neural!ChunkAt(v8'.from)
      BY <3>21 DEF Neural!Finally
    <3>22. ASSUME Neural!JoinChunks PROVE v8'.count = Neural!ChunkAt(v8'.from)
      BY <3>22 DEF Neural!JoinChunks
    <3>23. QED BY ONLY Neural!Next, <3>1, <3>2, <3>3, <3>4, <3>5, <3>6, <3>7, <3>8, <3>9, <3>10,
        <3>11, <3>12, <3>13, <3>14, <3>15, <3>16, <3>17, <3>18, <3>19, <3>20, <3>21, <3>22 DEF
        Neural!Next
  <2>c. QED BY <2>a, <2>b
<1>3. v8'.state # "none" /\ v8'.state = "ok" => Neural!Truthful(v7[v8.chunk], v8.from, v8.count, v8.gpu)'
  <2> DEFINE G == v8'.state = "ok" => Neural!Truthful(v7[v8.chunk], v8.from, v8.count, v8.gpu)'
  <2>a. ASSUME v7'[v8.chunk] = v7[v8.chunk], v8' = v8 PROVE G
    <3> SUFFICES ASSUME v8'.state = "ok" PROVE Neural!Truthful(v7[v8.chunk], v8.from, v8.count, v8.gpu)'
      OBVIOUS
    <3>1. Neural!Truthful(v7[v8.chunk], v8.from, v8.count, v8.gpu) BY <2>a, <1>c
    <3>2. QED BY <3>1, <2>a, <1>p DEF Neural!Truthful
  <2>b. v8'.state # "ok" => G OBVIOUS
  <2>c. v7' = v7 /\ v8' = v8 => G BY <2>a
  <2>d. Neural!NoTask.state # "ok" BY <1>h
  <2> HIDE DEF G
  <2> USE <1>c, <2>b, <2>c, <2>d DEF Neural!place, Neural!worker, Neural!tasks
  <2>g. G
    <3>1. ASSUME Neural!PrefetchEnds PROVE G
    <4>1. CASE v7' = v7 /\ v8'.state # "ok" BY <4>1
    <4>2. CASE v8'.state = "ok" /\ \E f \in Neural!Extracted(v8.from, v8.count, v8.gpu) : v7' = [v7 EXCEPT ![v8.chunk] = f]
      <5>1. PICK f \in Neural!Extracted(v8.from, v8.count, v8.gpu) : v7' = [v7 EXCEPT ![v8.chunk] = f]
        BY <4>2
      <5>a. v8.state # "none" BY <3>1, <1>i
      <5>b. v8.count \in Nat \ {0} /\ v8.from \in Nat /\ v8.gpu \in BOOLEAN BY <5>a, <1>c, <1>0, <1>e
      <5>2. Neural!Truthful(f, v8.from, v8.count, v8.gpu) BY <5>b, NeuralExtracts
      <5>3. v8.chunk \in Neural!Indexes BY <5>a, <1>0, <1>c, <1>e
      <5>4. v7'[v8'.chunk] = f BY <5>1, <5>3, <1>e, <1>i, <3>1
      <5>5. QED BY <5>2, <5>4, <1>i, <3>1, <1>p DEF Neural!Truthful, G
    <4>3. QED BY <4>1, <4>2, <1>i, <3>1
    <3>2. ASSUME Neural!PackEnds PROVE G
      BY <3>2 DEF Neural!PackEnds, Neural!Running
    <3>3. ASSUME Neural!Cancel PROVE G
      BY <3>3 DEF Neural!Cancel
    <3>4. ASSUME Neural!Top PROVE G
      BY <3>4 DEF Neural!Top, Neural!Prefetched
    <3>5. ASSUME Neural!LeaveLoop PROVE G
      BY <3>5 DEF Neural!LeaveLoop, Neural!Raise
    <3>6. ASSUME Neural!Extract PROVE G
    <4>1. v2 = "extract" /\ v8' = v8 BY <3>6 DEF Neural!Extract
    <4>2. QED BY <4>1
    <3>7. ASSUME Neural!AwaitPrefetch PROVE G
      BY <3>7 DEF Neural!AwaitPrefetch
    <3>8. ASSUME Neural!RejectGpuFrames PROVE G
    <4>1. v2 = "check" /\ v8' = v8 BY <3>8 DEF Neural!RejectGpuFrames
    <4>2. QED BY <4>1
    <3>9. ASSUME Neural!AcceptChunk PROVE G
    BY <3>9, <1>j
    <3>10. ASSUME Neural!AcceptEnd PROVE G
      BY <3>10 DEF Neural!AcceptEnd, Neural!Got, Neural!Last, Neural!StartNeural
    <3>11. ASSUME Neural!RejectChunk PROVE G
      BY <3>11 DEF Neural!RejectChunk, Neural!Raise
    <3>12. ASSUME Neural!Process PROVE G
      BY <3>12 DEF Neural!Process
    <3>13. ASSUME Neural!Retry PROVE G
      BY <3>13 DEF Neural!Retry
    <3>14. ASSUME Neural!GiveUp PROVE G
      BY <3>14 DEF Neural!GiveUp, Neural!Raise
    <3>15. ASSUME Neural!Collect PROVE G
    <4>1. v8' = v8 /\ (v7' = v7 \/ (v9.state = "ok" /\ \E f : v7' = [v7 EXCEPT ![v9.chunk] = f]))
      BY <3>15 DEF Neural!Collect
    <4>2. CASE v7' = v7 BY <4>1, <4>2
    <4>3. CASE v8.state = "none" BY <4>1, <4>3
    <4>4. CASE v8.state # "none" /\ v9.state = "ok" /\ \E f : v7' = [v7 EXCEPT ![v9.chunk] = f]
      <5>1. v9.chunk # v8.chunk BY <4>4, <1>0 DEF Neural!Inv, Neural!Behind
      <5>2. v8.chunk \in Neural!Indexes BY <4>4, <1>0, <1>c, <1>e
      <5>3. v7'[v8.chunk] = v7[v8.chunk] BY <4>4, <5>1, <5>2, <1>e
      <5>4. QED BY <4>1, <5>3, <2>a
    <4>5. QED BY <4>1, <4>2, <4>3, <4>4
    <3>16. ASSUME Neural!CollectNothing PROVE G
      BY <3>16 DEF Neural!CollectNothing
    <3>17. ASSUME Neural!PackBehind PROVE G
    BY <3>17 DEF Neural!PackBehind
    <3>18. ASSUME Neural!PackNow PROVE G
    <4>1. v2 = "merge" /\ v8' = v8 /\ \E f : v7' = [v7 EXCEPT ![v5] = f] BY <3>18 DEF Neural!PackNow
    <4>3. CASE v8.state = "none" BY <4>1, <4>3
    <4>4. CASE v8.state # "none"
      <5>1. v5 # v8.chunk BY <4>1, <4>4, <1>0, <1>c
      <5>2. v8.chunk \in Neural!Indexes BY <4>4, <1>0, <1>c, <1>e
      <5>3. v7'[v8.chunk] = v7[v8.chunk] BY <4>1, <5>1, <5>2, <1>e
      <5>4. QED BY <4>1, <5>3, <2>a
    <4>5. QED BY <4>3, <4>4
    <3>19. ASSUME Neural!Break PROVE G
      BY <3>19 DEF Neural!Break, Neural!Raise
    <3>20. ASSUME Neural!SeeCancel PROVE G
      BY <3>20 DEF Neural!SeeCancel, Neural!Raise
    <3>21. ASSUME Neural!Finally PROVE G
      BY <3>21 DEF Neural!Finally
    <3>22. ASSUME Neural!JoinChunks PROVE G
    BY <3>22 DEF Neural!JoinChunks
    <3>23. QED BY ONLY Neural!Next, <3>1, <3>2, <3>3, <3>4, <3>5, <3>6, <3>7, <3>8, <3>9, <3>10,
        <3>11, <3>12, <3>13, <3>14, <3>15, <3>16, <3>17, <3>18, <3>19, <3>20, <3>21, <3>22 DEF
        Neural!Next
  <2>h. QED BY <2>g DEF G
<1>4. QED BY <1>p, <1>1, <1>2, <1>3 DEF Neural!Ahead

(* The command that packs is of the chunk just before the position of the    *)
(* loop, and its frames are all on disk.                                     *)
LEMMA NeuralBehind ==
    ASSUME Neural!Inv, Neural!Next
    PROVE  Neural!Behind'
<1>0. /\ v3 \in Nat /\ v4 \in Nat /\ v5 \in Nat /\ v6 \in Nat /\ v3 <= v4 /\ v1.real \in Nat
      /\ v8.chunk \in Nat /\ v8.from \in Nat /\ v8.count \in Nat /\ v9.chunk \in Nat /\ v9.from \in Nat /\ v9.count \in Nat
  <2>1. \A k \in 0 .. MaxFrames : k \in Nat BY NeuralNumbers
  <2>2. v3 \in Nat /\ v4 \in Nat /\ v5 \in Nat /\ v6 \in Nat /\ v3 <= v4 /\ v1.real \in Nat
    BY NeuralNumbers, <2>1
  <2>3. v8.chunk \in Nat /\ v8.from \in Nat /\ v8.count \in Nat BY NeuralNumbers, <2>1
  <2>4. v9.chunk \in Nat /\ v9.from \in Nat /\ v9.count \in Nat BY NeuralNumbers, <2>1
  <2>5. QED BY <2>2, <2>3, <2>4
<1>p. v1' = v1 BY NeuralPlaces
<1>a. \A o \in 0 .. v4 : Neural!ChunkAt(o) \in 0 .. v4 - o BY NeuralChunkAt
<1>b. /\ (v17 = "running" <=> v2 # "over") /\ (v2 = "join" => v3 = v4) /\ v3 <= v1.real
      /\ v2 = "top" => v5 <= v3
      /\ v2 \in {"extract", "await", "check", "neural", "collect", "merge"} =>
           v6 >= 1 /\ v3 + v6 <= v4 /\ v5 \in 1 .. v3 + 1
      /\ v2 = "await" => v8.state # "none"
      /\ v2 = "check" => Neural!Truthful(v7[v5], v3, v6, v12)
      /\ v2 \in {"neural", "collect", "merge"} => v3 + v6 <= v1.real /\ v7[v5] = [from |-> v3, count |-> v6]
  BY DEF Neural!Inv, Neural!Course, Neural!InChunk
<1>c. v8.state # "none" =>
        /\ v2 \notin {"extract", "check", "join", "over"} /\ v8.count >= 1 /\ v8.chunk >= 1
        /\ v2 = "top" => v8.chunk = v5 + 1 /\ v8.from = v3
        /\ v2 = "await" => v8.chunk = v5 /\ v8.from = v3 /\ v8.count = v6
        /\ v2 \in {"neural", "collect", "merge"} => v8.chunk = v5 + 1 /\ v8.from = v3 + v6
        /\ v8.state = "ok" => Neural!Truthful(v7[v8.chunk], v8.from, v8.count, v8.gpu)
  BY DEF Neural!Inv, Neural!Ahead
<1>d. v9.state # "none" =>
        /\ v1.overlapPack /\ v2 \notin {"merge", "join", "over"} /\ v9.count >= 1 /\ v9.from + v9.count = v3 /\ v3 < v4
        /\ v9.chunk = Len(v10) + 1 /\ v9.chunk <= v5 /\ v9.chunk \in Neural!Indexes
        /\ v7[v9.chunk] = [from |-> v9.from, count |-> v9.count]
        /\ v2 = "top" => v9.chunk = v5
        /\ v2 \in {"extract", "await", "check", "neural", "collect", "merge"} => v9.chunk = v5 - 1
        /\ v8.state # "none" => v9.chunk < v8.chunk
  <2>1. v9.state # "none" => v9.chunk \in Neural!Indexes
    <3>1. v9.state # "none" => v9.chunk = Len(v10) + 1 BY DEF Neural!Inv, Neural!Behind
    <3>2. Len(v10) \in Nat /\ v9.chunk \in 0 .. MaxFrames /\ Neural!Indexes = 1 .. MaxFrames + 1 /\ MaxFrames \in Nat
      BY NeuralNumbers
    <3>3. QED BY <3>1, <3>2
  <2>2. QED BY <2>1 DEF Neural!Inv, Neural!Behind, Neural!InChunk
<1>e. /\ v7 \in [Neural!Indexes -> [from: 0..MaxFrames, count: 0..MaxFrames]]
      /\ Neural!Indexes = 1 .. MaxFrames + 1 /\ MaxFrames \in Nat /\ v5 <= MaxFrames /\ v8.chunk <= MaxFrames
      /\ v12 \in BOOLEAN /\ v11 \in BOOLEAN /\ v8.gpu \in BOOLEAN
  BY NeuralNumbers DEF Neural!Inv, Neural!Shape
<1>g. \A s : /\ [v9 EXCEPT !.state = s].state = s /\ [v9 EXCEPT !.state = s].chunk = v9.chunk
             /\ [v9 EXCEPT !.state = s].from = v9.from /\ [v9 EXCEPT !.state = s].count = v9.count
  BY DEF Neural!Inv, Neural!Shape
<1>h. Neural!NoTask.state = "none" BY DEF Neural!NoTask
<1>i. ASSUME Neural!PrefetchEnds
      PROVE  /\ v8.state # "none" /\ v8'.chunk = v8.chunk /\ v9' = v9 /\ v10' = v10
             /\ v2' = v2 /\ v3' = v3 /\ v4' = v4 /\ v5' = v5 /\ v6' = v6
             /\ \A i \in Neural!Indexes \ {v8.chunk} : v7'[i] = v7[i]
  <2>1. v9' = v9 /\ v10' = v10 BY <1>i DEF Neural!PrefetchEnds
  <2>2. v7' = v7 \/ \E f : v7' = [v7 EXCEPT ![v8.chunk] = f] BY <1>i, NeuralPrefetchEnds
  <2>3. \A i \in Neural!Indexes \ {v8.chunk} : v7'[i] = v7[i] BY <2>2, <1>e
  <2>4. QED BY <1>i, <2>1, <2>3, NeuralPrefetchEnds
<1>j. ASSUME Neural!AcceptChunk
      PROVE  /\ v2 = "check" /\ v2' = "neural" /\ v3' = v3 /\ v4' = v4 /\ v5' = v5 /\ v6' = v6 /\ v7' = v7
             /\ v9' = v9 /\ v10' = v10 /\ (v8'.state # "none" => v8'.chunk = v5 + 1)
  <2>1. v9' = v9 /\ v10' = v10 BY <1>j DEF Neural!AcceptChunk, Neural!StartNeural
  <2>2. QED BY <2>1, <1>j, NeuralAcceptChunk
<1>k. ASSUME Neural!PackEnds
      PROVE  /\ v9.state # "none" /\ v9'.state # "none" /\ v9'.chunk = v9.chunk /\ v9'.from = v9.from /\ v9'.count = v9.count
             /\ v8' = v8 /\ v10' = v10 /\ v2' = v2 /\ v3' = v3 /\ v4' = v4 /\ v5' = v5 /\ v6' = v6 /\ v7' = v7
  <2>1. PICK s \in {"ok"} \cup (IF "run" \in ChunkFaults THEN {"failed"} ELSE {})
                        \cup (IF v16 THEN {"cancelled"} ELSE {}) : v9' = [v9 EXCEPT !.state = s]
    BY <1>k DEF Neural!PackEnds
  <2>2. s # "none" OBVIOUS
  <2>3. v9.state # "none" /\ v8' = v8 /\ v10' = v10 /\ v2' = v2 /\ v3' = v3 /\ v4' = v4 /\ v5' = v5 /\ v6' = v6 /\ v7' = v7
    BY <1>k DEF Neural!PackEnds, Neural!Running, Neural!place
  <2>4. QED BY <2>1, <2>2, <2>3, <1>g
<1>l. /\ Len(v10) \in Nat
      /\ v9.state = "none" /\ v2 = "top" => Len(v10) = v5
      /\ v9.state = "none" /\ v2 \in {"extract", "await", "check", "neural", "collect", "merge"} => Len(v10) = v5 - 1
  <2>1. Len(v10) \in Nat BY NeuralNumbers
  <2>2. QED BY <2>1 DEF Neural!Inv, Neural!Packing, Neural!InChunk
<1>m. ASSUME Neural!PackBehind
      PROVE  /\ v2 = "merge" /\ v2' = "top" /\ v3' = v3 + v6 /\ v4' = v4 /\ v5' = v5 /\ v7' = v7 /\ v8' = v8 /\ v10' = v10
             /\ v1.overlapPack /\ v3 + v6 < v4
             /\ v9'.state = "running" /\ v9'.chunk = v5 /\ v9'.from = v3 /\ v9'.count = v6
  BY <1>m DEF Neural!PackBehind, Neural!InBackground
<1>n. ASSUME Neural!AcceptEnd
      PROVE  /\ v2 = "check" /\ v2' = "neural" /\ v3' = v3 /\ v5' = v5 /\ v7' = v7 /\ v8' = v8 /\ v9' = v9 /\ v10' = v10
             /\ v3 < v4'
  <2>1. /\ v2 = "check" /\ v2' = "neural" /\ v3' = v3 /\ v5' = v5 /\ v7' = v7 /\ v8' = v8 /\ v9' = v9 /\ v10' = v10
        /\ v4' = v3 + v7[v5].count /\ v7[v5].count \in 1 .. (v6 - 1)
    BY <1>n DEF Neural!AcceptEnd, Neural!StartNeural, Neural!Got
  <2>2. QED BY <2>1, <1>0
<1>1. v9'.state # "none" =>
        /\ v1.overlapPack /\ v2' \notin {"merge", "join", "over"} /\ v9'.count >= 1 /\ v9'.from + v9'.count = v3' /\ v3' < v4'
        /\ v9'.chunk = Len(v10') + 1 /\ v9'.chunk <= v5'
        /\ v2' = "top" => v9'.chunk = v5'
        /\ v2' \in {"extract", "await", "check", "neural", "collect", "merge"} => v9'.chunk = v5' - 1
        /\ v8'.state # "none" => v9'.chunk < v8'.chunk
  <2> DEFINE G == v9'.state # "none" =>
        /\ v1.overlapPack /\ v2' \notin {"merge", "join", "over"} /\ v9'.count >= 1 /\ v9'.from + v9'.count = v3' /\ v3' < v4'
        /\ v9'.chunk = Len(v10') + 1 /\ v9'.chunk <= v5'
        /\ v2' = "top" => v9'.chunk = v5'
        /\ v2' \in {"extract", "await", "check", "neural", "collect", "merge"} => v9'.chunk = v5' - 1
        /\ v8'.state # "none" => v9'.chunk < v8'.chunk
  <2> USE <1>0, <1>b, <1>c, <1>d, <1>h DEF Neural!place, Neural!worker, Neural!tasks
  <2>1. ASSUME Neural!PrefetchEnds PROVE G
    BY <2>1, <1>i
  <2>2. ASSUME Neural!PackEnds PROVE G
    BY <2>2, <1>k
  <2>3. ASSUME Neural!Cancel PROVE G
    BY <2>3 DEF Neural!Cancel
  <2>4. ASSUME Neural!Top PROVE G
    <3>1. v2 = "top" /\ v2' \in {"await", "extract"} /\ v3' = v3 /\ v4' = v4 /\ v5' = v5 + 1 /\ v8' = v8 /\ v9' = v9 /\ v10' = v10
      BY <2>4 DEF Neural!Top
    <3>2. QED BY <3>1
  <2>5. ASSUME Neural!LeaveLoop PROVE G
    BY <2>5 DEF Neural!LeaveLoop, Neural!Raise
  <2>6. ASSUME Neural!Extract PROVE G
    BY <2>6 DEF Neural!Extract
  <2>7. ASSUME Neural!AwaitPrefetch PROVE G
    BY <2>7 DEF Neural!AwaitPrefetch
  <2>8. ASSUME Neural!RejectGpuFrames PROVE G
    BY <2>8 DEF Neural!RejectGpuFrames, Neural!Got
  <2>9. ASSUME Neural!AcceptChunk PROVE G
    BY <2>9, <1>j
  <2>10. ASSUME Neural!AcceptEnd PROVE G
    BY <2>10, <1>n
  <2>11. ASSUME Neural!RejectChunk PROVE G
    BY <2>11 DEF Neural!RejectChunk, Neural!Raise
  <2>12. ASSUME Neural!Process PROVE G
    BY <2>12 DEF Neural!Process
  <2>13. ASSUME Neural!Retry PROVE G
    BY <2>13 DEF Neural!Retry
  <2>14. ASSUME Neural!GiveUp PROVE G
    BY <2>14 DEF Neural!GiveUp, Neural!Raise
  <2>15. ASSUME Neural!Collect PROVE G
    BY <2>15 DEF Neural!Collect
  <2>16. ASSUME Neural!CollectNothing PROVE G
    BY <2>16 DEF Neural!CollectNothing
  <2>17. ASSUME Neural!PackBehind PROVE G
    <3>1. /\ v2 = "merge" /\ v2' = "top" /\ v3' = v3 + v6 /\ v4' = v4 /\ v5' = v5 /\ v8' = v8 /\ v10' = v10
          /\ v1.overlapPack /\ v3 + v6 < v4 /\ v9'.chunk = v5 /\ v9'.from = v3 /\ v9'.count = v6
      BY <2>17, <1>m
    <3>2. v9.state = "none" BY <3>1
    <3>3. Len(v10) = v5 - 1 BY <3>1, <3>2, <1>l
    <3>4. v9'.chunk = Len(v10') + 1 /\ v9'.chunk <= v5' BY <3>1, <3>3, <1>0
    <3>5. v8'.state # "none" => v9'.chunk < v8'.chunk BY <3>1, <1>0
    <3>6. v9'.count >= 1 /\ v9'.from + v9'.count = v3' /\ v3' < v4' BY <3>1, <1>b
    <3>7. QED BY <3>1, <3>4, <3>5, <3>6
  <2>18. ASSUME Neural!PackNow PROVE G
    <3>1. v2 = "merge" /\ v9' = v9 BY <2>18 DEF Neural!PackNow
    <3>2. QED BY <3>1
  <2>19. ASSUME Neural!Break PROVE G
    BY <2>19 DEF Neural!Break, Neural!Raise
  <2>20. ASSUME Neural!SeeCancel PROVE G
    BY <2>20 DEF Neural!SeeCancel, Neural!Raise
  <2>21. ASSUME Neural!Finally PROVE G
    BY <2>21 DEF Neural!Finally
  <2>22. ASSUME Neural!JoinChunks PROVE G
    BY <2>22 DEF Neural!JoinChunks
  <2>23. QED BY ONLY Neural!Next, <2>1, <2>2, <2>3, <2>4, <2>5, <2>6, <2>7, <2>8, <2>9, <2>10,
      <2>11, <2>12, <2>13, <2>14, <2>15, <2>16, <2>17, <2>18, <2>19, <2>20, <2>21, <2>22 DEF
      Neural!Next
<1>2. v9'.state # "none" => v7'[v9'.chunk] = [from |-> v9'.from, count |-> v9'.count]
  <2> DEFINE G == v9'.state # "none" => v7'[v9'.chunk] = [from |-> v9'.from, count |-> v9'.count]
  <2> USE <1>d, <1>h DEF Neural!place, Neural!worker, Neural!tasks
  <2>1. ASSUME Neural!PrefetchEnds PROVE G
    <3>1. v9.state # "none" => v9.chunk # v8.chunk BY <2>1, <1>i, <1>0
    <3>2. QED BY <2>1, <1>i, <3>1
  <2>2. ASSUME Neural!PackEnds PROVE G
    BY <2>2, <1>k
  <2>3. ASSUME Neural!Cancel PROVE G
    BY <2>3 DEF Neural!Cancel
  <2>4. ASSUME Neural!Top PROVE G
    BY <2>4 DEF Neural!Top, Neural!Prefetched
  <2>5. ASSUME Neural!LeaveLoop PROVE G
    BY <2>5 DEF Neural!LeaveLoop, Neural!Raise
  <2>6. ASSUME Neural!Extract PROVE G
    <3>1. v9' = v9 /\ v2 = "extract" /\ (v7' = v7 \/ \E f : v7' = [v7 EXCEPT ![v5] = f])
      BY <2>6 DEF Neural!Extract
    <3>2. v9.state # "none" => v9.chunk # v5 BY <3>1, <1>0
    <3>3. QED BY <3>1, <3>2, <1>e
  <2>7. ASSUME Neural!AwaitPrefetch PROVE G
    BY <2>7 DEF Neural!AwaitPrefetch
  <2>8. ASSUME Neural!RejectGpuFrames PROVE G
    <3>1. v9' = v9 /\ v2 = "check" /\ \E f : v7' = [v7 EXCEPT ![v5] = f]
      BY <2>8 DEF Neural!RejectGpuFrames
    <3>2. v9.state # "none" => v9.chunk # v5 BY <3>1, <1>0
    <3>3. QED BY <3>1, <3>2, <1>e
  <2>9. ASSUME Neural!AcceptChunk PROVE G
    BY <2>9, <1>j
  <2>10. ASSUME Neural!AcceptEnd PROVE G
    BY <2>10, <1>n
  <2>11. ASSUME Neural!RejectChunk PROVE G
    BY <2>11 DEF Neural!RejectChunk, Neural!Raise
  <2>12. ASSUME Neural!Process PROVE G
    BY <2>12 DEF Neural!Process
  <2>13. ASSUME Neural!Retry PROVE G
    BY <2>13 DEF Neural!Retry
  <2>14. ASSUME Neural!GiveUp PROVE G
    BY <2>14 DEF Neural!GiveUp, Neural!Raise
  <2>15. ASSUME Neural!Collect PROVE G
    BY <2>15 DEF Neural!Collect
  <2>16. ASSUME Neural!CollectNothing PROVE G
    BY <2>16 DEF Neural!CollectNothing
  <2>17. ASSUME Neural!PackBehind PROVE G
    BY <2>17, <1>m, <1>b
  <2>18. ASSUME Neural!PackNow PROVE G
    <3>1. v2 = "merge" /\ v9' = v9 BY <2>18 DEF Neural!PackNow
    <3>2. QED BY <3>1
  <2>19. ASSUME Neural!Break PROVE G
    BY <2>19 DEF Neural!Break, Neural!Raise
  <2>20. ASSUME Neural!SeeCancel PROVE G
    BY <2>20 DEF Neural!SeeCancel, Neural!Raise
  <2>21. ASSUME Neural!Finally PROVE G
    BY <2>21 DEF Neural!Finally
  <2>22. ASSUME Neural!JoinChunks PROVE G
    BY <2>22 DEF Neural!JoinChunks
  <2>23. QED BY ONLY Neural!Next, <2>1, <2>2, <2>3, <2>4, <2>5, <2>6, <2>7, <2>8, <2>9, <2>10,
      <2>11, <2>12, <2>13, <2>14, <2>15, <2>16, <2>17, <2>18, <2>19, <2>20, <2>21, <2>22 DEF
      Neural!Next
<1>3. QED BY <1>p, <1>1, <1>2 DEF Neural!Behind, Neural!InChunk

(* A directory holds frames only of the chunk in work, of the one being      *)
(* packed or of the one prefetched.                                          *)
LEMMA NeuralOnlyTheirs ==
    ASSUME Neural!Inv, Neural!Next
    PROVE  Neural!OnlyTheirs'
<1>0. /\ v3 \in Nat /\ v4 \in Nat /\ v5 \in Nat /\ v6 \in Nat /\ v3 <= v4 /\ v1.real \in Nat
      /\ v8.chunk \in Nat /\ v8.from \in Nat /\ v8.count \in Nat /\ v9.chunk \in Nat /\ v9.from \in Nat /\ v9.count \in Nat
  <2>1. \A k \in 0 .. MaxFrames : k \in Nat BY NeuralNumbers
  <2>2. v3 \in Nat /\ v4 \in Nat /\ v5 \in Nat /\ v6 \in Nat /\ v3 <= v4 /\ v1.real \in Nat
    BY NeuralNumbers, <2>1
  <2>3. v8.chunk \in Nat /\ v8.from \in Nat /\ v8.count \in Nat BY NeuralNumbers, <2>1
  <2>4. v9.chunk \in Nat /\ v9.from \in Nat /\ v9.count \in Nat BY NeuralNumbers, <2>1
  <2>5. QED BY <2>2, <2>3, <2>4
<1>p. v1' = v1 BY NeuralPlaces
<1>a. \A o \in 0 .. v4 : Neural!ChunkAt(o) \in 0 .. v4 - o BY NeuralChunkAt
<1>b. /\ (v17 = "running" <=> v2 # "over") /\ (v2 = "join" => v3 = v4) /\ v3 <= v1.real
      /\ v2 = "top" => v5 <= v3
      /\ v2 \in {"extract", "await", "check", "neural", "collect", "merge"} =>
           v6 >= 1 /\ v3 + v6 <= v4 /\ v5 \in 1 .. v3 + 1
      /\ v2 = "await" => v8.state # "none"
      /\ v2 = "check" => Neural!Truthful(v7[v5], v3, v6, v12)
      /\ v2 \in {"neural", "collect", "merge"} => v3 + v6 <= v1.real /\ v7[v5] = [from |-> v3, count |-> v6]
  BY DEF Neural!Inv, Neural!Course, Neural!InChunk
<1>c. v8.state # "none" =>
        /\ v2 \notin {"extract", "check", "join", "over"} /\ v8.count >= 1 /\ v8.chunk >= 1
        /\ v2 = "top" => v8.chunk = v5 + 1 /\ v8.from = v3
        /\ v2 = "await" => v8.chunk = v5 /\ v8.from = v3 /\ v8.count = v6
        /\ v2 \in {"neural", "collect", "merge"} => v8.chunk = v5 + 1 /\ v8.from = v3 + v6
        /\ v8.state = "ok" => Neural!Truthful(v7[v8.chunk], v8.from, v8.count, v8.gpu)
  BY DEF Neural!Inv, Neural!Ahead
<1>d. v9.state # "none" =>
        /\ v1.overlapPack /\ v2 \notin {"merge", "join", "over"} /\ v9.count >= 1 /\ v9.from + v9.count = v3 /\ v3 < v4
        /\ v9.chunk = Len(v10) + 1 /\ v9.chunk <= v5 /\ v9.chunk \in Neural!Indexes
        /\ v7[v9.chunk] = [from |-> v9.from, count |-> v9.count]
        /\ v2 = "top" => v9.chunk = v5
        /\ v2 \in {"extract", "await", "check", "neural", "collect", "merge"} => v9.chunk = v5 - 1
        /\ v8.state # "none" => v9.chunk < v8.chunk
  <2>1. v9.state # "none" => v9.chunk \in Neural!Indexes
    <3>1. v9.state # "none" => v9.chunk = Len(v10) + 1 BY DEF Neural!Inv, Neural!Behind
    <3>2. Len(v10) \in Nat /\ v9.chunk \in 0 .. MaxFrames /\ Neural!Indexes = 1 .. MaxFrames + 1 /\ MaxFrames \in Nat
      BY NeuralNumbers
    <3>3. QED BY <3>1, <3>2
  <2>2. QED BY <2>1 DEF Neural!Inv, Neural!Behind, Neural!InChunk
<1>e. /\ v7 \in [Neural!Indexes -> [from: 0..MaxFrames, count: 0..MaxFrames]]
      /\ Neural!Indexes = 1 .. MaxFrames + 1 /\ MaxFrames \in Nat /\ v5 <= MaxFrames /\ v8.chunk <= MaxFrames
      /\ v12 \in BOOLEAN /\ v11 \in BOOLEAN /\ v8.gpu \in BOOLEAN
  BY NeuralNumbers DEF Neural!Inv, Neural!Shape
<1>g. \A s : /\ [v9 EXCEPT !.state = s].state = s /\ [v9 EXCEPT !.state = s].chunk = v9.chunk
             /\ [v9 EXCEPT !.state = s].from = v9.from /\ [v9 EXCEPT !.state = s].count = v9.count
  BY DEF Neural!Inv, Neural!Shape
<1>h. Neural!NoTask.state = "none" BY DEF Neural!NoTask
<1>i. ASSUME Neural!PrefetchEnds
      PROVE  /\ v8.state # "none" /\ v8'.chunk = v8.chunk /\ v9' = v9 /\ v10' = v10
             /\ v2' = v2 /\ v3' = v3 /\ v4' = v4 /\ v5' = v5 /\ v6' = v6
             /\ \A i \in Neural!Indexes \ {v8.chunk} : v7'[i] = v7[i]
  <2>1. v9' = v9 /\ v10' = v10 BY <1>i DEF Neural!PrefetchEnds
  <2>2. v7' = v7 \/ \E f : v7' = [v7 EXCEPT ![v8.chunk] = f] BY <1>i, NeuralPrefetchEnds
  <2>3. \A i \in Neural!Indexes \ {v8.chunk} : v7'[i] = v7[i] BY <2>2, <1>e
  <2>4. QED BY <1>i, <2>1, <2>3, NeuralPrefetchEnds
<1>j. ASSUME Neural!AcceptChunk
      PROVE  /\ v2 = "check" /\ v2' = "neural" /\ v3' = v3 /\ v4' = v4 /\ v5' = v5 /\ v6' = v6 /\ v7' = v7
             /\ v9' = v9 /\ v10' = v10 /\ (v8'.state # "none" => v8'.chunk = v5 + 1)
  <2>1. v9' = v9 /\ v10' = v10 BY <1>j DEF Neural!AcceptChunk, Neural!StartNeural
  <2>2. QED BY <2>1, <1>j, NeuralAcceptChunk
<1>k. ASSUME Neural!PackEnds
      PROVE  /\ v9.state # "none" /\ v9'.state # "none" /\ v9'.chunk = v9.chunk /\ v9'.from = v9.from /\ v9'.count = v9.count
             /\ v8' = v8 /\ v10' = v10 /\ v2' = v2 /\ v3' = v3 /\ v4' = v4 /\ v5' = v5 /\ v6' = v6 /\ v7' = v7
  <2>1. PICK s \in {"ok"} \cup (IF "run" \in ChunkFaults THEN {"failed"} ELSE {})
                        \cup (IF v16 THEN {"cancelled"} ELSE {}) : v9' = [v9 EXCEPT !.state = s]
    BY <1>k DEF Neural!PackEnds
  <2>2. s # "none" OBVIOUS
  <2>3. v9.state # "none" /\ v8' = v8 /\ v10' = v10 /\ v2' = v2 /\ v3' = v3 /\ v4' = v4 /\ v5' = v5 /\ v6' = v6 /\ v7' = v7
    BY <1>k DEF Neural!PackEnds, Neural!Running, Neural!place
  <2>4. QED BY <2>1, <2>2, <2>3, <1>g
<1>l. /\ Len(v10) \in Nat
      /\ v9.state = "none" /\ v2 = "top" => Len(v10) = v5
      /\ v9.state = "none" /\ v2 \in {"extract", "await", "check", "neural", "collect", "merge"} => Len(v10) = v5 - 1
  <2>1. Len(v10) \in Nat BY NeuralNumbers
  <2>2. QED BY <2>1 DEF Neural!Inv, Neural!Packing, Neural!InChunk
<1>m. ASSUME Neural!PackBehind
      PROVE  /\ v2 = "merge" /\ v2' = "top" /\ v3' = v3 + v6 /\ v4' = v4 /\ v5' = v5 /\ v7' = v7 /\ v8' = v8 /\ v10' = v10
             /\ v1.overlapPack /\ v3 + v6 < v4
             /\ v9'.state = "running" /\ v9'.chunk = v5 /\ v9'.from = v3 /\ v9'.count = v6
  BY <1>m DEF Neural!PackBehind, Neural!InBackground
<1>n. ASSUME Neural!AcceptEnd
      PROVE  /\ v2 = "check" /\ v2' = "neural" /\ v3' = v3 /\ v5' = v5 /\ v7' = v7 /\ v8' = v8 /\ v9' = v9 /\ v10' = v10
             /\ v3 < v4'
  <2>1. /\ v2 = "check" /\ v2' = "neural" /\ v3' = v3 /\ v5' = v5 /\ v7' = v7 /\ v8' = v8 /\ v9' = v9 /\ v10' = v10
        /\ v4' = v3 + v7[v5].count /\ v7[v5].count \in 1 .. (v6 - 1)
    BY <1>n DEF Neural!AcceptEnd, Neural!StartNeural, Neural!Got
  <2>2. QED BY <2>1, <1>0
<1>f. v8.state # "none" => v3 <= v8.from /\ v8.from + v8.count <= v4
  BY DEF Neural!Inv, Neural!Ahead
<1>q. v2 # "over" => \A i \in Neural!Indexes : v7[i].count > 0 =>
        \/ i = v5 /\ v2 # "top"
        \/ v9.state # "none" /\ i = v9.chunk
        \/ v8.state # "none" /\ i = v8.chunk
  BY DEF Neural!Inv, Neural!OnlyTheirs
<1>r. Neural!NoFrames.count = 0 BY DEF Neural!NoFrames
<1> SUFFICES ASSUME v2' # "over", NEW k \in Neural!Indexes, v7'[k].count > 0
             PROVE  \/ k = v5' /\ v2' # "top"
                    \/ v9'.state # "none" /\ k = v9'.chunk
                    \/ v8'.state # "none" /\ k = v8'.chunk
  BY DEF Neural!OnlyTheirs, Neural!Indexes
<1> DEFINE G == \/ k = v5' /\ v2' # "top"
                \/ v9'.state # "none" /\ k = v9'.chunk
                \/ v8'.state # "none" /\ k = v8'.chunk
<1> USE <1>q DEF Neural!place, Neural!worker, Neural!tasks
<1>1. ASSUME Neural!PrefetchEnds PROVE G
  BY <1>1, <1>i, NeuralPrefetchEnds
<1>2. ASSUME Neural!PackEnds PROVE G
  BY <1>2, <1>k
<1>3. ASSUME Neural!Cancel PROVE G
  BY <1>3 DEF Neural!Cancel
<1>4. ASSUME Neural!Top PROVE G
  <2>1. v2 = "top" /\ v7' = v7 /\ v8' = v8 /\ v9' = v9 BY <1>4 DEF Neural!Top
  <2>2. QED BY <2>1
<1>5. ASSUME Neural!LeaveLoop PROVE G
  BY <1>5 DEF Neural!LeaveLoop, Neural!Raise
<1>6. ASSUME Neural!Extract PROVE G
  <2>1. v9' = v9 /\ v8' = v8 /\ v5' = v5 /\ v2 = "extract" /\ v2' # "top" /\ (v7' = v7 \/ \E f : v7' = [v7 EXCEPT ![v5] = f])
    BY <1>6 DEF Neural!Extract
  <2>2. k # v5 => v7'[k] = v7[k] BY <2>1, <1>e
  <2>3. QED BY <2>1, <2>2
<1>7. ASSUME Neural!AwaitPrefetch PROVE G
  <2>1. v9' = v9 /\ v5' = v5 /\ v2 = "await" /\ v2' # "top" /\ v7' = v7 BY <1>7 DEF Neural!AwaitPrefetch
  <2>2. v8.state # "none" => v8.chunk = v5 BY <2>1, <1>c
  <2>3. QED BY <2>1, <2>2
<1>8. ASSUME Neural!RejectGpuFrames PROVE G
  <2>1. v9' = v9 /\ v8' = v8 /\ v5' = v5 /\ v2 = "check" /\ v2' # "top" /\ \E f : v7' = [v7 EXCEPT ![v5] = f]
    BY <1>8 DEF Neural!RejectGpuFrames
  <2>2. k # v5 => v7'[k] = v7[k] BY <2>1, <1>e
  <2>3. QED BY <2>1, <2>2
<1>9. ASSUME Neural!AcceptChunk PROVE G
  BY <1>9, <1>j, <1>c
<1>10. ASSUME Neural!AcceptEnd PROVE G
  BY <1>10, <1>n
<1>11. ASSUME Neural!RejectChunk PROVE G
  BY <1>11 DEF Neural!RejectChunk, Neural!Raise
<1>12. ASSUME Neural!Process PROVE G
  BY <1>12 DEF Neural!Process
<1>13. ASSUME Neural!Retry PROVE G
  BY <1>13 DEF Neural!Retry
<1>14. ASSUME Neural!GiveUp PROVE G
  BY <1>14 DEF Neural!GiveUp, Neural!Raise
<1>15. ASSUME Neural!Collect PROVE G
  <2>1. v2 = "collect" /\ v2' = "merge" /\ v5' = v5 /\ v8' = v8
    BY <1>15 DEF Neural!Collect
  <2>2. \/ v9.state = "none" /\ v7' = v7
        \/ v9.state = "ok" /\ v7' = [v7 EXCEPT ![v9.chunk] = Neural!NoFrames]
    BY <1>15 DEF Neural!Collect
  <2>3. CASE v9.state = "none" /\ v7' = v7 BY <2>1, <2>3
  <2>4. CASE v9.state = "ok" /\ v7' = [v7 EXCEPT ![v9.chunk] = Neural!NoFrames]
    <3>1. v9.chunk \in Neural!Indexes BY <2>4, <1>d
    <3>2. k # v9.chunk BY <2>4, <3>1, <1>e, <1>r
    <3>3. v7'[k] = v7[k] BY <2>4, <3>2, <1>e
    <3>4. QED BY <2>1, <3>2, <3>3
  <2>5. QED BY <2>2, <2>3, <2>4
<1>16. ASSUME Neural!CollectNothing PROVE G
  BY <1>16 DEF Neural!CollectNothing
<1>17. ASSUME Neural!PackBehind PROVE G
  <2>1. /\ v2 = "merge" /\ v2' = "top" /\ v5' = v5 /\ v7' = v7 /\ v8' = v8 /\ v9'.state = "running" /\ v9'.chunk = v5
    BY <1>17, <1>m
  <2>2. v9.state = "none" BY <2>1, <1>d
  <2>3. k = v5 \/ (v8.state # "none" /\ k = v8.chunk) BY <2>1, <2>2
  <2>4. QED BY <2>1, <2>3
<1>18. ASSUME Neural!PackNow PROVE G
  <2>1. v2 = "merge" /\ v9' = v9 /\ v8' = v8 /\ v7' = [v7 EXCEPT ![v5] = Neural!NoFrames]
    BY <1>18 DEF Neural!PackNow
  <2>2. v5 \in Neural!Indexes BY <2>1, <1>b, <1>0, <1>e
  <2>3. k # v5 BY <2>1, <2>2, <1>e, <1>r
  <2>4. v7'[k] = v7[k] BY <2>1, <2>3, <1>e
  <2>5. QED BY <2>1, <2>3, <2>4
<1>19. ASSUME Neural!Break PROVE G
  BY <1>19 DEF Neural!Break, Neural!Raise
<1>20. ASSUME Neural!SeeCancel PROVE G
  BY <1>20 DEF Neural!SeeCancel, Neural!Raise
<1>21. ASSUME Neural!Finally PROVE G
  <2>1. v2 = "finally" /\ v7' = v7 /\ v5' = v5 /\ v2' = "join" /\ v3 = v4 BY <1>21 DEF Neural!Finally
  <2>2. v9.state = "none" BY <2>1, <1>d, <1>0
  <2>3. v8.state = "none" BY <2>1, <1>c, <1>f, <1>0
  <2>4. QED BY <2>1, <2>2, <2>3
<1>22. ASSUME Neural!JoinChunks PROVE G
  BY <1>22 DEF Neural!JoinChunks
<1>23. QED BY <1>1, <1>2, <1>3, <1>4, <1>5, <1>6, <1>7, <1>8, <1>9, <1>10, <1>11, <1>12, <1>13,
    <1>14, <1>15, <1>16, <1>17, <1>18, <1>19, <1>20, <1>21, <1>22 DEF Neural!Next

(* A segment more keeps what the packed frames say of the gaps.              *)
LEMMA NeuralSegmentMore ==
    ASSUME Neural!Inv, v17 = "running", NEW s \in Neural!Segment, NEW c \in Nat,
           s.chunk = Len(v10) + 1, s.from = Neural!Reached, s.count <= c,
           v10' = Append(v10, s), Neural!Reached' = Neural!Reached + c
    PROVE  /\ Len(v10') = Len(v10) + 1 /\ \A i \in DOMAIN v10' : v10'[i].chunk = i
           /\ Neural!Packed' <= Neural!Reached'
           /\ Neural!Packed' = Neural!Reached' => Neural!Gapless' /\ Neural!EndOf(v10)' = Neural!Reached'
<1> DEFINE n == Len(v10)
<1>1. v10 \in Seq(Neural!Segment) /\ Neural!Reached \in Nat
  <2>1. v10 \in Seq(Neural!Segment) /\ v3 \in Nat /\ v9.from \in Nat BY NeuralNumbers
  <2>2. QED BY <2>1 DEF Neural!Reached
<1>2. /\ n \in Nat /\ Len(v10') = n + 1 /\ v10'[n + 1] = s /\ DOMAIN v10' = 1 .. n + 1 /\ DOMAIN v10 = 1 .. n
      /\ \A i \in 1 .. n : v10'[i] = v10[i]
      /\ v10' # << >> /\ (n = 0 => v10 = << >>) /\ (n # 0 => v10 # << >>)
  BY <1>1
<1>3. Neural!Packed \in Nat /\ Neural!Packed' = Neural!Packed + s.count
  BY <1>1, NeuralAppends DEF Neural!Packed
<1>4. /\ \A i \in 1 .. n : v10[i].chunk = i
      /\ Neural!Packed <= Neural!Reached
      /\ Neural!Packed = Neural!Reached => Neural!Gapless /\ Neural!EndOf(v10) = Neural!Reached
  BY <1>2 DEF Neural!Inv, Neural!Packing
<1>5. s.count \in Nat /\ s.from \in Nat BY DEF Neural!Segment
<1> HIDE DEF n
<1>6. Neural!Packed' <= Neural!Reached' BY <1>1, <1>3, <1>4, <1>5
<1>7. \A i \in DOMAIN v10' : v10'[i].chunk = i
  <2> SUFFICES ASSUME NEW i \in 1 .. n + 1 PROVE v10'[i].chunk = i
    BY <1>2
  <2>1. CASE i = n + 1 BY <2>1, <1>2 DEF n
  <2>2. CASE i # n + 1
    <3>1. i \in 1 .. n BY <2>2, <1>2
    <3>2. QED BY <3>1, <1>2, <1>4
  <2>3. QED BY <2>1, <2>2
<1>8. ASSUME Neural!Packed' = Neural!Reached' PROVE Neural!Gapless' /\ Neural!EndOf(v10)' = Neural!Reached'
  <2>1. s.count = c /\ Neural!Packed = Neural!Reached BY <1>8, <1>1, <1>3, <1>4, <1>5
  <2>2. Neural!Gapless /\ Neural!EndOf(v10) = Neural!Reached BY <2>1, <1>4
  <2>3. Neural!EndOf(v10)' = v10'[n + 1].from + v10'[n + 1].count BY <1>2 DEF Neural!EndOf
  <2>4. Neural!EndOf(v10)' = Neural!Reached' BY <2>3, <2>1, <1>2
  <2>5. ASSUME NEW i \in 1 .. n + 1
        PROVE  v10'[i].from = IF i = 1 THEN 0 ELSE v10'[i - 1].from + v10'[i - 1].count
    <3>1. CASE i = n + 1 /\ n = 0
      <4>1. Neural!EndOf(v10) = 0 BY <3>1, <1>2 DEF Neural!EndOf
      <4>2. v10'[i].from = 0 /\ i = 1 BY <4>1, <2>2, <3>1, <1>2
      <4>3. QED BY <4>2
    <3>2. CASE i = n + 1 /\ n # 0
      <4>1. n \in 1 .. n /\ i - 1 = n /\ i # 1 BY <3>2, <1>2
      <4>2. Neural!EndOf(v10) = v10[n].from + v10[n].count BY <3>2, <1>2 DEF Neural!EndOf, n
      <4>3. v10'[i].from = Neural!Reached /\ v10'[n] = v10[n] BY <3>2, <4>1, <1>2
      <4>4. QED BY <4>1, <4>2, <4>3, <2>2
    <3>3. CASE i # n + 1
      <4>1. i \in 1 .. n /\ i \in DOMAIN v10 BY <3>3, <1>2
      <4>2. v10[i].from = IF i = 1 THEN 0 ELSE v10[i - 1].from + v10[i - 1].count
        BY <4>1, <2>2 DEF Neural!Gapless
      <4>3. i # 1 => i - 1 \in 1 .. n BY <4>1, <1>2
      <4>4. v10'[i] = v10[i] /\ (i # 1 => v10'[i - 1] = v10[i - 1]) BY <4>1, <4>3, <1>2
      <4>5. QED BY <4>2, <4>4
    <3>4. QED BY <3>1, <3>2, <3>3
  <2>6. Neural!Gapless' BY <2>5, <1>2 DEF Neural!Gapless
  <2>7. QED BY <2>4, <2>6
<1>9. QED BY <1>2, <1>6, <1>7, <1>8 DEF n

(* What a segment of a chunk is.                                             *)
LEMMA NeuralSegment ==
    ASSUME Neural!Inv, NEW i \in Neural!Indexes, NEW n \in Nat \ {0}, NEW s \in Neural!Segments(i, n)
    PROVE  s \in Neural!Segment /\ s.chunk = i /\ s.from = v7[i].from /\ s.count <= n
<1>1. PICK short \in (IF "short" \in ChunkFaults THEN 0..1 ELSE {0}) :
        s = [chunk |-> i, from |-> v7[i].from, count |-> n - short]
  BY DEF Neural!Segments
<1>2. short \in 0 .. 1 BY <1>1
<1>3. n - short \in Nat /\ n - short <= n BY <1>2
<1>4. i \in Nat /\ v7[i].from \in Nat
  <2>1. MaxFrames \in Nat /\ i \in 1 .. MaxFrames + 1 /\ v7[i].from \in 0 .. MaxFrames
    BY ONLY Neural!Inv, i \in Neural!Indexes, NeuralNumbers
  <2>2. QED BY ONLY <2>1
<1>5. QED BY <1>1, <1>3, <1>4 DEF Neural!Segment

(* The segments are numbered without a gap, and if they hold all the frames  *)
(* up to the loop's position, they are these, in order.                      *)
LEMMA NeuralPacking ==
    ASSUME Neural!Inv, Neural!Next
    PROVE  Neural!Packing'
<1> DEFINE Lens == /\ \A i \in DOMAIN v10' : v10'[i].chunk = i
                   /\ v9'.state = "none" /\ v2' = "top" => Len(v10') = v5'
                   /\ v9'.state = "none" /\ Neural!InChunk' => Len(v10') = v5' - 1
           Sums == v17' \in {"running", "joined"} =>
                     /\ Neural!Packed' <= Neural!Reached'
                     /\ Neural!Packed' = Neural!Reached' => Neural!Gapless' /\ Neural!EndOf(v10)' = Neural!Reached'
           Joined == v17' = "joined" => Neural!Packed' = v4' /\ v3' = v4'
<1>a. /\ v17 = "running" <=> v2 # "over"
      /\ v2 = "join" => v3 = v4
      /\ v2 \in {"extract", "await", "check", "neural", "collect", "merge"} => v6 >= 1 /\ v5 \in 1 .. v3 + 1
      /\ v2 \in {"neural", "collect", "merge"} => v7[v5] = [from |-> v3, count |-> v6]
  BY DEF Neural!Inv, Neural!Course, Neural!InChunk
<1>b. v9.state # "none" => /\ v2 \notin {"merge", "join", "over"} /\ v9.chunk = Len(v10) + 1 /\ v3 < v4
                           /\ v9.count >= 1 /\ v9.from + v9.count = v3
                           /\ v7[v9.chunk] = [from |-> v9.from, count |-> v9.count]
                           /\ v2 = "top" => v9.chunk = v5
                           /\ v2 \in {"extract", "await", "check", "neural", "collect", "merge"} => v9.chunk = v5 - 1
  BY DEF Neural!Inv, Neural!Behind, Neural!InChunk
<1>c. v8.state # "none" => v2 \notin {"extract", "check", "join", "over"}
  BY DEF Neural!Inv, Neural!Ahead
<1>d. /\ \A i \in DOMAIN v10 : v10[i].chunk = i
      /\ v9.state = "none" /\ v2 = "top" => Len(v10) = v5
      /\ v9.state = "none" /\ v2 \in {"extract", "await", "check", "neural", "collect", "merge"} => Len(v10) = v5 - 1
  BY DEF Neural!Inv, Neural!Packing, Neural!InChunk
<1>e. v17 \in {"running", "joined"} =>
        /\ Neural!Packed <= Neural!Reached
        /\ Neural!Packed = Neural!Reached => Neural!Gapless /\ Neural!EndOf(v10) = Neural!Reached
  BY DEF Neural!Inv, Neural!Packing
<1>f. /\ v3 \in Nat /\ v4 \in Nat /\ v5 \in Nat /\ v6 \in Nat /\ Len(v10) \in Nat
      /\ v9.chunk \in Nat /\ v9.from \in Nat /\ v9.count \in Nat /\ Neural!Indexes = 1 .. MaxFrames + 1
      /\ v5 <= MaxFrames /\ v9.chunk <= MaxFrames /\ MaxFrames \in Nat
  BY NeuralNumbers
<1>h. Neural!NoTask.state = "none" BY DEF Neural!NoTask
<1>i. \A s : [v9 EXCEPT !.state = s].state = s /\ [v9 EXCEPT !.state = s].from = v9.from
  BY DEF Neural!Inv, Neural!Shape
(* A step that appends nothing keeps the frames that are packed.             *)
<1>k. v10' = v10 => /\ Neural!Packed' = Neural!Packed /\ (Neural!Gapless' <=> Neural!Gapless)
                    /\ Neural!EndOf(v10)' = Neural!EndOf(v10)
  BY DEF Neural!Packed, Neural!FramesIn, Neural!Gapless, Neural!EndOf
<1>l. Neural!Reached = (IF v9.state # "none" THEN v9.from ELSE v3) /\ Neural!Reached' = (IF v9'.state # "none" THEN v9'.from ELSE v3')
  BY DEF Neural!Reached
<1>1. ASSUME Neural!PackEnds
      PROVE  v9.state # "none" /\ v9'.state # "none" /\ v9'.from = v9.from
             /\ v3' = v3 /\ v10' = v10 /\ v17' = v17 /\ v4' = v4 /\ v2' = v2 /\ v5' = v5
  <2>1. PICK s \in {"ok"} \cup (IF "run" \in ChunkFaults THEN {"failed"} ELSE {})
                        \cup (IF v16 THEN {"cancelled"} ELSE {}) : v9' = [v9 EXCEPT !.state = s]
    BY <1>1 DEF Neural!PackEnds
  <2>2. s # "none" OBVIOUS
  <2>3. v9.state # "none" /\ v3' = v3 /\ v10' = v10 /\ v17' = v17 /\ v4' = v4 /\ v2' = v2 /\ v5' = v5
    BY <1>1 DEF Neural!PackEnds, Neural!Running, Neural!place
  <2>4. QED BY <2>1, <2>2, <2>3, <1>i
<1>2. ASSUME Neural!Collect
      PROVE  /\ v2 = "collect" /\ v2' = "merge" /\ v3' = v3 /\ v4' = v4 /\ v5' = v5 /\ v17' = v17 /\ v9'.state = "none"
             /\ v17 = "running"
             /\ \/ v9.state = "none" /\ v10' = v10
                \/ v9.state = "ok" /\ \E s \in Neural!Segments(v9.chunk, v9.count) : v10' = Append(v10, s)
  BY <1>2, <1>a, <1>h DEF Neural!Collect, Neural!place
<1>3. ASSUME Neural!Collect PROVE Lens /\ Sums
  <2>1. CASE v9.state = "none" /\ v10' = v10
    <3>1. Lens BY <2>1, <1>2, <1>3, <1>d DEF Neural!InChunk
    <3>2. Neural!Reached' = Neural!Reached BY <2>1, <1>2, <1>3, <1>l
    <3>3. Sums BY <2>1, <3>2, <1>2, <1>3, <1>e, <1>k
    <3>4. QED BY <3>1, <3>3
  <2>2. CASE v9.state = "ok" /\ \E s \in Neural!Segments(v9.chunk, v9.count) : v10' = Append(v10, s)
    <3>1. PICK s \in Neural!Segments(v9.chunk, v9.count) : v10' = Append(v10, s) BY <2>2
    <3>2. v9.chunk \in Neural!Indexes /\ v9.count \in Nat \ {0} BY <2>2, <1>b, <1>f
    <3>3. s \in Neural!Segment /\ s.chunk = v9.chunk /\ s.from = v7[v9.chunk].from /\ s.count <= v9.count
      BY <3>1, <3>2, NeuralSegment
    <3>4. s.chunk = Len(v10) + 1 /\ s.from = Neural!Reached BY <3>3, <2>2, <1>b, <1>l
    <3>5. Neural!Reached' = Neural!Reached + v9.count BY <2>2, <1>b, <1>2, <1>3, <1>l
    <3>6. v17 = "running" /\ v9.count \in Nat BY <1>2, <1>3, <1>f
    <3>7. /\ Len(v10') = Len(v10) + 1 /\ \A i \in DOMAIN v10' : v10'[i].chunk = i
          /\ Sums
      BY <3>1, <3>3, <3>4, <3>5, <3>6, NeuralSegmentMore
    <3>8. Len(v10') = v5 - 1 BY <3>7, <2>2, <1>b, <1>2, <1>3, <1>f
    <3>9. Lens BY <3>7, <3>8, <1>2, <1>3 DEF Neural!InChunk
    <3>10. QED BY <3>7, <3>9
  <2>3. QED BY <1>2, <1>3, <2>1, <2>2
<1>4. ASSUME Neural!PackNow PROVE Lens /\ Sums
  <2>1. /\ v2 = "merge" /\ v2' = "top" /\ v3' = v3 + v6 /\ v5' = v5 /\ v9' = v9
        /\ \E s \in Neural!Segments(v5, v6) : v10' = Append(v10, s)
    BY <1>4 DEF Neural!PackNow, Neural!tasks
  <2>2. v9.state = "none" /\ v17 = "running" BY <2>1, <1>b, <1>a
  <2>3. PICK s \in Neural!Segments(v5, v6) : v10' = Append(v10, s) BY <2>1
  <2>4. v5 \in Neural!Indexes /\ v6 \in Nat \ {0} BY <2>1, <1>a, <1>f
  <2>5. s \in Neural!Segment /\ s.chunk = v5 /\ s.from = v7[v5].from /\ s.count <= v6
    BY <2>4, NeuralSegment
  <2>6. s.chunk = Len(v10) + 1 /\ s.from = Neural!Reached BY <2>1, <2>2, <2>5, <1>a, <1>d, <1>f, <1>l
  <2>7. Neural!Reached' = Neural!Reached + v6 BY <2>1, <2>2, <1>l
  <2>8. v6 \in Nat BY <1>f
  <2>9. /\ Len(v10') = Len(v10) + 1 /\ \A i \in DOMAIN v10' : v10'[i].chunk = i
        /\ Sums
    BY <2>2, <2>3, <2>5, <2>6, <2>7, <2>8, NeuralSegmentMore
  <2>10. Len(v10') = v5 BY <2>9, <2>1, <2>2, <1>d, <1>f
  <2>11. Lens BY <2>9, <2>10, <2>1 DEF Neural!InChunk
  <2>12. QED BY <2>9, <2>11
<1>5. v17 = "running"
  <2> USE <1>a, <1>b, <1>c
  <2>1. ASSUME Neural!PrefetchEnds PROVE v17 = "running"
    <3>1. v8.state # "none" BY <2>1 DEF Neural!PrefetchEnds, Neural!Running
    <3>2. QED BY <3>1
  <2>2. ASSUME Neural!PackEnds PROVE v17 = "running"
    BY <2>2, <1>1
  <2>3. ASSUME Neural!Cancel PROVE v17 = "running"
    BY <2>3 DEF Neural!Cancel
  <2>4. ASSUME Neural!Top PROVE v17 = "running"
    BY <2>4 DEF Neural!Top, Neural!Prefetched
  <2>5. ASSUME Neural!LeaveLoop PROVE v17 = "running"
    BY <2>5 DEF Neural!LeaveLoop, Neural!Raise
  <2>6. ASSUME Neural!Extract PROVE v17 = "running"
    BY <2>6 DEF Neural!Extract
  <2>7. ASSUME Neural!AwaitPrefetch PROVE v17 = "running"
    BY <2>7 DEF Neural!AwaitPrefetch
  <2>8. ASSUME Neural!RejectGpuFrames PROVE v17 = "running"
    BY <2>8 DEF Neural!RejectGpuFrames, Neural!Got
  <2>9. ASSUME Neural!AcceptChunk PROVE v17 = "running"
    BY <2>9 DEF Neural!AcceptChunk, Neural!Got, Neural!StartNeural
  <2>10. ASSUME Neural!AcceptEnd PROVE v17 = "running"
    BY <2>10 DEF Neural!AcceptEnd, Neural!Got, Neural!Last, Neural!StartNeural
  <2>11. ASSUME Neural!RejectChunk PROVE v17 = "running"
    BY <2>11 DEF Neural!RejectChunk, Neural!Raise
  <2>12. ASSUME Neural!Process PROVE v17 = "running"
    BY <2>12 DEF Neural!Process
  <2>13. ASSUME Neural!Retry PROVE v17 = "running"
    BY <2>13 DEF Neural!Retry
  <2>14. ASSUME Neural!GiveUp PROVE v17 = "running"
    BY <2>14 DEF Neural!GiveUp, Neural!Raise
  <2>15. ASSUME Neural!Collect PROVE v17 = "running"
    BY <2>15 DEF Neural!Collect
  <2>16. ASSUME Neural!CollectNothing PROVE v17 = "running"
    BY <2>16 DEF Neural!CollectNothing
  <2>17. ASSUME Neural!PackBehind PROVE v17 = "running"
    BY <2>17 DEF Neural!PackBehind, Neural!InBackground
  <2>18. ASSUME Neural!PackNow PROVE v17 = "running"
    BY <2>18 DEF Neural!PackNow, Neural!InBackground
  <2>19. ASSUME Neural!Break PROVE v17 = "running"
    BY <2>19 DEF Neural!Break, Neural!Raise
  <2>20. ASSUME Neural!SeeCancel PROVE v17 = "running"
    BY <2>20 DEF Neural!SeeCancel, Neural!Raise
  <2>21. ASSUME Neural!Finally PROVE v17 = "running"
    BY <2>21 DEF Neural!Finally
  <2>22. ASSUME Neural!JoinChunks PROVE v17 = "running"
    BY <2>22 DEF Neural!JoinChunks
  <2>23. QED BY ONLY Neural!Next, <2>1, <2>2, <2>3, <2>4, <2>5, <2>6, <2>7, <2>8, <2>9, <2>10,
      <2>11, <2>12, <2>13, <2>14, <2>15, <2>16, <2>17, <2>18, <2>19, <2>20, <2>21, <2>22 DEF
      Neural!Next
<1>6. Lens
  <2> USE <1>a, <1>d, <1>h DEF Neural!place, Neural!worker, Neural!tasks, Neural!InChunk
  <2>1. ASSUME Neural!PrefetchEnds PROVE Lens
    <3>1. v2' = v2 /\ v5' = v5 /\ v9' = v9 /\ v10' = v10 BY <2>1 DEF Neural!PrefetchEnds
    <3>2. QED BY <3>1
  <2>2. ASSUME Neural!PackEnds PROVE Lens
    BY <2>2, <1>1
  <2>3. ASSUME Neural!Cancel PROVE Lens
    BY <2>3 DEF Neural!Cancel
  <2>4. ASSUME Neural!Top PROVE Lens
    <3>1. v2 = "top" /\ v2' \in {"await", "extract"} /\ v5' = v5 + 1 /\ v9' = v9 /\ v10' = v10
      BY <2>4 DEF Neural!Top
    <3>2. QED BY <3>1, <1>f
  <2>5. ASSUME Neural!LeaveLoop PROVE Lens
    BY <2>5 DEF Neural!LeaveLoop, Neural!Raise
  <2>6. ASSUME Neural!Extract PROVE Lens
    BY <2>6 DEF Neural!Extract
  <2>7. ASSUME Neural!AwaitPrefetch PROVE Lens
    BY <2>7 DEF Neural!AwaitPrefetch
  <2>8. ASSUME Neural!RejectGpuFrames PROVE Lens
    BY <2>8 DEF Neural!RejectGpuFrames, Neural!Got
  <2>9. ASSUME Neural!AcceptChunk PROVE Lens
    <3>1. v2' = "neural" /\ v2 = "check" /\ v5' = v5 /\ v9' = v9 /\ v10' = v10
      BY <2>9 DEF Neural!AcceptChunk, Neural!StartNeural
    <3>2. QED BY <3>1
  <2>10. ASSUME Neural!AcceptEnd PROVE Lens
    BY <2>10 DEF Neural!AcceptEnd, Neural!Got, Neural!Last, Neural!StartNeural
  <2>11. ASSUME Neural!RejectChunk PROVE Lens
    BY <2>11 DEF Neural!RejectChunk, Neural!Raise
  <2>12. ASSUME Neural!Process PROVE Lens
    BY <2>12 DEF Neural!Process
  <2>13. ASSUME Neural!Retry PROVE Lens
    BY <2>13 DEF Neural!Retry
  <2>14. ASSUME Neural!GiveUp PROVE Lens
    BY <2>14 DEF Neural!GiveUp, Neural!Raise
  <2>15. ASSUME Neural!Collect PROVE Lens
    BY <2>15, <1>3
  <2>16. ASSUME Neural!CollectNothing PROVE Lens
    BY <2>16 DEF Neural!CollectNothing
  <2>17. ASSUME Neural!PackBehind PROVE Lens
    <3>1. v2 = "merge" /\ v2' = "top" /\ v9'.state = "running" /\ v10' = v10
      BY <2>17 DEF Neural!PackBehind
    <3>2. QED BY <3>1
  <2>18. ASSUME Neural!PackNow PROVE Lens
    BY <2>18, <1>4
  <2>19. ASSUME Neural!Break PROVE Lens
    BY <2>19 DEF Neural!Break, Neural!Raise
  <2>20. ASSUME Neural!SeeCancel PROVE Lens
    BY <2>20 DEF Neural!SeeCancel, Neural!Raise
  <2>21. ASSUME Neural!Finally PROVE Lens
    <3>1. v2' \in {"join", "over"} /\ v10' = v10 BY <2>21 DEF Neural!Finally
    <3>2. QED BY <3>1
  <2>22. ASSUME Neural!JoinChunks PROVE Lens
    BY <2>22 DEF Neural!JoinChunks
  <2>23. QED BY ONLY Neural!Next, <2>1, <2>2, <2>3, <2>4, <2>5, <2>6, <2>7, <2>8, <2>9, <2>10,
      <2>11, <2>12, <2>13, <2>14, <2>15, <2>16, <2>17, <2>18, <2>19, <2>20, <2>21, <2>22 DEF
      Neural!Next
<1>7. Sums
  <2> USE <1>e, <1>l, <1>k, <1>5, <1>h DEF Neural!place, Neural!worker, Neural!tasks
  <2>1. ASSUME Neural!PrefetchEnds PROVE Sums
    <3>1. v3' = v3 /\ v9' = v9 /\ v10' = v10 /\ v17' = v17 BY <2>1 DEF Neural!PrefetchEnds
    <3>2. Neural!Reached' = Neural!Reached BY <3>1
    <3>3. QED BY <3>1, <3>2
  <2>2. ASSUME Neural!PackEnds PROVE Sums
    <3>1. v3' = v3 /\ v9.state # "none" /\ v9'.state # "none" /\ v9'.from = v9.from /\ v10' = v10 /\ v17' = v17
      BY <2>2, <1>1
    <3>2. Neural!Reached' = Neural!Reached BY <3>1
    <3>3. QED BY <3>1, <3>2
  <2>3. ASSUME Neural!Cancel PROVE Sums
    BY <2>3 DEF Neural!Cancel
  <2>4. ASSUME Neural!Top PROVE Sums
    BY <2>4 DEF Neural!Top, Neural!Prefetched
  <2>5. ASSUME Neural!LeaveLoop PROVE Sums
    BY <2>5 DEF Neural!LeaveLoop, Neural!Raise
  <2>6. ASSUME Neural!Extract PROVE Sums
    BY <2>6 DEF Neural!Extract
  <2>7. ASSUME Neural!AwaitPrefetch PROVE Sums
    BY <2>7 DEF Neural!AwaitPrefetch
  <2>8. ASSUME Neural!RejectGpuFrames PROVE Sums
    BY <2>8 DEF Neural!RejectGpuFrames, Neural!Got
  <2>9. ASSUME Neural!AcceptChunk PROVE Sums
    <3>1. v3' = v3 /\ v9' = v9 /\ v10' = v10 /\ v17' = v17
      BY <2>9 DEF Neural!AcceptChunk, Neural!StartNeural
    <3>2. Neural!Reached' = Neural!Reached BY <3>1
    <3>3. QED BY <3>1, <3>2
  <2>10. ASSUME Neural!AcceptEnd PROVE Sums
    BY <2>10 DEF Neural!AcceptEnd, Neural!Got, Neural!Last, Neural!StartNeural
  <2>11. ASSUME Neural!RejectChunk PROVE Sums
    BY <2>11 DEF Neural!RejectChunk, Neural!Raise
  <2>12. ASSUME Neural!Process PROVE Sums
    BY <2>12 DEF Neural!Process
  <2>13. ASSUME Neural!Retry PROVE Sums
    BY <2>13 DEF Neural!Retry
  <2>14. ASSUME Neural!GiveUp PROVE Sums
    BY <2>14 DEF Neural!GiveUp, Neural!Raise
  <2>15. ASSUME Neural!Collect PROVE Sums
    BY <2>15, <1>3
  <2>16. ASSUME Neural!CollectNothing PROVE Sums
    BY <2>16 DEF Neural!CollectNothing
  <2>17. ASSUME Neural!PackBehind PROVE Sums
    <3>1. v2 = "merge" /\ v9'.state = "running" /\ v9'.from = v3 /\ v10' = v10 /\ v17' = v17
      BY <2>17 DEF Neural!PackBehind
    <3>a. v9.state = "none" BY <3>1, <1>b
    <3>2. Neural!Reached' = Neural!Reached BY <3>1, <3>a
    <3>3. QED BY <3>1, <3>2
  <2>18. ASSUME Neural!PackNow PROVE Sums
    BY <2>18, <1>4
  <2>19. ASSUME Neural!Break PROVE Sums
    BY <2>19 DEF Neural!Break, Neural!Raise
  <2>20. ASSUME Neural!SeeCancel PROVE Sums
    BY <2>20 DEF Neural!SeeCancel, Neural!Raise
  <2>21. ASSUME Neural!Finally PROVE Sums
    <3>1. /\ v3' = v3 /\ v9' = Neural!NoTask /\ v10' = v10 /\ (v17' \in {"running", "joined"} => v3 = v4)
      BY <2>21 DEF Neural!Finally
    <3> SUFFICES ASSUME v3 = v4 PROVE Sums
      BY <3>1
    <3>a. v9.state = "none" BY <3>1, <1>b, <1>f
    <3>2. Neural!Reached' = Neural!Reached BY <3>1, <3>a
    <3>3. QED BY <3>1, <3>2
  <2>22. ASSUME Neural!JoinChunks PROVE Sums
    <3>1. v3' = v3 /\ v9' = v9 /\ v10' = v10 BY <2>22 DEF Neural!JoinChunks
    <3>2. Neural!Reached' = Neural!Reached BY <3>1
    <3>3. QED BY <3>1, <3>2
  <2>23. QED BY ONLY Neural!Next, <2>1, <2>2, <2>3, <2>4, <2>5, <2>6, <2>7, <2>8, <2>9, <2>10,
      <2>11, <2>12, <2>13, <2>14, <2>15, <2>16, <2>17, <2>18, <2>19, <2>20, <2>21, <2>22 DEF
      Neural!Next
<1>8. Joined
  <2> USE <1>5 DEF Neural!place
  <2>1. ASSUME Neural!PrefetchEnds PROVE Joined
    <3>1. v17' = v17 BY <2>1 DEF Neural!PrefetchEnds
    <3>2. QED BY <3>1
  <2>2. ASSUME Neural!PackEnds PROVE Joined
    BY <2>2 DEF Neural!PackEnds, Neural!Running
  <2>3. ASSUME Neural!Cancel PROVE Joined
    BY <2>3 DEF Neural!Cancel
  <2>4. ASSUME Neural!Top PROVE Joined
    BY <2>4 DEF Neural!Top, Neural!Prefetched
  <2>5. ASSUME Neural!LeaveLoop PROVE Joined
    BY <2>5 DEF Neural!LeaveLoop, Neural!Raise
  <2>6. ASSUME Neural!Extract PROVE Joined
    BY <2>6 DEF Neural!Extract
  <2>7. ASSUME Neural!AwaitPrefetch PROVE Joined
    BY <2>7 DEF Neural!AwaitPrefetch
  <2>8. ASSUME Neural!RejectGpuFrames PROVE Joined
    BY <2>8 DEF Neural!RejectGpuFrames, Neural!Got
  <2>9. ASSUME Neural!AcceptChunk PROVE Joined
    BY <2>9 DEF Neural!AcceptChunk, Neural!Got, Neural!StartNeural
  <2>10. ASSUME Neural!AcceptEnd PROVE Joined
    BY <2>10 DEF Neural!AcceptEnd, Neural!Got, Neural!Last, Neural!StartNeural
  <2>11. ASSUME Neural!RejectChunk PROVE Joined
    BY <2>11 DEF Neural!RejectChunk, Neural!Raise
  <2>12. ASSUME Neural!Process PROVE Joined
    BY <2>12 DEF Neural!Process
  <2>13. ASSUME Neural!Retry PROVE Joined
    BY <2>13 DEF Neural!Retry
  <2>14. ASSUME Neural!GiveUp PROVE Joined
    BY <2>14 DEF Neural!GiveUp, Neural!Raise
  <2>15. ASSUME Neural!Collect PROVE Joined
    BY <2>15 DEF Neural!Collect
  <2>16. ASSUME Neural!CollectNothing PROVE Joined
    BY <2>16 DEF Neural!CollectNothing
  <2>17. ASSUME Neural!PackBehind PROVE Joined
    BY <2>17 DEF Neural!PackBehind, Neural!InBackground
  <2>18. ASSUME Neural!PackNow PROVE Joined
    BY <2>18 DEF Neural!PackNow, Neural!InBackground
  <2>19. ASSUME Neural!Break PROVE Joined
    BY <2>19 DEF Neural!Break, Neural!Raise
  <2>20. ASSUME Neural!SeeCancel PROVE Joined
    BY <2>20 DEF Neural!SeeCancel, Neural!Raise
  <2>21. ASSUME Neural!Finally PROVE Joined
    BY <2>21 DEF Neural!Finally
  <2>22. ASSUME Neural!JoinChunks PROVE Joined
    <3>1. v2 = "join" /\ v3' = v3 /\ v4' = v4 /\ v10' = v10 /\ (v17' = "joined" => Neural!Packed = v4)
      BY <2>22 DEF Neural!JoinChunks
    <3>2. v3 = v4 BY <3>1, <1>a
    <3>3. QED BY <3>1, <3>2, <1>k
  <2>23. QED BY ONLY Neural!Next, <2>1, <2>2, <2>3, <2>4, <2>5, <2>6, <2>7, <2>8, <2>9, <2>10,
      <2>11, <2>12, <2>13, <2>14, <2>15, <2>16, <2>17, <2>18, <2>19, <2>20, <2>21, <2>22 DEF
      Neural!Next
<1>9. QED BY <1>6, <1>7, <1>8 DEF Neural!Packing

(* The invariant of the chunk loop is inductive.                             *)
LEMMA NeuralStep == Neural!Inv /\ [Neural!Next]_(Neural!vars) => Neural!Inv'
<1> SUFFICES ASSUME Neural!Inv, [Neural!Next]_(Neural!vars) PROVE Neural!Inv'
  OBVIOUS
<1>1. CASE UNCHANGED Neural!vars
  BY <1>1 DEF Neural!vars, Neural!Inv, Neural!Shape, Neural!TypeOK, Neural!Course, Neural!Ahead,
      Neural!Behind,
     Neural!Packing, Neural!OnlyTheirs, Neural!InChunk, Neural!Truthful, Neural!ChunkAt, Neural!Packed, Neural!FramesIn,
     Neural!Reached, Neural!Gapless, Neural!EndOf
<1>2. CASE Neural!Next
  BY <1>2, NeuralShape, NeuralCourse, NeuralAhead, NeuralBehind, NeuralPacking, NeuralOnlyTheirs DEF
      Neural!Inv
<1>3. QED BY <1>1, <1>2

(* A set within three others, each of one element or none, is no larger than they are many. *)
LEMMA NeuralThree ==
    ASSUME NEW a, NEW b, NEW c, NEW B \in BOOLEAN, NEW C \in BOOLEAN, NEW S,
           S \subseteq {a} \cup (IF B THEN {b} ELSE {}) \cup (IF C THEN {c} ELSE {})
    PROVE  Cardinality(S) <= 1 + (IF B THEN 1 ELSE 0) + (IF C THEN 1 ELSE 0)
<1> DEFINE T == IF B THEN {b} ELSE {}
           U == IF C THEN {c} ELSE {}
<1>1. IsFiniteSet({a}) /\ Cardinality({a}) = 1 BY FS_Singleton
<1>2. IsFiniteSet(T) /\ Cardinality(T) = IF B THEN 1 ELSE 0 BY FS_Singleton, FS_EmptySet
<1>3. IsFiniteSet(U) /\ Cardinality(U) = IF C THEN 1 ELSE 0 BY FS_Singleton, FS_EmptySet
<1>9. S \subseteq ({a} \cup T) \cup U OBVIOUS
<1>10. (IF B THEN 1 ELSE 0) \in Nat /\ (IF C THEN 1 ELSE 0) \in Nat OBVIOUS
<1> HIDE DEF T, U
<1>4. /\ IsFiniteSet({a} \cup T)
      /\ Cardinality({a} \cup T) = Cardinality({a}) + Cardinality(T) - Cardinality({a} \cap T)
  BY <1>1, <1>2, FS_Union
<1>5. Cardinality({a} \cap T) \in Nat
  <2>1. IsFiniteSet({a} \cap T) BY <1>1, FS_Intersection
  <2>2. QED BY <2>1, FS_CardinalityType
<1>6. /\ IsFiniteSet(({a} \cup T) \cup U)
      /\ Cardinality(({a} \cup T) \cup U) = Cardinality({a} \cup T) + Cardinality(U) - Cardinality(({a} \cup T) \cap U)
  BY <1>3, <1>4, FS_Union
<1>7. Cardinality(({a} \cup T) \cap U) \in Nat
  <2>1. IsFiniteSet(({a} \cup T) \cap U) BY <1>4, FS_Intersection
  <2>2. QED BY <2>1, FS_CardinalityType
<1>8. Cardinality(S) <= Cardinality(({a} \cup T) \cup U) /\ Cardinality(S) \in Nat
  BY <1>6, <1>9, FS_Subset, FS_CardinalityType
<1>11. QED
  <2> DEFINE n == IF B THEN 1 ELSE 0
             m == IF C THEN 1 ELSE 0
  <2>1. Cardinality({a}) = 1 /\ Cardinality(T) = n /\ Cardinality(U) = m /\ n \in Nat /\ m \in Nat
    BY <1>1, <1>2, <1>3, <1>10
  <2> HIDE DEF n, m
  <2>2. Cardinality(S) <= 1 + n + m BY <2>1, <1>4, <1>5, <1>6, <1>7, <1>8
  <2>3. QED BY <2>2 DEF n, m

(* The chunk loop counts as FiniteSets does.                                 *)
LEMMA NeuralCardinality == \A S : Neural!Cardinality(S) = Cardinality(S)
BY DEF Neural!Cardinality, Cardinality

(* The invariant contains what the chunk loop promises.                      *)
LEMMA NeuralKeeps == Neural!Inv => Neural!TypeOK /\ Neural!WholeClip /\ Neural!Undisturbed /\ Neural!BoundedWork
<1> SUFFICES ASSUME Neural!Inv PROVE Neural!TypeOK /\ Neural!WholeClip /\ Neural!Undisturbed /\ Neural!BoundedWork
  OBVIOUS
<1>1. Neural!TypeOK BY DEF Neural!Inv, Neural!Shape
<1>2. Neural!WholeClip
  <2> SUFFICES ASSUME v17 = "joined"
               PROVE  /\ \A i \in DOMAIN v10 : v10[i].chunk = i
                      /\ Neural!Gapless
                      /\ Neural!Packed = Neural!Min({v1.nominal, v1.real})
    BY DEF Neural!WholeClip, Neural!Gapless
  <2>1. v2 = "over" /\ v3 <= v1.real /\ v4 \in {v1.nominal, v1.real} BY DEF Neural!Inv, Neural!Course
  <2>2. v9.state = "none" BY <2>1 DEF Neural!Inv, Neural!Behind
  <2>3. Neural!Packed = v4 /\ v3 = v4 /\ \A i \in DOMAIN v10 : v10[i].chunk = i
    BY DEF Neural!Inv, Neural!Packing
  <2>4. Neural!Reached = v3 BY <2>2 DEF Neural!Reached
  <2>5. Neural!Gapless BY <2>3, <2>4 DEF Neural!Inv, Neural!Packing
  <2>6. v1.nominal \in Int /\ v1.real \in Int /\ v4 <= v1.nominal BY NeuralNumbers
  <2>7. Neural!Min({v1.nominal, v1.real}) = IF v1.nominal <= v1.real THEN v1.nominal ELSE v1.real
    BY <2>6, NeuralMinMax
  <2>8. Neural!Packed = Neural!Min({v1.nominal, v1.real}) BY <2>1, <2>3, <2>6, <2>7
  <2>9. QED BY <2>3, <2>5, <2>8
<1>3. Neural!Undisturbed
  <2>1. ASSUME Neural!Running(v8), v2 \in {"extract", "check", "neural", "collect", "merge"} PROVE v8.chunk # v5
    <3>1. v8.state # "none" BY <2>1 DEF Neural!Running
    <3>2. v8.chunk = v5 + 1 BY <2>1, <3>1 DEF Neural!Inv, Neural!Ahead
    <3>3. v5 \in Nat BY NeuralNumbers
    <3>4. QED BY <3>2, <3>3
  <2>2. ASSUME Neural!Running(v9) PROVE v7[v9.chunk] = [from |-> v9.from, count |-> v9.count]
    <3>1. v9.state # "none" BY <2>2 DEF Neural!Running
    <3>2. QED BY <3>1 DEF Neural!Inv, Neural!Behind
  <2>3. QED BY <2>1, <2>2 DEF Neural!Undisturbed
<1>4. Neural!BoundedWork
  <2> SUFFICES ASSUME v2 # "over"
               PROVE  Cardinality(Neural!OnDisk)
                        <= 1 + (IF v1.overlapExtract THEN 1 ELSE 0) + (IF v1.overlapPack THEN 1 ELSE 0)
    BY NeuralCardinality DEF Neural!BoundedWork
  <2>1. v1.overlapExtract \in BOOLEAN /\ v1.overlapPack \in BOOLEAN BY NeuralNumbers
  <2>2. (v8.state # "none" => v1.overlapExtract) /\ (v9.state # "none" => v1.overlapPack)
    BY DEF Neural!Inv, Neural!Ahead, Neural!Behind
  <2>3. \A i \in Neural!Indexes : v7[i].count > 0 =>
          i = v5 \/ (v9.state # "none" /\ i = v9.chunk) \/ (v8.state # "none" /\ i = v8.chunk)
    BY DEF Neural!Inv, Neural!OnlyTheirs
  <2>4. v8.state = "running" => v8.state # "none" OBVIOUS
  <2>5. Neural!OnDisk \subseteq {v5} \cup (IF v1.overlapExtract THEN {v8.chunk} ELSE {})
                                     \cup (IF v1.overlapPack THEN {v9.chunk} ELSE {})
    BY <2>2, <2>3, <2>4 DEF Neural!OnDisk
  <2>6. QED BY <2>1, <2>5, NeuralThree
<1>5. QED BY <1>1, <1>2, <1>3, <1>4

(***************************************************************************)
(* The telemetry of a render: durations and groups that add up.            *)
(***************************************************************************)
(* The sum over a set, as the recursive function of its definition.          *)
SetSums(D, f, S) ==
  S = [T \in SUBSET D |-> IF T = {} THEN 0 ELSE LET x == CHOOSE x \in T : TRUE IN f[x] + S[T \ {x}]]

(* The sum exists.                                                         *)
LEMMA SetSumsExist ==
    ASSUME NEW D, IsFiniteSet(D), NEW f
    PROVE  \E S : SetSums(D, f, S)
<1> DEFINE few(n) == {T \in SUBSET D : Cardinality(T) <= n}
           pick(T) == CHOOSE x \in T : TRUE
           good == {n \in Nat : \E S : S = [T \in few(n) |-> IF T = {} THEN 0 ELSE f[pick(T)] + S[T \ {pick(T)}]]}
<1>0. \A T \in SUBSET D : /\ IsFiniteSet(T) /\ Cardinality(T) \in Nat /\ Cardinality(T) <= Cardinality(D)
                          /\ (Cardinality(T) = 0 <=> T = {})
  BY FS_Subset, FS_CardinalityType, FS_EmptySet
<1>a. Cardinality(D) \in Nat BY FS_CardinalityType
<1>b. \A T \in SUBSET D : T # {} => /\ pick(T) \in T /\ T \ {pick(T)} \in SUBSET D
                                    /\ Cardinality(T \ {pick(T)}) = Cardinality(T) - 1
  <2> SUFFICES ASSUME NEW T \in SUBSET D, T # {}
               PROVE  pick(T) \in T /\ T \ {pick(T)} \in SUBSET D /\ Cardinality(T \ {pick(T)}) = Cardinality(T) - 1
    OBVIOUS
  <2>1. pick(T) \in T OBVIOUS
  <2> HIDE DEF pick
  <2>2. QED BY <2>1, <1>0, FS_RemoveElement
<1> HIDE DEF pick
<1>1. 0 \in good
  <2> DEFINE g == [T \in few(0) |-> 0]
  <2>1. \A T \in few(0) : T = {} BY <1>0
  <2>2. g = [T \in few(0) |-> IF T = {} THEN 0 ELSE f[pick(T)] + g[T \ {pick(T)}]] BY <2>1
  <2> HIDE DEF g
  <2>3. QED BY <2>2
<1>2. ASSUME NEW n \in Nat, n \in good PROVE n + 1 \in good
  <2>1. PICK S : S = [T \in few(n) |-> IF T = {} THEN 0 ELSE f[pick(T)] + S[T \ {pick(T)}]] BY <1>2
  <2> DEFINE g == [T \in few(n + 1) |-> IF T \in few(n) THEN S[T] ELSE f[pick(T)] + S[T \ {pick(T)}]]
  <2>2. ASSUME NEW T \in few(n + 1) PROVE g[T] = IF T = {} THEN 0 ELSE f[pick(T)] + g[T \ {pick(T)}]
    <3>1. CASE T = {}
      <4>1. T \in few(n) BY <3>1, <1>0
      <4>2. S[T] = 0 BY <4>1, <2>1, <3>1
      <4>3. QED BY <4>1, <4>2, <3>1
    <3>2. CASE T # {}
      <4>1. T \ {pick(T)} \in few(n) /\ T \ {pick(T)} \in few(n + 1) BY <3>2, <1>b, <1>0
      <4>2. g[T \ {pick(T)}] = S[T \ {pick(T)}] BY <4>1
      <4>3. T \in few(n) => S[T] = f[pick(T)] + S[T \ {pick(T)}] BY <2>1, <3>2
      <4>4. g[T] = IF T \in few(n) THEN S[T] ELSE f[pick(T)] + S[T \ {pick(T)}] OBVIOUS
      <4>5. QED BY <4>2, <4>3, <4>4, <3>2
    <3>3. QED BY <3>1, <3>2
  <2>3. g = [T \in few(n + 1) |-> IF T = {} THEN 0 ELSE f[pick(T)] + g[T \ {pick(T)}]]
    <3>1. g = [T \in few(n + 1) |-> g[T]] OBVIOUS
    <3> HIDE DEF g
    <3>2. QED BY <2>2, <3>1
  <2> HIDE DEF g, few
  <2>4. \E Z : Z = [T \in few(n + 1) |-> IF T = {} THEN 0 ELSE f[pick(T)] + Z[T \ {pick(T)}]] BY <2>3
  <2>5. n + 1 \in Nat OBVIOUS
  <2>6. QED BY <2>4, <2>5
<1>3. Nat \subseteq good
  <2> HIDE DEF good
  <2>1. QED BY <1>1, <1>2, NaturalInduction
<1>4. few(Cardinality(D)) = SUBSET D BY <1>0, <1>a
<1>5. PICK S : S = [T \in few(Cardinality(D)) |-> IF T = {} THEN 0 ELSE f[pick(T)] + S[T \ {pick(T)}]]
  BY <1>3, <1>a
<1> HIDE DEF few
<1>6. S = [T \in SUBSET D |-> IF T = {} THEN 0 ELSE f[pick(T)] + S[T \ {pick(T)}]] BY <1>4, <1>5
<1>7. QED BY <1>6 DEF SetSums, pick

(* The second function is the first with d more at k.                       *)
Bumped(D, f, g, k, d) ==
  f \in [D -> Nat] /\ g \in [D -> Nat] /\ k \in D /\ d \in Nat /\ g = [f EXCEPT ![k] = f[k] + d]

(* Two functions that differ in one place, by d, have sums that differ by d over the sets it is in. *)
LEMMA SetSumsDiffer ==
    ASSUME NEW D, NEW f, NEW g, NEW k, NEW d, NEW S, NEW R, IsFiniteSet(D), Bumped(D, f, g, k, d),
           SetSums(D, f, S), SetSums(D, g, R)
    PROVE  S[D] \in Nat /\ R[D] = S[D] + d
<1> DEFINE pick(T) == CHOOSE x \in T : TRUE
           fine(T) == S[T] \in Nat /\ R[T] = S[T] + (IF k \in T THEN d ELSE 0)
           good == {n \in Nat : \A T \in SUBSET D : Cardinality(T) = n => fine(T)}
<1>d. f \in [D -> Nat] /\ g \in [D -> Nat] /\ k \in D /\ d \in Nat /\ g = [f EXCEPT ![k] = f[k] + d]
  BY DEF Bumped
<1>0. \A T \in SUBSET D : IsFiniteSet(T) /\ Cardinality(T) \in Nat /\ (Cardinality(T) = 0 <=> T = {})
  BY FS_Subset, FS_CardinalityType, FS_EmptySet
<1>b. \A T \in SUBSET D : T # {} => /\ pick(T) \in T /\ pick(T) \in D /\ T \ {pick(T)} \in SUBSET D
                                    /\ Cardinality(T \ {pick(T)}) = Cardinality(T) - 1
  <2> SUFFICES ASSUME NEW T \in SUBSET D, T # {}
               PROVE  /\ pick(T) \in T /\ pick(T) \in D /\ T \ {pick(T)} \in SUBSET D
                      /\ Cardinality(T \ {pick(T)}) = Cardinality(T) - 1
    OBVIOUS
  <2>1. pick(T) \in T OBVIOUS
  <2> HIDE DEF pick
  <2>2. QED BY <2>1, <1>0, FS_RemoveElement
<1>c. \A T \in SUBSET D : /\ S[T] = IF T = {} THEN 0 ELSE f[pick(T)] + S[T \ {pick(T)}]
                          /\ R[T] = IF T = {} THEN 0 ELSE g[pick(T)] + R[T \ {pick(T)}]
  BY DEF SetSums
<1> HIDE DEF pick
<1>1. 0 \in good
  <2> SUFFICES ASSUME NEW T \in SUBSET D, T = {} PROVE fine(T)
    BY <1>0
  <2>1. S[T] = 0 /\ R[T] = 0 /\ k \notin T BY <1>c
  <2>2. QED BY <2>1
<1>2. ASSUME NEW n \in Nat, n \in good PROVE n + 1 \in good
  <2> SUFFICES ASSUME NEW T \in SUBSET D, Cardinality(T) = n + 1 PROVE fine(T)
    OBVIOUS
  <2> DEFINE x == pick(T)
             U == T \ {x}
  <2>1. T # {} BY <1>0
  <2>a. x \in T /\ x \in D /\ U \in SUBSET D /\ Cardinality(U) = Cardinality(T) - 1 BY <2>1, <1>b
  <2>2. x \in T /\ x \in D /\ U \in SUBSET D /\ Cardinality(U) = n
    <3> HIDE DEF x, U
    <3>1. QED BY <2>a
  <2>3. S[T] = f[x] + S[U] /\ R[T] = g[x] + R[U] BY <2>1, <1>c
  <2>4. fine(U) BY <2>2, <1>2
  <2>5. f[x] \in Nat /\ g[x] = f[x] + (IF x = k THEN d ELSE 0) BY <2>2, <1>d
  <2>6. (k \in T) <=> (k = x \/ k \in U) BY <2>2
  <2>7. k = x => k \notin U OBVIOUS
  <2> HIDE DEF x, U
  <2>8. QED BY <2>3, <2>4, <2>5, <2>6, <2>7, <1>d
<1> HIDE DEF good
<1>3. Nat \subseteq good BY <1>1, <1>2, NaturalInduction
<1>4. fine(D)
  <2>1. D \in SUBSET D /\ Cardinality(D) \in Nat BY <1>0
  <2>2. Cardinality(D) \in good BY <2>1, <1>3
  <2>3. QED BY <2>1, <2>2 DEF good
<1>5. QED BY <1>4, <1>d

(* The sum of nothing.                                                     *)
LEMMA SetSumsOfNothing ==
    ASSUME NEW D, IsFiniteSet(D), NEW f, \A x \in D : f[x] = 0, NEW S, SetSums(D, f, S)
    PROVE  S[D] = 0
<1> DEFINE pick(T) == CHOOSE x \in T : TRUE
           good == {n \in Nat : \A T \in SUBSET D : Cardinality(T) = n => S[T] = 0}
<1>0. \A T \in SUBSET D : IsFiniteSet(T) /\ Cardinality(T) \in Nat /\ (Cardinality(T) = 0 <=> T = {})
  BY FS_Subset, FS_CardinalityType, FS_EmptySet
<1>b. \A T \in SUBSET D : T # {} => /\ pick(T) \in T /\ pick(T) \in D /\ T \ {pick(T)} \in SUBSET D
                                    /\ Cardinality(T \ {pick(T)}) = Cardinality(T) - 1
  <2> SUFFICES ASSUME NEW T \in SUBSET D, T # {}
               PROVE  /\ pick(T) \in T /\ pick(T) \in D /\ T \ {pick(T)} \in SUBSET D
                      /\ Cardinality(T \ {pick(T)}) = Cardinality(T) - 1
    OBVIOUS
  <2>1. pick(T) \in T OBVIOUS
  <2> HIDE DEF pick
  <2>2. QED BY <2>1, <1>0, FS_RemoveElement
<1>c. \A T \in SUBSET D : S[T] = IF T = {} THEN 0 ELSE f[pick(T)] + S[T \ {pick(T)}]
  BY DEF SetSums
<1> HIDE DEF pick
<1>1. 0 \in good BY <1>0, <1>c
<1>2. ASSUME NEW n \in Nat, n \in good PROVE n + 1 \in good
  <2> SUFFICES ASSUME NEW T \in SUBSET D, Cardinality(T) = n + 1 PROVE S[T] = 0
    OBVIOUS
  <2>1. T # {} BY <1>0
  <2>2. pick(T) \in D /\ T \ {pick(T)} \in SUBSET D /\ Cardinality(T \ {pick(T)}) = n BY <2>1, <1>b
  <2>3. S[T \ {pick(T)}] = 0 /\ f[pick(T)] = 0 BY <2>2, <1>2
  <2>4. QED BY <2>1, <2>2, <2>3, <1>c
<1> HIDE DEF good
<1>3. Nat \subseteq good BY <1>1, <1>2, NaturalInduction
<1>4. D \in SUBSET D /\ Cardinality(D) \in Nat BY <1>0
<1>5. QED BY <1>3, <1>4 DEF good

(* The same for the model's own sum over the names of the stages.           *)
LEMMA SessionNames == IsFiniteSet(Session!Names) /\ {"startup", "unclassified"} \subseteq Session!Names
<1>1. IsFiniteSet({"startup", "unclassified"}) 
  <2>1. IsFiniteSet({"startup"}) /\ IsFiniteSet({"unclassified"}) BY FS_Singleton
  <2>2. IsFiniteSet({"startup"} \cup {"unclassified"}) BY ONLY <2>1, FS_Union
  <2>3. {"startup"} \cup {"unclassified"} = {"startup", "unclassified"} OBVIOUS
  <2>4. QED BY <2>2, <2>3
<1>2. IsFiniteSet(TimedStages \cup {"startup", "unclassified"}) BY <1>1, TelemetryAssumption, FS_Union
<1>3. QED BY <1>2 DEF Session!Names

(* The sum over the stages is the value of a recursive function that exists. *)
LEMMA SessionSum ==
    ASSUME NEW f \in [Session!Names -> Nat]
    PROVE  \E S : SetSums(Session!Names, f, S) /\ Session!Sum(f) = S[Session!Names]
<1> DEFINE g == CHOOSE S : SetSums(Session!Names, f, S)
<1>1. \E S : SetSums(Session!Names, f, S) BY SetSumsExist, SessionNames
<1>2. SetSums(Session!Names, f, g) BY <1>1
<1>3. DOMAIN f = Session!Names OBVIOUS
<1>4. Session!Sum(f) = g[Session!Names]
  <2>1. Session!Sum(f) = (CHOOSE S : SetSums(DOMAIN f, f, S))[DOMAIN f] BY DEF Session!Sum, SetSums
  <2>2. QED BY <2>1, <1>3
<1> HIDE DEF g
<1>5. QED BY <1>2, <1>4

(* Nothing adds up to nothing, and what is added at one name is added to the sum. *)
LEMMA SessionNothing == Session!Sum([s \in Session!Names |-> 0]) = 0
<1> DEFINE z == [s \in Session!Names |-> 0]
<1>1. z \in [Session!Names -> Nat] /\ \A x \in Session!Names : z[x] = 0 OBVIOUS
<1> HIDE DEF z
<1>2. PICK S : SetSums(Session!Names, z, S) /\ Session!Sum(z) = S[Session!Names] BY <1>1, SessionSum
<1>3. S[Session!Names] = 0 BY <1>1, <1>2, SessionNames, SetSumsOfNothing
<1>4. QED BY <1>2, <1>3 DEF z

(* More time for one stage is as much more for their sum.                    *)
LEMMA SessionAdds ==
    ASSUME NEW f, NEW g, NEW k, NEW d, Bumped(Session!Names, f, g, k, d)
    PROVE  Session!Sum(f) \in Nat /\ Session!Sum(g) = Session!Sum(f) + d
<1>1. f \in [Session!Names -> Nat] /\ g \in [Session!Names -> Nat] BY DEF Bumped
<1>2. PICK S : SetSums(Session!Names, f, S) /\ Session!Sum(f) = S[Session!Names] BY <1>1, SessionSum
<1>3. PICK R : SetSums(Session!Names, g, R) /\ Session!Sum(g) = R[Session!Names] BY <1>1, SessionSum
<1>4. S[Session!Names] \in Nat /\ R[Session!Names] = S[Session!Names] + d
  <2>1. IsFiniteSet(Session!Names) BY SessionNames
  <2>2. QED BY ONLY <2>1, <1>2, <1>3, Bumped(Session!Names, f, g, k, d), SetSumsDiffer
<1>5. QED BY <1>2, <1>3, <1>4

(* The cursor that walks the marks: where it is, whose the time is, and what it has measured by then. *)
SessionAt(i) == IF i = 0 THEN 0 ELSE IF i > Len(v3) THEN v1 ELSE v3[i][1]
SessionName(i) == IF i = 0 THEN "startup" ELSE v3[i][2]
SessionZero == [s \in Session!Names |-> 0]
SessionAdd(i, before) == [before EXCEPT ![SessionName(i)] = before[SessionName(i)] + SessionAt(i + 1) - SessionAt(i)]
SessionWalk(N, f) == f = [i \in 0 .. N |-> SessionAdd(i, IF i = 0 THEN SessionZero ELSE f[i - 1])]

(* The walk over the first N marks exists, by induction over N.              *)
LEMMA SessionWalkExists == \A N \in Nat : \E f : SessionWalk(N, f)
<1> DEFINE good == {k \in Nat : \E f : SessionWalk(k, f)}
<1>1. 0 \in good
  <2> DEFINE f == [i \in 0 .. 0 |-> SessionAdd(0, SessionZero)]
  <2>1. f = [i \in 0 .. 0 |-> SessionAdd(i, IF i = 0 THEN SessionZero ELSE f[i - 1])]
    <3>1. \A i \in 0 .. 0 : i = 0 OBVIOUS
    <3>2. QED BY <3>1
  <2>2. SessionWalk(0, f) BY <2>1 DEF SessionWalk
  <2>3. QED BY <2>2
<1>2. ASSUME NEW k \in Nat, k \in good PROVE k + 1 \in good
  <2>1. PICK f : SessionWalk(k, f) BY <1>2
  <2> DEFINE g == [i \in 0 .. k + 1 |-> IF i = k + 1 THEN SessionAdd(i, f[k]) ELSE f[i]]
  <2>2. \A i \in 0 .. k + 1 : g[i] = SessionAdd(i, IF i = 0 THEN SessionZero ELSE g[i - 1])
    <3> SUFFICES ASSUME NEW i \in 0 .. k + 1 PROVE g[i] = SessionAdd(i, IF i = 0 THEN SessionZero ELSE g[i - 1])
      OBVIOUS
    <3>1. CASE i = k + 1
      <4>1. i - 1 \in 0 .. k + 1 /\ i - 1 # k + 1 /\ i - 1 = k /\ i # 0 BY <3>1
      <4>2. g[i - 1] = f[k] BY <4>1
      <4>3. QED BY <3>1, <4>1, <4>2
    <3>2. CASE i # k + 1 /\ i # 0
      <4>1. i \in 0 .. k /\ i - 1 \in 0 .. k + 1 /\ i - 1 # k + 1 BY <3>2
      <4>2. g[i] = f[i] /\ g[i - 1] = f[i - 1] BY <4>1, <3>2
      <4>3. f[i] = SessionAdd(i, f[i - 1]) BY <2>1, <4>1, <3>2 DEF SessionWalk
      <4>4. QED BY <4>2, <4>3, <3>2
    <3>3. CASE i = 0
      <4>1. 0 \in 0 .. k /\ 0 # k + 1 BY <1>2
      <4>2. g[0] = f[0] /\ f[0] = SessionAdd(0, SessionZero) BY <2>1, <4>1 DEF SessionWalk
      <4>3. QED BY <4>2, <3>3
    <3>4. QED BY <3>1, <3>2, <3>3
  <2>3. g = [i \in 0 .. k + 1 |-> g[i]] OBVIOUS
  <2> HIDE DEF g
  <2>4. g = [i \in 0 .. k + 1 |-> SessionAdd(i, IF i = 0 THEN SessionZero ELSE g[i - 1])] BY <2>2, <2>3
  <2>5. \E h : SessionWalk(k + 1, h) BY <2>4 DEF SessionWalk
  <2>6. QED BY <2>5
<1> HIDE DEF good
<1>3. Nat \subseteq good BY <1>1, <1>2, NaturalInduction
<1>4. QED BY <1>3 DEF good

(* The durations of the stages add up to the time of the render.             *)
LEMMA SessionDurations ==
    ASSUME Session!TypeOK, Session!Clock
    PROVE  /\ Session!Sum(Session!Durations) = v1
<1> DEFINE n == Len(v3)
<1>0. v1 \in Nat /\ v3 \in Seq(Nat \X Session!Names) /\ n \in Nat
  <2>1. v1 \in Nat BY BoundsAreNatural, TelemetryAssumption DEF Session!TypeOK
  <2>2. QED BY <2>1 DEF Session!Clock
<1>1. CASE n = 0
  <2>1. Session!Durations = [s \in Session!Names |-> IF s = "unclassified" THEN v1 ELSE 0]
    BY <1>1 DEF Session!Durations
  <2>2. SessionZero \in [Session!Names -> Nat] /\ SessionZero["unclassified"] = 0
    BY SessionNames DEF SessionZero
  <2>3. Session!Durations = [SessionZero EXCEPT !["unclassified"] = SessionZero["unclassified"] + v1]
    BY <2>1, <2>2, <1>0 DEF SessionZero
  <2>4. Session!Sum(SessionZero) = 0 BY SessionNothing DEF SessionZero
  <2>5. Bumped(Session!Names, SessionZero, Session!Durations, "unclassified", v1)
    BY <2>2, <2>3, <1>0, SessionNames DEF Bumped
  <2>6. QED BY <2>4, <2>5, <1>0, SessionAdds
<1>2. CASE n # 0
  <2> DEFINE f == CHOOSE g : SessionWalk(n, g)
  <2>1. \E g : SessionWalk(n, g) BY <1>0, SessionWalkExists
  <2>2. SessionWalk(n, f) BY <2>1
  <2>3. Session!Durations = f[n]
    BY <1>2 DEF Session!Durations, SessionWalk, SessionAdd, SessionAt, SessionName, SessionZero
  <2> HIDE DEF f
  <2> DEFINE good == {i \in Nat : i <= n => f[i] \in [Session!Names -> Nat] /\ Session!Sum(f[i]) = SessionAt(i + 1)}
  <2>4. \A i \in 0 .. n : /\ SessionAt(i) \in Nat /\ SessionAt(i + 1) \in Nat /\ SessionAt(i) <= SessionAt(i + 1)
                          /\ SessionName(i) \in Session!Names
    <3> SUFFICES ASSUME NEW i \in 0 .. n
                 PROVE  /\ SessionAt(i) \in Nat /\ SessionAt(i + 1) \in Nat /\ SessionAt(i) <= SessionAt(i + 1)
                        /\ SessionName(i) \in Session!Names
      OBVIOUS
    <3>1. \A j \in 1 .. n : v3[j][1] \in Nat /\ v3[j][2] \in Session!Names /\ v3[j][1] <= v1
      <4>1. \A j \in 1 .. n : v3[j] \in Nat \X Session!Names /\ j \in DOMAIN v3 BY <1>0
      <4>2. QED BY <4>1 DEF Session!Clock
    <3>2. \A j \in 1 .. n, k \in 1 .. n : k <= j => v3[k][1] <= v3[j][1]
      <4>1. \A j \in 1 .. n : j \in DOMAIN v3 BY <1>0
      <4>2. \A j \in 1 .. n : \A k \in 1 .. j : v3[k][1] <= v3[j][1] BY <4>1 DEF Session!Clock
      <4>3. \A j \in 1 .. n, k \in 1 .. n : k <= j => k \in 1 .. j BY <1>0
      <4>4. QED BY <4>2, <4>3
    <3>3. SessionName(i) \in Session!Names BY <3>1, SessionNames, <1>0 DEF SessionName
    <3>4. SessionAt(i) = IF i = 0 THEN 0 ELSE v3[i][1] BY <1>0 DEF SessionAt
    <3>5. SessionAt(i + 1) = IF i = n THEN v1 ELSE v3[i + 1][1] BY <1>0 DEF SessionAt
    <3>6. CASE i = n BY <3>1, <3>4, <3>5, <3>6, <3>3, <1>0
    <3>7. CASE i # n
      <4>1. i + 1 \in 1 .. n /\ (i # 0 => i \in 1 .. n) /\ i <= i + 1 BY <3>7, <1>0
      <4>2. i # 0 => v3[i][1] <= v3[i + 1][1] BY <4>1, <3>2
      <4>3. v3[i + 1][1] \in Nat /\ (i # 0 => v3[i][1] \in Nat) BY <4>1, <3>1
      <4>4. QED BY <3>4, <3>5, <3>7, <3>3, <4>2, <4>3
    <3>8. QED BY <3>6, <3>7
  <2>5. \A i \in 0 .. n : f[i] = SessionAdd(i, IF i = 0 THEN SessionZero ELSE f[i - 1])
    BY <2>2 DEF SessionWalk
  <2>6. ASSUME NEW i \in 0 .. n, NEW b \in [Session!Names -> Nat], Session!Sum(b) = SessionAt(i), f[i] = SessionAdd(i, b)
        PROVE  f[i] \in [Session!Names -> Nat] /\ Session!Sum(f[i]) = SessionAt(i + 1)
    <3> DEFINE k == SessionName(i)
               d == SessionAt(i + 1) - SessionAt(i)
    <3>1. k \in Session!Names /\ d \in Nat /\ b[k] \in Nat BY <2>4
    <3>2. b[k] + SessionAt(i + 1) - SessionAt(i) = b[k] + d BY <2>4, <3>1
    <3>3. f[i] = [b EXCEPT ![k] = b[k] + d] BY <2>6, <3>2 DEF SessionAdd
    <3>4. SessionAt(i) + d = SessionAt(i + 1) BY <2>4
    <3> HIDE DEF k, d
    <3>a. Bumped(Session!Names, b, f[i], k, d) BY <3>1, <3>3 DEF Bumped
    <3>5. f[i] \in [Session!Names -> Nat] /\ Session!Sum(f[i]) = Session!Sum(b) + d
      BY <3>1, <3>3, <3>a, SessionAdds
    <3>6. QED BY <3>4, <3>5, <2>6
  <2>7. 0 \in good
    <3>1. SessionZero \in [Session!Names -> Nat] /\ Session!Sum(SessionZero) = 0
      BY SessionNothing DEF SessionZero
    <3>2. SessionAt(0) = 0 /\ 0 \in 0 .. n BY <1>0 DEF SessionAt
    <3>3. f[0] = SessionAdd(0, SessionZero) BY <2>5, <3>2
    <3>4. f[0] \in [Session!Names -> Nat] /\ Session!Sum(f[0]) = SessionAt(0 + 1)
      BY <3>1, <3>2, <3>3, <2>6
    <3>5. QED BY <3>4
  <2>8. ASSUME NEW i \in Nat, i \in good PROVE i + 1 \in good
    <3> SUFFICES ASSUME i + 1 <= n
                 PROVE  f[i + 1] \in [Session!Names -> Nat] /\ Session!Sum(f[i + 1]) = SessionAt((i + 1) + 1)
      OBVIOUS
    <3>1. i <= n /\ i + 1 \in 0 .. n /\ i + 1 # 0 /\ (i + 1) - 1 = i BY <1>0
    <3>2. f[i] \in [Session!Names -> Nat] /\ Session!Sum(f[i]) = SessionAt(i + 1) BY <3>1, <2>8
    <3>3. f[i + 1] = SessionAdd(i + 1, f[i]) BY <2>5, <3>1
    <3>4. QED BY <3>1, <3>2, <3>3, <2>6
  <2> HIDE DEF good
  <2>9. Nat \subseteq good BY <2>7, <2>8, NaturalInduction
  <2>10. Session!Sum(f[n]) = SessionAt(n + 1) BY <2>9, <1>0 DEF good
  <2>11. SessionAt(n + 1) = v1 BY <1>0 DEF SessionAt
  <2>12. QED BY <2>3, <2>10, <2>11
<1>3. QED BY <1>1, <1>2

(* The telemetry counts as FiniteSets does.                                  *)
LEMMA SessionCardinality == \A S : Session!Cardinality(S) = Cardinality(S)
BY DEF Session!Cardinality, Cardinality

(* Every sample is in the group of its stage: the groups add up to the samples. *)
LEMMA SessionGroups ==
    ASSUME Session!TypeOK, Session!Labels, v3 # << >>
    PROVE  Session!Sum(Session!Groups) = Len(v4)
<1> DEFINE n == Len(v4)
           at(m, s) == {i \in 1 .. m : v4[i] = s}
           listed == Session!Listed
           group(m) == [s \in Session!Names |-> IF s \in listed THEN Cardinality(at(m, s)) ELSE 0]
           good == {m \in Nat : m <= n => Session!Sum(group(m)) = m}
<1>0. n \in Nat /\ v4 \in Seq(Session!Names) BY DEF Session!TypeOK
<1>1. \A i \in 1 .. n : v4[i] \in Session!Names /\ v4[i] \in listed
  <2>1. \A i \in 1 .. n : i \in DOMAIN v4 /\ v4[i] \in Session!Names BY <1>0
  <2>2. Session!Marked \subseteq listed BY DEF Session!Marked, Session!Listed
  <2>3. QED BY <2>1, <2>2 DEF Session!Labels
<1>2. \A m \in Nat : \A s : IsFiniteSet(at(m, s)) /\ Cardinality(at(m, s)) \in Nat
  <2> SUFFICES ASSUME NEW m \in Nat, NEW s PROVE IsFiniteSet(at(m, s)) /\ Cardinality(at(m, s)) \in Nat
    OBVIOUS
  <2>1. IsFiniteSet(1 .. m) BY FS_Interval
  <2>2. at(m, s) \subseteq 1 .. m OBVIOUS
  <2> HIDE DEF at
  <2>3. QED BY <2>1, <2>2, FS_Subset, FS_CardinalityType
<1> HIDE DEF listed
<1>3. \A m \in Nat : group(m) \in [Session!Names -> Nat]
  <2> HIDE DEF at
  <2>1. QED BY <1>2
<1>4. 0 \in good
  <2>1. \A s : at(0, s) = {} OBVIOUS
  <2>2. \A s : Cardinality(at(0, s)) = 0 BY <2>1, FS_EmptySet
  <2>3. group(0) = [s \in Session!Names |-> 0]
    <3> HIDE DEF at
    <3>1. QED BY <2>2
  <2> HIDE DEF group
  <2>4. QED BY <2>3, SessionNothing
<1>5. ASSUME NEW m \in Nat, m \in good PROVE m + 1 \in good
  <2> SUFFICES ASSUME m + 1 <= n PROVE Session!Sum(group(m + 1)) = m + 1
    OBVIOUS
  <2> DEFINE k == v4[m + 1]
  <2>1. m <= n /\ m + 1 \in 1 .. n BY <1>0
  <2>2. k \in Session!Names /\ k \in listed BY <2>1, <1>1
  <2>3. at(m + 1, k) = at(m, k) \cup {m + 1} /\ m + 1 \notin at(m, k) BY <2>1
  <2>4. \A s : s # k => at(m + 1, s) = at(m, s) BY <2>1
  <2>5. Session!Sum(group(m)) = m BY <2>1, <1>5
  <2> HIDE DEF at, k
  <2>6. Cardinality(at(m + 1, k)) = Cardinality(at(m, k)) + 1 BY <2>3, <1>2, FS_AddElement
  <2>7. group(m + 1) = [group(m) EXCEPT ![k] = group(m)[k] + 1]
    <3>1. group(m)[k] = Cardinality(at(m, k)) BY <2>2
    <3>2. \A s \in Session!Names : group(m + 1)[s] = IF s = k THEN group(m)[k] + 1 ELSE group(m)[s]
      BY <2>2, <2>4, <2>6, <3>1
    <3>3. QED BY <3>2, <2>2
  <2>8. group(m) \in [Session!Names -> Nat] BY <1>3
  <2> HIDE DEF group
  <2>a. group(m + 1) \in [Session!Names -> Nat] BY <1>3
  <2>b. Bumped(Session!Names, group(m), group(m + 1), k, 1) BY <2>2, <2>7, <2>8, <2>a DEF Bumped
  <2>9. Session!Sum(group(m + 1)) = Session!Sum(group(m)) + 1 BY <2>b, SessionAdds
  <2>10. QED BY <2>5, <2>9
<1>6. Session!Groups = group(n) BY SessionCardinality DEF Session!Groups, listed
<1> HIDE DEF good, group
<1>7. Nat \subseteq good BY <1>4, <1>5, NaturalInduction
<1>8. n \in good BY <1>0, <1>7
<1>9. QED BY <1>6, <1>8 DEF good

(* The invariant of a session holds initially.                               *)
LEMMA SessionInit == Session!Init => Session!Inv
<1> SUFFICES ASSUME Session!Init PROVE Session!Inv
  OBVIOUS
<1>m. MaxTime \in Nat /\ MaxSamples \in Nat /\ MaxEvents \in Nat BY BoundsAreNatural
<1> USE <1>m, TelemetryAssumption, SessionNames DEF Session!Init
<1>0. MaxTime \in Nat /\ Join \in Nat OBVIOUS
<1>1. Session!TypeOK
  <2>1. v4 \in Seq(Session!Names) /\ v2 \in Session!Names OBVIOUS
  <2>2. v1 \in 0 .. MaxTime + Join /\ v9 \in 0 .. Join BY <1>0
  <2>3. QED BY <2>1, <2>2 DEF Session!TypeOK
<1>2. Session!Clock BY DEF Session!Clock
<1>3. Session!Labels BY DEF Session!Labels, Session!Marked
<1>4. Session!SummaryAddsUp BY DEF Session!SummaryAddsUp
<1>5. QED BY <1>1, <1>2, <1>3, <1>4 DEF Session!Inv

(* Every action of the render, of the sampler and of its user keeps the      *)
(* shape of a session.                                                       *)
LEMMA SessionTypes ==
    ASSUME Session!Inv, Session!Next
    PROVE  Session!TypeOK'
<1>a. MaxTime \in Nat /\ Join \in Nat BY BoundsAreNatural, TelemetryAssumption
<1>b. Session!Marked \subseteq Session!Names
  <2>1. \A i \in DOMAIN v3 : v3[i][2] \in Session!Names BY DEF Session!Inv, Session!Clock
  <2>2. QED BY <2>1, SessionNames DEF Session!Marked
<1>c. Session!TypeOK /\ v1 <= MaxTime + v9 /\ (v10 = "run" => v9 = 0) /\ (v6 = "label" => v5 \in Session!Names)
  BY <1>b DEF Session!Inv, Session!Clock, Session!Labels
<1>1. v4' \in Seq(Session!Names)
  <2> USE <1>c DEF Session!TypeOK, Session!thread
  <2>1. ASSUME Session!Tick PROVE v4' \in Seq(Session!Names)
    BY <2>1 DEF Session!Tick
  <2>2. ASSUME Session!Sampler PROVE v4' \in Seq(Session!Names)
    BY <2>2 DEF Session!Sampler, Session!Take, Session!Label, Session!Keep
  <2>3. ASSUME Session!MarkStage PROVE v4' \in Seq(Session!Names)
    BY <2>3 DEF Session!MarkStage
  <2>4. ASSUME Session!Stop PROVE v4' \in Seq(Session!Names)
    BY <2>4 DEF Session!Stop
  <2>5. ASSUME Session!Joined PROVE v4' \in Seq(Session!Names)
    BY <2>5 DEF Session!Joined
  <2>6. ASSUME Session!WriteDocument PROVE v4' \in Seq(Session!Names)
    BY <2>6 DEF Session!WriteDocument
  <2>7. QED BY <2>1, <2>2, <2>3, <2>4, <2>5, <2>6 DEF Session!Next
<1> DEFINE Rest == /\ v1' \in 0 .. MaxTime + Join /\ v9' \in 0 .. Join /\ v2' \in Session!Names
                   /\ v6' \in {"wait", "take", "label", "out"} /\ v10' \in {"run", "join", "write", "done"}
                   /\ v8' \in BOOLEAN /\ v7' \in BOOLEAN
<1>2. Rest
  <2> USE <1>a, <1>c DEF Session!TypeOK, Session!thread
  <2>1. ASSUME Session!Tick PROVE Rest
    BY <2>1 DEF Session!Tick
  <2>2. ASSUME Session!Sampler PROVE Rest
    BY <2>2 DEF Session!Sampler, Session!Take, Session!Label, Session!Keep
  <2>3. ASSUME Session!MarkStage PROVE Rest
    BY <2>3 DEF Session!MarkStage, Session!Names
  <2>4. ASSUME Session!Stop PROVE Rest
    BY <2>4 DEF Session!Stop
  <2>5. ASSUME Session!Joined PROVE Rest
    BY <2>5 DEF Session!Joined
  <2>6. ASSUME Session!WriteDocument PROVE Rest
    BY <2>6 DEF Session!WriteDocument
  <2>7. QED BY <2>1, <2>2, <2>3, <2>4, <2>5, <2>6 DEF Session!Next
<1>3. QED BY <1>1, <1>2 DEF Session!TypeOK

(* The marks are in the order of their times, none later than the clock.     *)
LEMMA SessionClock ==
    ASSUME Session!Inv, Session!Next
    PROVE  Session!Clock'
<1>a. MaxTime \in Nat /\ Join \in Nat BY BoundsAreNatural, TelemetryAssumption
<1>b. /\ v1 \in Nat /\ v9 \in Nat /\ v1 <= MaxTime + v9 /\ (v10 = "run" => v9 = 0)
      /\ v3 \in Seq(Nat \X Session!Names)
      /\ \A i \in DOMAIN v3 : v3[i][1] \in Nat /\ v3[i][1] <= v1 /\ \A j \in 1 .. i : v3[j][1] <= v3[i][1]
  BY <1>a DEF Session!Inv, Session!TypeOK, Session!Clock
<1>1. (v1' = v1 \/ v1' = v1 + 1) /\ v1' <= MaxTime + v9' /\ (v10' = "run" => v9' = 0)
  <2> DEFINE G == (v1' = v1 \/ v1' = v1 + 1) /\ v1' <= MaxTime + v9' /\ (v10' = "run" => v9' = 0)
  <2> USE <1>a, <1>b DEF Session!thread
  <2>1. ASSUME Session!Tick PROVE G
    BY <2>1 DEF Session!Tick
  <2>2. ASSUME Session!Sampler PROVE G
    BY <2>2 DEF Session!Sampler, Session!Take, Session!Label, Session!Keep
  <2>3. ASSUME Session!MarkStage PROVE G
    BY <2>3 DEF Session!MarkStage
  <2>4. ASSUME Session!Stop PROVE G
    BY <2>4 DEF Session!Stop
  <2>5. ASSUME Session!Joined PROVE G
    BY <2>5 DEF Session!Joined
  <2>6. ASSUME Session!WriteDocument PROVE G
    BY <2>6 DEF Session!WriteDocument
  <2>7. QED BY <2>1, <2>2, <2>3, <2>4, <2>5, <2>6 DEF Session!Next
<1>2. v3' = v3 \/ (v1' = v1 /\ \E name \in TimedStages : v3' = Append(v3, <<v1, name>>))
  <2> DEFINE G == v3' = v3 \/ (v1' = v1 /\ \E name \in TimedStages : v3' = Append(v3, <<v1, name>>))
  <2> USE DEF Session!thread
  <2>1. ASSUME Session!Tick PROVE G
    BY <2>1 DEF Session!Tick
  <2>2. ASSUME Session!Sampler PROVE G
    BY <2>2 DEF Session!Sampler, Session!Take, Session!Label, Session!Keep
  <2>3. ASSUME Session!MarkStage PROVE G
    BY <2>3 DEF Session!MarkStage
  <2>4. ASSUME Session!Stop PROVE G
    BY <2>4 DEF Session!Stop
  <2>5. ASSUME Session!Joined PROVE G
    BY <2>5 DEF Session!Joined
  <2>6. ASSUME Session!WriteDocument PROVE G
    BY <2>6 DEF Session!WriteDocument
  <2>7. QED BY <2>1, <2>2, <2>3, <2>4, <2>5, <2>6 DEF Session!Next
<1>3. CASE v3' = v3
  BY <1>1, <1>3, <1>b DEF Session!Clock, Session!Names
<1>4. ASSUME NEW name \in TimedStages, v1' = v1, v3' = Append(v3, <<v1, name>>)
      PROVE  Session!Clock'
  <2> DEFINE n == Len(v3)
             e == <<v1, name>>
  <2>1. e \in Nat \X Session!Names /\ e[1] = v1 BY <1>b DEF Session!Names
  <2>a. v3' = Append(v3, e) BY <1>4
  <2> HIDE DEF e
  <2>2. /\ n \in Nat /\ v3' \in Seq(Nat \X Session!Names) /\ DOMAIN v3' = 1 .. n + 1 /\ DOMAIN v3 = 1 .. n
        /\ v3'[n + 1] = e /\ \A i \in 1 .. n : v3'[i] = v3[i]
    BY <2>a, <2>1, <1>b
  <2> HIDE DEF n
  <2>3. ASSUME NEW i \in 1 .. n + 1
        PROVE  v3'[i][1] <= v1' /\ \A j \in 1 .. i : v3'[j][1] <= v3'[i][1]
    <3>1. CASE i = n + 1
      <4>1. ASSUME NEW j \in 1 .. i PROVE v3'[j][1] <= v1
        <5>1. CASE j = n + 1 BY <5>1, <2>1, <2>2, <1>b
        <5>2. CASE j # n + 1
          <6>1. j \in 1 .. n /\ j \in DOMAIN v3 BY <5>2, <3>1, <2>2
          <6>2. QED BY <6>1, <2>2, <1>b
        <5>3. QED BY <5>1, <5>2
      <4>2. v3'[i][1] = v1 BY <3>1, <2>1, <2>2
      <4>3. v3'[i][1] <= v1' BY <4>2, <1>4, <1>b
      <4>4. \A j \in 1 .. i : v3'[j][1] <= v3'[i][1] BY <4>1, <4>2
      <4>5. QED BY <4>3, <4>4
    <3>2. CASE i # n + 1
      <4>1. i \in 1 .. n /\ i \in DOMAIN v3 /\ \A j \in 1 .. i : j \in 1 .. n BY <3>2, <2>2
      <4>2. QED BY <4>1, <2>2, <1>b, <1>4
    <3>3. QED BY <3>1, <3>2
  <2>4. QED BY <2>2, <2>3, <1>1 DEF Session!Clock, Session!Names
<1>5. QED BY <1>2, <1>3, <1>4

(* Every sample carries the name of a stage that was marked.                 *)
LEMMA SessionLabels ==
    ASSUME Session!Inv, Session!Next
    PROVE  Session!Labels'
<1> DEFINE Now == {"startup"} \cup {v3'[i][2] : i \in DOMAIN v3'}
<1>a. /\ v2 \in Session!Marked /\ (v6 = "label" => v5 \in Session!Marked)
      /\ \A i \in DOMAIN v4 : v4[i] \in Session!Marked
      /\ v4 \in Seq(Session!Names) /\ v3 \in Seq(Nat \X Session!Names)
  BY DEF Session!Inv, Session!Labels, Session!TypeOK, Session!Clock
<1>b. Session!Marked' = Now BY DEF Session!Marked
<1>c. v3' = v3 => Now = Session!Marked BY DEF Session!Marked
<1>d. \A e : v3' = Append(v3, e) => Session!Marked \subseteq Now /\ e[2] \in Now
  <2> SUFFICES ASSUME NEW e, v3' = Append(v3, e) PROVE Session!Marked \subseteq Now /\ e[2] \in Now
    OBVIOUS
  <2> DEFINE n == Len(v3)
  <2>1. n \in Nat /\ DOMAIN v3' = 1 .. n + 1 /\ DOMAIN v3 = 1 .. n /\ v3'[n + 1] = e /\ \A i \in 1 .. n : v3'[i] = v3[i]
    BY <1>a
  <2> HIDE DEF n
  <2>2. QED BY <2>1 DEF Session!Marked
<1> HIDE DEF Now
<1> DEFINE G == v2' \in Now /\ (v6' = "label" => v5' \in Now) /\ \A i \in DOMAIN v4' : v4'[i] \in Now
<1>1. G
  <2> USE <1>a, <1>c DEF Session!thread
  <2>1. ASSUME Session!Tick PROVE G
    BY <2>1 DEF Session!Tick
  <2>2. ASSUME Session!Sampler PROVE G
    <3>1. ASSUME Session!Take PROVE G BY <3>1 DEF Session!Take
    <3>2. ASSUME Session!Label PROVE G BY <3>2 DEF Session!Label
    <3>3. ASSUME Session!Keep PROVE G
      <4>1. v6 = "label" /\ v4' = Append(v4, v5) /\ v2' = v2 /\ v3' = v3 /\ v6' = "wait"
        BY <3>3 DEF Session!Keep
      <4>2. /\ Len(v4) \in Nat /\ DOMAIN v4' = 1 .. Len(v4) + 1 /\ DOMAIN v4 = 1 .. Len(v4) /\ v4'[Len(v4) + 1] = v5
            /\ \A i \in 1 .. Len(v4) : v4'[i] = v4[i]
        BY <4>1
      <4>3. \A i \in DOMAIN v4' : v4'[i] \in Session!Marked BY <4>1, <4>2
      <4>4. QED BY <4>1, <4>3
    <3>4. QED BY <2>2, <3>1, <3>2, <3>3 DEF Session!Sampler
  <2>3. ASSUME Session!MarkStage PROVE G
    <3>1. PICK name \in TimedStages : v2' = name /\ v3' = Append(v3, <<v1, name>>)
      BY <2>3 DEF Session!MarkStage
    <3>2. Session!Marked \subseteq Now /\ name \in Now
      <4>1. <<v1, name>>[2] = name OBVIOUS
      <4>2. QED BY <4>1, <3>1, <1>d
    <3>3. v4' = v4 /\ v5' = v5 /\ v6' = v6 BY <2>3 DEF Session!MarkStage
    <3>4. QED BY <3>1, <3>2, <3>3
  <2>4. ASSUME Session!Stop PROVE G
    BY <2>4 DEF Session!Stop
  <2>5. ASSUME Session!Joined PROVE G
    BY <2>5 DEF Session!Joined
  <2>6. ASSUME Session!WriteDocument PROVE G
    BY <2>6 DEF Session!WriteDocument
  <2>7. QED BY <2>1, <2>2, <2>3, <2>4, <2>5, <2>6 DEF Session!Next
<1>2. QED BY <1>1, <1>b DEF Session!Labels

(* What the document says is what the render did: it is written once, at the end. *)
LEMMA SessionDocument ==
    ASSUME Session!Inv, Session!Next
    PROVE  Session!SummaryAddsUp'
<1>a. v10 = "done" => /\ Session!Sum(v11.durations) = v11.wall
                      /\ v3 # << >> => Session!Sum(v11.groups) = v11.samples
  BY DEF Session!Inv, Session!SummaryAddsUp
<1>1. CASE Session!WriteDocument
  <2>1. v11' = [samples |-> Len(v4), durations |-> Session!Durations, groups |-> Session!Groups, wall |-> v1] /\ v3' = v3
    BY <1>1 DEF Session!WriteDocument
  <2>2. v11'.samples = Len(v4) /\ v11'.durations = Session!Durations /\ v11'.groups = Session!Groups /\ v11'.wall = v1
    BY <2>1
  <2>3. Session!Sum(Session!Durations) = v1 BY SessionDurations DEF Session!Inv
  <2>4. v3 # << >> => Session!Sum(Session!Groups) = Len(v4) BY SessionGroups DEF Session!Inv
  <2>5. Session!Sum(v11.durations)' = Session!Sum(v11'.durations) /\ Session!Sum(v11.groups)' = Session!Sum(v11'.groups)
    BY DEF Session!Sum
  <2>6. QED BY <2>1, <2>2, <2>3, <2>4, <2>5 DEF Session!SummaryAddsUp
<1>2. CASE ~Session!WriteDocument
  <2>1. v11' = v11 /\ (v10' = "done" => v10 = "done") /\ (v10 = "done" => v3' = v3)
    <3> DEFINE G == v11' = v11 /\ (v10' = "done" => v10 = "done") /\ (v10 = "done" => v3' = v3)
    <3> USE <1>2 DEF Session!thread
    <3>1. ASSUME Session!Tick PROVE G
      BY <3>1 DEF Session!Tick
    <3>2. ASSUME Session!Sampler PROVE G
      BY <3>2 DEF Session!Sampler, Session!Take, Session!Label, Session!Keep
    <3>3. ASSUME Session!MarkStage PROVE G
      BY <3>3 DEF Session!MarkStage
    <3>4. ASSUME Session!Stop PROVE G
      BY <3>4 DEF Session!Stop
    <3>5. ASSUME Session!Joined PROVE G
      BY <3>5 DEF Session!Joined
    <3>6. ASSUME Session!WriteDocument PROVE G
      BY <3>6 DEF Session!WriteDocument
    <3>7. QED BY <3>1, <3>2, <3>3, <3>4, <3>5, <3>6 DEF Session!Next
  <2>2. Session!Sum(v11.durations)' = Session!Sum(v11'.durations) /\ Session!Sum(v11.groups)' = Session!Sum(v11'.groups)
    BY DEF Session!Sum
  <2>3. QED BY <2>1, <2>2, <1>a DEF Session!SummaryAddsUp
<1>3. QED BY <1>1, <1>2

(* The invariant of a session is inductive.                                  *)
LEMMA SessionStep == Session!Inv /\ [Session!Next]_(Session!vars) => Session!Inv'
<1> SUFFICES ASSUME Session!Inv, [Session!Next]_(Session!vars) PROVE Session!Inv'
  OBVIOUS
<1>1. CASE UNCHANGED Session!vars
  BY <1>1 DEF Session!vars, Session!Inv, Session!TypeOK, Session!Clock, Session!Labels, Session!Marked,
     Session!SummaryAddsUp, Session!Sum, Session!Names
<1>2. CASE Session!Next
  BY <1>2, SessionTypes, SessionClock, SessionLabels, SessionDocument DEF Session!Inv
<1>3. QED BY <1>1, <1>2

(* The invariant contains what the telemetry promises.                       *)
LEMMA SessionKeeps == Session!Inv => Session!TypeOK /\ Session!SummaryAddsUp
BY DEF Session!Inv

(***************************************************************************)
(* The components together: each keeps its own invariant, whichever is the  *)
(* subject of a behaviour.  What they promise follows from it.             *)
(***************************************************************************)

ComponentsInv ==
  /\ subject = "chunks" => Neural!Inv
  /\ subject = "runner" => Runner!Inv
  /\ subject = "export" => Export!Inv
  /\ subject = "window" => Window!Inv
  /\ subject = "restore" => Restore!Inv
  /\ subject = "loop" => Loop!Inv
  /\ subject = "tree" => Tree!Inv
  /\ subject = "telemetry" => Session!Inv
  /\ subject = "cache" => Cache!Inv
  /\ subject = "staging" => Copy!Inv
  /\ subject = "updates" => Update!TypeOK /\ ("rollback" \notin UpdateFaults => Update!Inv)
  /\ subject = "install" => Install!Inv
  /\ subject = "guard" => Guard!Inv
  /\ subject = "history" => History!Inv
  /\ subject = "evidence" => Evidence!Inv
  /\ subject = "state" => State!Inv


(* Each component starts in its invariant.                                   *)
LEMMA ComponentsStart == Init => ComponentsInv
<1> SUFFICES ASSUME Init PROVE ComponentsInv
  OBVIOUS
<1>1. subject = "chunks" => Neural!Inv BY NeuralInit DEF Init
<1>2. subject = "runner" => Runner!Inv BY RunnerInit DEF Init
<1>3. subject = "export" => Export!Inv BY ExportInit DEF Init
<1>4. subject = "window" => Window!Inv BY WindowInit DEF Init
<1>5. subject = "restore" => Restore!Inv BY RestoreInit DEF Init
<1>6. subject = "loop" => Loop!Inv BY LoopInit DEF Init
<1>7. subject = "tree" => Tree!Inv BY TreeInit DEF Init
<1>8. subject = "telemetry" => Session!Inv BY SessionInit DEF Init
<1>9. subject = "cache" => Cache!Inv BY CacheInit DEF Init
<1>10. subject = "staging" => Copy!Inv BY CopyInit DEF Init
<1>11. subject = "updates" => Update!TypeOK /\ ("rollback" \notin UpdateFaults => Update!Inv)
  BY UpdateInit DEF Init, Update!Inv
<1>12. subject = "install" => Install!Inv BY InstallInit DEF Init
<1>13. subject = "guard" => Guard!Inv BY GuardInit DEF Init
<1>14. subject = "history" => History!Inv BY HistoryInit DEF Init
<1>15. subject = "evidence" => Evidence!Inv BY EvidenceInit DEF Init
<1>16. subject = "state" => State!Inv BY StateInit DEF Init
<1>17. QED BY <1>1, <1>2, <1>3, <1>4, <1>5, <1>6, <1>7, <1>8, <1>9, <1>10, <1>11, <1>12, <1>13,
    <1>14, <1>15, <1>16 DEF ComponentsInv


(* A step of the subject keeps its component's invariant, and every other is *)
(* vacuous.                                                                  *)
LEMMA ComponentsStep == ComponentsInv /\ [Next]_all => ComponentsInv'
<1> SUFFICES ASSUME ComponentsInv, [Next]_all PROVE ComponentsInv'
  OBVIOUS
<1>0. subject' = subject BY DEF Next, all
<1>1. subject' = "chunks" => Neural!Inv'
  <2> SUFFICES ASSUME subject = "chunks" PROVE Neural!Inv'
    BY <1>0
  <2>1. [Neural!Next]_(Neural!vars) BY DEF Next, all, Neural!vars
  <2>2. QED BY <2>1, NeuralStep DEF ComponentsInv
<1>2. subject' = "runner" => Runner!Inv'
  <2> SUFFICES ASSUME subject = "runner" PROVE Runner!Inv'
    BY <1>0
  <2>1. [Runner!Next]_(Runner!vars) BY DEF Next, all, Runner!vars
  <2>2. QED BY <2>1, RunnerStep DEF ComponentsInv
<1>3. subject' = "export" => Export!Inv'
  <2> SUFFICES ASSUME subject = "export" PROVE Export!Inv'
    BY <1>0
  <2>1. [Export!Next]_(Export!vars) BY DEF Next, all, Export!vars
  <2>2. QED BY <2>1, ExportStep DEF ComponentsInv
<1>4. subject' = "window" => Window!Inv'
  <2> SUFFICES ASSUME subject = "window" PROVE Window!Inv'
    BY <1>0
  <2>1. [Window!Next]_(Window!vars) BY DEF Next, all, Window!vars
  <2>2. QED BY <2>1, WindowStep DEF ComponentsInv
<1>5. subject' = "restore" => Restore!Inv'
  <2> SUFFICES ASSUME subject = "restore" PROVE Restore!Inv'
    BY <1>0
  <2>1. [Restore!Next]_(Restore!vars) BY DEF Next, all, Restore!vars
  <2>2. QED BY <2>1, RestoreStep DEF ComponentsInv
<1>6. subject' = "loop" => Loop!Inv'
  <2> SUFFICES ASSUME subject = "loop" PROVE Loop!Inv'
    BY <1>0
  <2>1. [Loop!Next]_(Loop!vars) BY DEF Next, all, Loop!vars
  <2>2. QED BY <2>1, LoopStep DEF ComponentsInv
<1>7. subject' = "tree" => Tree!Inv'
  <2> SUFFICES ASSUME subject = "tree" PROVE Tree!Inv'
    BY <1>0
  <2>1. [Tree!Next]_(Tree!vars) BY DEF Next, all, Tree!vars
  <2>2. QED BY <2>1, TreeStep DEF ComponentsInv
<1>8. subject' = "telemetry" => Session!Inv'
  <2> SUFFICES ASSUME subject = "telemetry" PROVE Session!Inv'
    BY <1>0
  <2>1. [Session!Next]_(Session!vars) BY DEF Next, all, Session!vars
  <2>2. QED BY <2>1, SessionStep DEF ComponentsInv
<1>9. subject' = "cache" => Cache!Inv'
  <2> SUFFICES ASSUME subject = "cache" PROVE Cache!Inv'
    BY <1>0
  <2>1. [Cache!Next]_(Cache!vars) BY DEF Next, all, Cache!vars
  <2>2. QED BY <2>1, CacheStep DEF ComponentsInv
<1>10. subject' = "staging" => Copy!Inv'
  <2> SUFFICES ASSUME subject = "staging" PROVE Copy!Inv'
    BY <1>0
  <2>1. [Copy!Next]_(Copy!vars) BY DEF Next, all, Copy!vars
  <2>2. QED BY <2>1, CopyStep DEF ComponentsInv
<1>11. subject' = "updates" => Update!TypeOK' /\ ("rollback" \notin UpdateFaults => Update!Inv')
  <2> SUFFICES ASSUME subject = "updates"
               PROVE  Update!TypeOK' /\ ("rollback" \notin UpdateFaults => Update!Inv')
    BY <1>0
  <2>1. Update!TypeOK /\ ("rollback" \notin UpdateFaults => Update!Inv) BY DEF ComponentsInv
  <2>2. Update!Next \/ UNCHANGED Update!vars BY DEF Next, all, Update!vars
  <2>3. CASE UNCHANGED Update!vars
    <3>1. Update!TypeOK' BY <2>1, <2>3 DEF Update!vars, Update!TypeOK
    <3>2. QED BY <2>1, <2>3, <3>1, UpdateStep
  <2>4. CASE Update!Next BY <2>1, <2>4, UpdateTypes, UpdateStep
  <2>5. QED BY <2>2, <2>3, <2>4
<1>12. subject' = "install" => Install!Inv'
  <2> SUFFICES ASSUME subject = "install" PROVE Install!Inv'
    BY <1>0
  <2>1. [Install!Next]_(Install!vars) BY DEF Next, all, Install!vars
  <2>2. QED BY <2>1, InstallStep DEF ComponentsInv
<1>13. subject' = "guard" => Guard!Inv'
  <2> SUFFICES ASSUME subject = "guard" PROVE Guard!Inv'
    BY <1>0
  <2>1. [Guard!Next]_(Guard!vars) BY DEF Next, all, Guard!vars
  <2>2. QED BY <2>1, GuardStep DEF ComponentsInv
<1>14. subject' = "history" => History!Inv'
  <2> SUFFICES ASSUME subject = "history" PROVE History!Inv'
    BY <1>0
  <2>1. [History!Next]_(History!vars) BY DEF Next, all, History!vars
  <2>2. QED BY <2>1, HistoryStep DEF ComponentsInv
<1>15. subject' = "evidence" => Evidence!Inv'
  <2> SUFFICES ASSUME subject = "evidence" PROVE Evidence!Inv'
    BY <1>0
  <2>1. [Evidence!Next]_(Evidence!vars) BY DEF Next, all, Evidence!vars
  <2>2. QED BY <2>1, EvidenceStep DEF ComponentsInv
<1>16. subject' = "state" => State!Inv'
  <2> SUFFICES ASSUME subject = "state" PROVE State!Inv'
    BY <1>0
  <2>1. [State!Next]_(State!vars) BY DEF Next, all, State!vars
  <2>2. QED BY <2>1, StateStep DEF ComponentsInv
<1>17. QED BY <1>1, <1>2, <1>3, <1>4, <1>5, <1>6, <1>7, <1>8, <1>9, <1>10, <1>11, <1>12, <1>13,
    <1>14, <1>15, <1>16 DEF ComponentsInv


(* What the guard's invariant says of a state holds after a step too.        *)
LEMMA GuardAfter == Guard!Inv' => Guard!SingleUnlessRaced'
BY GuardSingle, PTL

(* In every behaviour the subject's component keeps its invariant.           *)
LEMMA ComponentsKeep == Spec => []ComponentsInv
BY ComponentsStart, ComponentsStep, PTL DEF Spec


(* Unless two processes acquired at the same time, at most one of them owns the lock, and a *)
(* process is refused only while another owns it.                                           *)
THEOREM OneInstanceAtATime == Spec => OneInstance
<1> DEFINE Step ==
      /\ subject = "guard" => Guard!SingleUnlessRaced' /\ Guard!RefusedOnlyByOwner
<1>1. ComponentsInv /\ ComponentsInv' /\ [Next]_all => [Step]_all
  <2> SUFFICES ASSUME ComponentsInv, ComponentsInv', Next PROVE Step
    BY DEF Step
  <2>1. subject = "guard" => Guard!SingleUnlessRaced' /\ Guard!RefusedOnlyByOwner
    <3> SUFFICES ASSUME subject = "guard" PROVE Guard!SingleUnlessRaced' /\ Guard!RefusedOnlyByOwner
      OBVIOUS
    <3>1. Guard!Next /\ subject' = subject BY DEF Next
    <3>2. Guard!Inv /\ Guard!Inv' BY <3>1 DEF ComponentsInv
    <3>3. QED BY <3>1, <3>2, GuardAfter, GuardRefuses
  <2>2. QED BY <2>1 DEF Step
<1>2. QED BY <1>1, ComponentsKeep, PTL DEF Spec, OneInstance


(* There is always something to go back to, whatever is written halfway: a whole version, the *)
(* tree of a component, the last list of the queue, complete stems or none.  A roll-back that *)
(* fails itself is excluded: then the updater promises nothing.                               *)
THEOREM SomethingIsKept ==
    ASSUME "rollback" \notin UpdateFaults
    PROVE  Spec => []SomethingKept
<1>1. ComponentsInv => SomethingKept
  <2> SUFFICES ASSUME ComponentsInv PROVE SomethingKept
    OBVIOUS
  <2>1. subject = "updates" => Update!OneVersionKept
    BY UpdateKeeps DEF ComponentsInv
  <2>2. subject = "install" => Install!TreeKept /\ Install!FailedKeepsTree
    BY DEF Install!Inv, ComponentsInv
  <2>3. subject = "state" => State!Recoverable
    BY DEF State!Inv, ComponentsInv
  <2>4. subject = "cache" => Cache!PublishedComplete
    BY CachePublishes DEF ComponentsInv
  <2>5. QED BY <2>1, <2>2, <2>3, <2>4 DEF SomethingKept
<1>2. QED BY <1>1, ComponentsKeep, PTL


(* No step throws away what a later one needs: the blocks of a copy, the list that was saved, *)
(* the files of a running render, a preserved job that a start could offer.                   *)
THEOREM NothingIsThrownAway == Spec => NothingThrownAway
<1> DEFINE Step ==
      /\ subject = "staging" => Copy!PartialKept
      /\ subject = "state" => State!LoadShowsSaved
      /\ subject = "cache" => Cache!OwnFilesKept
      /\ subject = "history" => History!ListedWhenFound
<1>1. ComponentsInv /\ ComponentsInv' /\ [Next]_all => [Step]_all
  <2> SUFFICES ASSUME ComponentsInv, ComponentsInv', Next PROVE Step
    BY DEF Step
  <2>1. subject = "staging" => Copy!PartialKept
    <3> SUFFICES ASSUME subject = "staging" PROVE Copy!PartialKept
      OBVIOUS
    <3>1. Copy!Next /\ subject' = subject BY DEF Next
    <3>2. Copy!Inv /\ Copy!Inv' BY <3>1 DEF ComponentsInv
    <3>3. QED BY <3>1, <3>2, CopyKeepsPartial
  <2>2. subject = "state" => State!LoadShowsSaved
    <3> SUFFICES ASSUME subject = "state" PROVE State!LoadShowsSaved
      OBVIOUS
    <3>1. State!Next /\ subject' = subject BY DEF Next
    <3>2. State!Inv /\ State!Inv' BY <3>1 DEF ComponentsInv
    <3>3. QED BY <3>1, <3>2, StateShows
  <2>3. subject = "cache" => Cache!OwnFilesKept
    <3> SUFFICES ASSUME subject = "cache" PROVE Cache!OwnFilesKept
      OBVIOUS
    <3>1. Cache!Next /\ subject' = subject BY DEF Next
    <3>2. Cache!Inv /\ Cache!Inv' BY <3>1 DEF ComponentsInv
    <3>3. QED BY <3>1, <3>2, CacheKeeps
  <2>4. subject = "history" => History!ListedWhenFound
    <3> SUFFICES ASSUME subject = "history" PROVE History!ListedWhenFound
      OBVIOUS
    <3>1. History!Next /\ subject' = subject BY DEF Next
    <3>2. History!Inv /\ History!Inv' BY <3>1 DEF ComponentsInv
    <3>3. QED BY <3>1, <3>2, HistoryLists
  <2>5. QED BY <2>1, <2>2, <2>3, <2>4 DEF Step
<1>2. QED BY <1>1, ComponentsKeep, PTL DEF Spec, NothingThrownAway


(* A faster policy is used only while its measurements earn it, and a retry of RIFE never puts *)
(* more pressure on the device than the attempt before it.                                     *)
THEOREM FasterOnlyIfEarned == Spec => []PoliciesEarned
<1>1. ComponentsInv => PoliciesEarned
  <2> SUFFICES ASSUME ComponentsInv PROVE PoliciesEarned
    OBVIOUS
  <2>1. subject = "evidence" => Evidence!StaysRevoked /\ Evidence!Earned
    BY EvidenceEarned DEF Evidence!Inv, ComponentsInv
  <2>2. subject = "runner" => Runner!NeverUpshifts
    BY DEF Runner!Inv, ComponentsInv
  <2>3. QED BY <2>1, <2>2 DEF PoliciesEarned
<1>2. QED BY <1>1, ComponentsKeep, PTL


(* What reaches the output of the user is a whole product of a proven route and never comes *)
(* after a cancellation, a restored clip has all its frames, and the program starts on one  *)
(* version.  A roll-back that fails is excluded.                                            *)
THEOREM DeliveriesAreWhole ==
    ASSUME "rollback" \notin UpdateFaults
    PROVE  Spec => DeliveriesWhole
<1> DEFINE Step ==
      /\ subject = "export" => Export!WholeProduct /\ Export!NothingAfterCancel
      /\ subject = "restore" => Restore!PublishesWhole
      /\ subject = "updates" => Update!StartsWhole
<1>1. ComponentsInv /\ ComponentsInv' /\ [Next]_all => [Step]_all
  <2> SUFFICES ASSUME ComponentsInv, ComponentsInv', Next PROVE Step
    BY DEF Step
  <2>1. subject = "export" => Export!WholeProduct /\ Export!NothingAfterCancel
    <3> SUFFICES ASSUME subject = "export" PROVE Export!WholeProduct /\ Export!NothingAfterCancel
      OBVIOUS
    <3>1. Export!Next /\ subject' = subject BY DEF Next
    <3>2. Export!Inv /\ Export!Inv' BY <3>1 DEF ComponentsInv
    <3>3. QED BY <3>1, <3>2, ExportDelivers
  <2>2. subject = "restore" => Restore!PublishesWhole
    <3> SUFFICES ASSUME subject = "restore" PROVE Restore!PublishesWhole
      OBVIOUS
    <3>1. Restore!Next /\ subject' = subject BY DEF Next
    <3>2. Restore!Inv /\ Restore!Inv' BY <3>1 DEF ComponentsInv
    <3>3. QED BY <3>1, <3>2, RestorePublishes
  <2>3. subject = "updates" => Update!StartsWhole
    <3> SUFFICES ASSUME subject = "updates" PROVE Update!StartsWhole
      OBVIOUS
    <3>1. Update!Next /\ subject' = subject BY DEF Next
    <3>2. Update!Inv /\ Update!Inv' BY <3>1 DEF ComponentsInv
    <3>3. QED BY <3>1, <3>2, UpdateStarts
  <2>4. QED BY <2>1, <2>2, <2>3 DEF Step
<1>2. QED BY <1>1, ComponentsKeep, PTL DEF Spec, DeliveriesWhole


(* A conversion, a staging or an installation that reports success has left the whole thing. *)
THEOREM SuccessIsWhole == Spec => []DoneIsWhole
<1>1. ComponentsInv => DoneIsWhole
  <2> SUFFICES ASSUME ComponentsInv PROVE DoneIsWhole
    OBVIOUS
  <2>1. subject = "loop" => Loop!DoneIsItsOwn
    BY LoopKeeps DEF ComponentsInv
  <2>2. subject = "staging" => Copy!FaithfulCopy
    BY DEF Copy!Inv, ComponentsInv
  <2>3. subject = "install" => Install!DoneIsPinned /\ Install!AssetIsWhole
    BY DEF Install!Inv, ComponentsInv
  <2>4. QED BY <2>1, <2>2, <2>3 DEF DoneIsWhole
<1>2. QED BY <1>1, ComponentsKeep, PTL


(* No process, window, background command or file outlives what it belongs to, and the frames *)
(* on disk and in memory stay within their limits.                                            *)
THEOREM NothingOutlivesItsOwner == Spec => []NothingOutlives
<1>1. ComponentsInv => NothingOutlives
  <2> SUFFICES ASSUME ComponentsInv PROVE NothingOutlives
    OBVIOUS
  <2>1. subject = "tree" => Tree!NoneOutlives /\ Tree!CommandGone
    BY DEF Tree!Inv, ComponentsInv
  <2>2. subject = "window" => Window!WaitsForExport
    BY WindowWaits DEF ComponentsInv
  <2>3. subject = "chunks" => Neural!Undisturbed /\ Neural!BoundedWork
    BY NeuralKeeps DEF ComponentsInv
  <2>4. subject = "loop" => Loop!OneCommand /\ Loop!StopsSoon
    BY LoopKeeps DEF ComponentsInv
  <2>5. subject = "restore" => Restore!NothingLeft /\ Restore!WindowBounded
    BY RestoreKeeps DEF ComponentsInv
  <2>6. QED BY <2>1, <2>2, <2>3, <2>4, <2>5 DEF NothingOutlives
<1>2. QED BY <1>1, ComponentsKeep, PTL


(* The clip joined from its chunks is the whole clip in order, a composed frame shows the very *)
(* frames its position asks for, a restored one is made of its own neighbours, and the folder  *)
(* of RIFE is absent or whole.                                                                 *)
THEOREM NoFrameIsLost == Spec => []FramesWhole
<1>1. ComponentsInv => FramesWhole
  <2> SUFFICES ASSUME ComponentsInv PROVE FramesWhole
    OBVIOUS
  <2>1. subject = "chunks" => Neural!WholeClip
    BY NeuralKeeps DEF ComponentsInv
  <2>2. subject = "export" => Export!FramesExact
    BY DEF Export!Inv, ComponentsInv
  <2>3. subject = "restore" => Restore!FramesInOrder
    BY RestoreKeeps DEF ComponentsInv
  <2>4. subject = "runner" => Runner!PublishedWhole
    BY DEF Runner!Inv, ComponentsInv
  <2>5. QED BY <2>1, <2>2, <2>3, <2>4 DEF FramesWhole
<1>2. QED BY <1>1, ComponentsKeep, PTL


(* A job is declared done, or offered again, as its output is or is not in place, and the *)
(* durations and samples of the stages add up.                                            *)
THEOREM RecordsAreTrue == Spec => []RecordsTrue
<1>1. ComponentsInv => RecordsTrue
  <2> SUFFICES ASSUME ComponentsInv PROVE RecordsTrue
    OBVIOUS
  <2>1. subject = "history" => History!ResumeOnlyUndelivered /\ History!CompleteIsDelivered /\ History!ShadowAgrees
    BY DEF History!Inv, ComponentsInv
  <2>2. subject = "telemetry" => Session!SummaryAddsUp
    BY SessionKeeps DEF ComponentsInv
  <2>3. QED BY <2>1, <2>2 DEF RecordsTrue
<1>2. QED BY <1>1, ComponentsKeep, PTL


(* Every component stays within its types. *)
THEOREM TypesAreOK == Spec => []TypesOK
<1>1. ComponentsInv => TypesOK
  <2> SUFFICES ASSUME ComponentsInv PROVE TypesOK
    OBVIOUS
  <2>1. subject = "chunks" => Neural!TypeOK
    BY NeuralKeeps DEF ComponentsInv
  <2>2. subject = "runner" => Runner!TypeOK
    BY DEF Runner!Inv, Runner!Shape, ComponentsInv
  <2>3. subject = "export" => Export!TypeOK
    BY DEF Export!Inv, Export!Shape, ComponentsInv
  <2>4. subject = "window" => Window!TypeOK
    BY WindowWaits DEF ComponentsInv
  <2>5. subject = "restore" => Restore!TypeOK
    BY RestoreKeeps DEF ComponentsInv
  <2>6. subject = "loop" => Loop!TypeOK
    BY LoopKeeps DEF ComponentsInv
  <2>7. subject = "tree" => Tree!TypeOK
    BY DEF Tree!Inv, ComponentsInv
  <2>8. subject = "telemetry" => Session!TypeOK
    BY SessionKeeps DEF ComponentsInv
  <2>9. subject = "cache" => Cache!TypeOK
    BY DEF Cache!Inv, ComponentsInv
  <2>10. subject = "staging" => Copy!TypeOK
    BY DEF Copy!Inv, Copy!Shape, ComponentsInv
  <2>11. subject = "updates" => Update!TypeOK
    BY DEF ComponentsInv
  <2>12. subject = "install" => Install!TypeOK
    BY DEF Install!Inv, ComponentsInv
  <2>13. subject = "guard" => Guard!TypeOK
    BY DEF Guard!Inv, Guard!Shape, ComponentsInv
  <2>14. subject = "history" => History!TypeOK
    BY DEF History!Inv, ComponentsInv
  <2>15. subject = "evidence" => Evidence!TypeOK
    BY DEF Evidence!Inv, Evidence!Shape, ComponentsInv
  <2>16. subject = "state" => State!TypeOK
    BY DEF State!Inv, State!Shape, ComponentsInv
  <2>17. QED BY <2>1, <2>2, <2>3, <2>4, <2>5, <2>6, <2>7, <2>8, <2>9, <2>10, <2>11, <2>12, <2>13, <2>14,
      <2>15, <2>16 DEF TypesOK
<1>2. QED BY <1>1, ComponentsKeep, PTL
==================================================================================
