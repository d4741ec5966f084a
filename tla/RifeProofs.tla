------------------------------ MODULE RifeProofs ------------------------------
(***************************************************************************)
(* Proofs about RifeSchedule and RifeRecovery, for every length, ratio and  *)
(* chunk size.  The frame arithmetic first: a plan reaches the contract      *)
(* exactly, and as long as it lengthens the video every cut of it can be     *)
(* planned again.  Then the recovery, by three inductive invariants: one     *)
(* about the partial output and who writes it, one about the master and the  *)
(* segments it was joined from, and one about the plan that is followed,     *)
(* which needs the sums over segments and over shares.                       *)
(***************************************************************************)
EXTENDS RifeRecovery, SequenceTheorems, FiniteSetTheorems, WellFoundedInduction, TLAPS

(* A product is divided exactly by its factor                                *)
LEMMA Division ==
    ASSUME NEW a \in Nat \ {0}, NEW b \in Int
    PROVE  (a * b) \div a = b /\ (a * b) % a = 0
<1> DEFINE q == (a * b) \div a
           r == (a * b) % a
<1>1. q \in Int /\ r \in 0 .. a - 1 /\ a * b = a * q + r
  BY SMTT(30)
<1> HIDE DEF q, r
<1>2. a * (b - q) = r
  BY <1>1
<1>3. ~(b - q >= 1)
  <2> SUFFICES ASSUME b - q >= 1 PROVE FALSE
    OBVIOUS
  <2>1. a * (b - q) >= a * 1
    BY <1>1
  <2>2. QED BY <2>1, <1>2, <1>1
<1>4. ~(b - q <= -1)
  <2> SUFFICES ASSUME b - q <= -1 PROVE FALSE
    OBVIOUS
  <2>1. a * (b - q) <= a * (-1)
    BY <1>1
  <2>2. QED BY <2>1, <1>2, <1>1
<1>5. b = q
  BY <1>1, <1>3, <1>4
<1>6. r = 0
  BY <1>1, <1>5
<1>7. QED BY <1>5, <1>6 DEF q, r

(* Rounding: to an integer, exact on multiples, monotone                     *)
LEMMA RoundInt ==
    ASSUME NEW x \in Int, NEW b \in Nat \ {0}
    PROVE  Round(x, b) \in Int
BY SMTT(30) DEF Round

(* A multiple divides without rounding.                                      *)
LEMMA RoundExact ==
    ASSUME NEW a \in Nat \ {0}, NEW b \in Int
    PROVE  Round(a * b, a) = b
BY Division DEF Round

(* Rounding keeps the order.                                                 *)
LEMMA RoundMonotone ==
    ASSUME NEW x \in Int, NEW y \in Int, NEW b \in Nat \ {0}, x <= y
    PROVE  Round(x, b) <= Round(y, b)
<1> DEFINE p == x \div b
           r == x % b
           q == y \div b
           s == y % b
<1>1. p \in Int /\ r \in 0 .. b - 1 /\ x = b * p + r
  BY SMTT(30)
<1>2. q \in Int /\ s \in 0 .. b - 1 /\ y = b * q + s
  BY SMTT(30)
<1>3. /\ Round(x, b) = IF 2 * r > b \/ (2 * r = b /\ p % 2 = 1) THEN p + 1 ELSE p
      /\ Round(y, b) = IF 2 * s > b \/ (2 * s = b /\ q % 2 = 1) THEN q + 1 ELSE q
  BY DEF Round
<1> HIDE DEF p, r, q, s
<1>4. p <= q
  <2> SUFFICES ASSUME p >= q + 1 PROVE FALSE
    BY <1>1, <1>2
  <2>1. b * p >= b * (q + 1)
    BY <1>1, <1>2
  <2>2. b * (q + 1) = b * q + b
    BY <1>2
  <2>3. QED BY <2>1, <2>2, <1>1, <1>2
<1>5. CASE p = q
  <2>1. r <= s
    BY <1>5, <1>1, <1>2
  <2>2. QED BY <2>1, <1>5, <1>3, <1>1, <1>2
<1>6. CASE p + 1 <= q
  BY <1>6, <1>3, <1>1, <1>2
<1>7. QED BY <1>4, <1>5, <1>6, <1>1, <1>2

(* Two whole units more give two more, also at a tie: the parity is the same *)
LEMMA RoundStep ==
    ASSUME NEW x \in Int, NEW y \in Int, NEW b \in Nat \ {0}, y - x >= 2 * b
    PROVE  Round(y, b) - Round(x, b) >= 2
<1> DEFINE z == x + 2 * b
           p == x \div b
           r == x % b
           q == z \div b
           s == z % b
<1>1. p \in Int /\ r \in 0 .. b - 1 /\ x = b * p + r
  BY SMTT(30)
<1>2. q \in Int /\ s \in 0 .. b - 1 /\ x + 2 * b = b * q + s
  BY SMTT(30)
<1>3. /\ Round(x, b) = IF 2 * r > b \/ (2 * r = b /\ p % 2 = 1) THEN p + 1 ELSE p
      /\ Round(z, b) = IF 2 * s > b \/ (2 * s = b /\ q % 2 = 1) THEN q + 1 ELSE q
  BY DEF Round
<1>4. z \in Int /\ z = x + 2 * b /\ z <= y
  OBVIOUS
<1> HIDE DEF p, r, q, s, z
<1>5. b * (q - (p + 2)) = r - s
  BY <1>1, <1>2
<1>6. q = p + 2
  <2>1. ~(q - (p + 2) >= 1)
    <3> SUFFICES ASSUME q - (p + 2) >= 1 PROVE FALSE
      OBVIOUS
    <3>1. b * (q - (p + 2)) >= b * 1
      BY <1>1, <1>2
    <3>2. QED BY <3>1, <1>5, <1>1, <1>2
  <2>2. ~(q - (p + 2) <= -1)
    <3> SUFFICES ASSUME q - (p + 2) <= -1 PROVE FALSE
      OBVIOUS
    <3>1. b * (q - (p + 2)) <= b * (-1)
      BY <1>1, <1>2
    <3>2. QED BY <3>1, <1>5, <1>1, <1>2
  <2>3. QED BY <2>1, <2>2, <1>1, <1>2
<1>7. r = s
  BY <1>5, <1>6, <1>1, <1>2
<1>8. q % 2 = p % 2
  BY <1>6, <1>1
<1>9. Round(z, b) = Round(x, b) + 2
  BY <1>3, <1>6, <1>7, <1>8, <1>1
<1>10. Round(z, b) <= Round(y, b)
  BY <1>4, RoundMonotone
<1>11. Round(x, b) \in Int /\ Round(y, b) \in Int
  BY RoundInt
<1>12. QED BY <1>9, <1>10, <1>11

-----------------------------------------------------------------------------
(* The chunks cover the source, none of them with fewer than two frames      *)
LEMMA ChunksCover ==
    /\ Chunks \in Nat \ {0}
    /\ End(0) = 0 /\ End(Chunks) = Source
    /\ \A k \in 0 .. Chunks : End(k) \in 0 .. Source
    /\ \A k \in 0 .. Chunks : Source - End(k) >= 2 * (Chunks - k)
    /\ \A k \in 1 .. Chunks : Count(k) >= 2
<1> DEFINE q == Source \div Chunk
           r == Source % Chunk
<1>1. q \in Nat /\ r \in 0 .. Chunk - 1 /\ Source = Chunk * q + r
  BY ScheduleAssumption, SMTT(30)
<1> HIDE DEF q, r
<1>2. Chunks = IF r \in {0, 1} THEN q ELSE q + 1
  BY DEF Chunks, q, r
<1>3. Chunks \in Nat \ {0}
  BY <1>1, <1>2, ScheduleAssumption
<1>4. (Chunks - 1) * Chunk + 2 <= Source
  <2>1. CASE r >= 2
    BY <2>1, <1>1, <1>2, ScheduleAssumption
  <2>2. CASE r \in {0, 1}
    <3>1. (q - 1) * Chunk = q * Chunk - Chunk
      BY <1>1, ScheduleAssumption
    <3>2. QED BY <3>1, <2>2, <1>1, <1>2, ScheduleAssumption
  <2>3. QED BY <1>1, <2>1, <2>2
<1>5. ASSUME NEW k \in 0 .. Chunks - 1
      PROVE  /\ k * Chunk \in Nat /\ End(k) = k * Chunk
             /\ Source - k * Chunk >= 2 * (Chunks - k)
  <2>1. k * Chunk \in Nat
    BY ScheduleAssumption
  <2>2. (Chunks - 1 - k) * Chunk >= (Chunks - 1 - k) * 2
    BY <1>3, ScheduleAssumption
  <2>3. (Chunks - 1) * Chunk = (Chunks - 1 - k) * Chunk + k * Chunk
    BY <1>3, ScheduleAssumption
  <2>4. QED BY <2>1, <2>2, <2>3, <1>3, <1>4, ScheduleAssumption DEF End
<1>6. End(0) = 0 /\ End(Chunks) = Source
  BY <1>3, <1>5, ScheduleAssumption DEF End
<1>7. \A k \in 0 .. Chunks : End(k) \in 0 .. Source /\ Source - End(k) >= 2 * (Chunks - k)
  <2> SUFFICES ASSUME NEW k \in 0 .. Chunks
               PROVE  End(k) \in 0 .. Source /\ Source - End(k) >= 2 * (Chunks - k)
    OBVIOUS
  <2>1. CASE k = Chunks
    BY <2>1, <1>3, <1>6, ScheduleAssumption
  <2>2. CASE k \in 0 .. Chunks - 1
    BY <2>2, <1>3, <1>5, ScheduleAssumption
  <2>3. QED BY <2>1, <2>2, <1>3
<1>8. ASSUME NEW k \in 1 .. Chunks PROVE Count(k) >= 2
  <2>1. CASE k = Chunks
    BY <2>1, <1>3, <1>4, <1>5, <1>6, ScheduleAssumption DEF Count
  <2>2. CASE k \in 1 .. Chunks - 1
    <3>1. k * Chunk = (k - 1) * Chunk + Chunk
      BY ScheduleAssumption
    <3>2. End(k) = k * Chunk /\ End(k - 1) = (k - 1) * Chunk
      BY <2>2, <1>3, <1>5
    <3>3. QED BY <3>1, <3>2, <1>5, <2>2, <1>3, ScheduleAssumption DEF Count
  <2>3. QED BY <2>1, <2>2, <1>3
<1>9. QED BY <1>3, <1>6, <1>7, <1>8

(* Every chunk but the last leaves at least two frames to each of the        *)
(* following ones.                                                           *)
LEMMA Rest ==
    ASSUME NEW k \in Nat, k < Chunks
    PROVE  /\ End(k) \in Nat /\ Source - End(k) \in Nat \ {0}
           /\ Source - End(k) >= 2 * (Chunks - k)
           /\ End(Chunks) = Source /\ Source \in Nat /\ Target \in Nat /\ Chunks \in Nat
<1>1. Chunks \in Nat /\ Source \in Nat /\ k \in 0 .. Chunks
  BY ChunksCover, ScheduleAssumption
<1>2. End(k) \in 0 .. Source /\ Source - End(k) >= 2 * (Chunks - k)
  BY <1>1, ChunksCover
<1>3. Source - End(k) # 0
  BY <1>1, <1>2
<1>4. End(k) \in Nat /\ Source - End(k) \in Nat
  BY <1>1, <1>2
<1>5. End(Chunks) = Source /\ Target \in Nat
  BY ChunksCover, ScheduleAssumption
<1>6. QED BY <1>1, <1>2, <1>3, <1>4, <1>5

(* remaining_schedule, wherever it starts: the cumulative targets begin at   *)
(* none and end at exactly what is left of the contract, so the mismatch it  *)
(* guards against never occurs                                               *)
THEOREM PlanReachesTarget ==
    ASSUME NEW done \in Nat, done < Chunks, NEW produced \in Int
    PROVE  /\ After(done, produced, done) = 0
           /\ After(done, produced, Chunks) = Target - produced
<1> DEFINE left == Source - End(done)
           due  == Target - produced
<1>1. left \in Nat \ {0} /\ due \in Int /\ End(done) \in Int /\ End(Chunks) = Source
  BY Rest
<1>2. After(done, produced, Chunks) = Round(left * due, left)
  BY <1>1 DEF After
<1>3. After(done, produced, done) = Round(left * 0, left)
  <2>1. (End(done) - End(done)) * due = left * 0
    BY <1>1
  <2>2. QED BY <2>1 DEF After
<1> HIDE DEF left, due
<1>4. Round(left * due, left) = due /\ Round(left * 0, left) = 0
  BY <1>1, RoundExact
<1>5. QED BY <1>2, <1>3, <1>4 DEF due

(* A plan whose remaining target is not shorter than its remaining source    *)
(* gives every chunk its two frames: neither remaining_schedule nor, in the  *)
(* render, distributed_chunk_target_count raises                             *)
THEOREM LongEnoughIsFeasible ==
    ASSUME NEW done \in Nat, done < Chunks, NEW produced \in Int,
           Target - produced >= Source - End(done)
    PROVE  Feasible(done, produced)
<1> DEFINE left == Source - End(done)
           due  == Target - produced
<1>1. left \in Nat \ {0} /\ due \in Int /\ due >= left /\ End(done) \in Int
  BY Rest
<1>2. due >= 2 * (Chunks - done)
  BY <1>1, Rest
<1>3. ASSUME NEW k \in done + 1 .. Chunks PROVE Share(done, produced, k) >= 2
  <2> DEFINE x == (End(k - 1) - End(done)) * due
             y == (End(k) - End(done)) * due
  <2>1. End(k) \in Int /\ End(k - 1) \in Int /\ End(k) - End(k - 1) >= 2
    BY ChunksCover DEF Count
  <2>2. x \in Int /\ y \in Int /\ y - x = (End(k) - End(k - 1)) * due
    BY <2>1, <1>1
  <2>3. (End(k) - End(k - 1)) * due >= 2 * due
    BY <2>1, <1>1
  <2>4. After(done, produced, k) = Round(y, left) /\ After(done, produced, k - 1) = Round(x, left)
    BY DEF After
  <2> HIDE DEF x, y, left, due
  <2>5. Round(y, left) - Round(x, left) >= 2
    BY <2>2, <2>3, <1>1, RoundStep
  <2>6. QED BY <2>4, <2>5 DEF Share
<1>4. QED BY <1>2, <1>3, ChunksCover DEF Feasible

(* ... and a plan cut after any of its chunks is such a plan again: however  *)
(* often a render is interrupted, what is missing can be planned             *)
THEOREM CutIsLongEnough ==
    ASSUME NEW done \in Nat, NEW cut \in Nat, done < cut, cut < Chunks, NEW produced \in Int,
           Target - produced >= Source - End(done)
    PROVE  Target - (produced + After(done, produced, cut)) >= Source - End(cut)
<1> DEFINE left == Source - End(done)
           due  == Target - produced
           gone == End(cut) - End(done)
<1>1. /\ left \in Nat \ {0} /\ due \in Int /\ due >= left
      /\ gone \in Int /\ left - gone >= 0
      /\ left - gone = Source - End(cut)
  <2>1. done \in Nat /\ done < Chunks
    BY ChunksCover
  <2>2. /\ End(done) \in Nat /\ left \in Nat \ {0} /\ Source \in Nat /\ Target \in Nat
        /\ End(cut) \in Nat /\ Source - End(cut) \in Nat \ {0}
    BY <2>1, Rest
  <2>3. QED BY <2>2
<1>2. After(done, produced, cut) = Round(gone * due, left)
  BY DEF After
<1>3. due = Target - produced
  OBVIOUS
<1> HIDE DEF left, due, gone
<1>4. (left - gone) * (due - left) >= 0
  BY <1>1
<1>5. gone * due <= left * (due - left + gone)
  <2>1. left * (due - left + gone) - gone * due = (left - gone) * (due - left)
    BY <1>1
  <2>2. QED BY <2>1, <1>4, <1>1
<1>6. Round(gone * due, left) <= due - left + gone
  <2>1. Round(left * (due - left + gone), left) = due - left + gone
    BY <1>1, RoundExact
  <2>2. gone * due \in Int /\ left * (due - left + gone) \in Int
    BY <1>1
  <2>3. QED BY <2>1, <2>2, <1>5, <1>1, RoundMonotone
<1>7. Round(gone * due, left) \in Int
  <2>1. gone * due \in Int
    BY <1>1
  <2>2. QED BY <2>1, <1>1, RoundInt
<1>8. Target \in Nat /\ Source - End(cut) \in Int
  BY Rest
<1>9. QED BY <1>1, <1>2, <1>3, <1>6, <1>7, <1>8

(* The render itself: Studio never plans a chunk of fewer than two frames    *)
COROLLARY RenderIsFeasible == Feasible(0, 0)
BY LongEnoughIsFeasible, ChunksCover, ScheduleAssumption

-----------------------------------------------------------------------------
Delivering == {"finalize", "encode", "encoding", "verify", "publish", "record"}
Writing    == {"encode", "encoding", "verify", "publish"}

(* An orphan writes a draft that no running program writes or promotes       *)
OneWriter == orphan => partial = "draft" /\ pc \notin Writing

DeliveryInv ==
    /\ OneWriter
    /\ pc = "encoding" => partial = "draft"
    /\ pc = "publish" => partial = "whole"
    /\ pc = "record" => output = "delivered"
    /\ OnlyWholeDelivered

MasterInv ==
    /\ MasterFits
    /\ pc \in InStudio => master = 0
    /\ pc = "generate" => Next1 <= Chunks
    /\ pc = "concat" => Next1 > Chunks /\ Sum(segs) = Target /\ Blacks = {}
    /\ pc \in Delivering => master = Target

(* The segments are a sequence; the one that Studio is merging is not closed *)
SegsInv ==
    /\ \E S : segs \in Seq(S)
    /\ pc = "merging" => segs # <<>> /\ ~segs[Len(segs)].closed

Inv == SegsInv /\ MasterInv /\ DeliveryInv

-----------------------------------------------------------------------------
(* The constants are numbers                                                 *)
LEMMA Numbers == Chunks \in Nat /\ Target \in Nat /\ Target # 0
BY ScheduleAssumption DEF Chunks

(* An appended segment is the last of the sequence; the others stay          *)
LEMMA Appended ==
    ASSUME NEW s, NEW S, s \in Seq(S), NEW x
    PROVE  /\ Append(s, x) \in Seq(S \cup {x})
           /\ Append(s, x) # <<>>
           /\ Append(s, x)[Len(Append(s, x))] = x
           /\ \A k \in DOMAIN s : k \in DOMAIN Append(s, x) /\ Append(s, x)[k] = s[k]
<1> DEFINE T == S \cup {x}
<1>1. s \in Seq(T) /\ x \in T
  <2>1. s \in [1 .. Len(s) -> S] /\ Len(s) \in Nat
    BY LenProperties
  <2>2. QED BY <2>1
<1> HIDE DEF T
<1>2. /\ Append(s, x) \in Seq(T) /\ Append(s, x) # <<>> /\ Len(Append(s, x)) = Len(s) + 1
      /\ \A k \in 1 .. Len(s) : Append(s, x)[k] = s[k]
      /\ Append(s, x)[Len(s) + 1] = x
  BY <1>1, AppendProperties
<1>3. Len(s) \in Nat /\ DOMAIN s = 1 .. Len(s) /\ DOMAIN Append(s, x) = 1 .. Len(s) + 1
  BY <1>1, <1>2, LenProperties
<1>4. QED BY <1>2, <1>3 DEF T

(* A segment made again takes the place of the one it replaces               *)
LEMMA Replaced ==
    ASSUME NEW s, NEW S, s \in Seq(S), NEW x, NEW i \in DOMAIN s
    PROVE  /\ [s EXCEPT ![i] = x] \in Seq(S \cup {x})
           /\ DOMAIN [s EXCEPT ![i] = x] = DOMAIN s
           /\ \A k \in DOMAIN s : [s EXCEPT ![i] = x][k] = IF k = i THEN x ELSE s[k]
<1> DEFINE T == S \cup {x}
<1>1. s \in Seq(T) /\ x \in T
  <2>1. s \in [1 .. Len(s) -> S] /\ Len(s) \in Nat
    BY LenProperties
  <2>2. QED BY <2>1
<1>2. i \in 1 .. Len(s)
  BY LenProperties
<1> HIDE DEF T
<1>3. [s EXCEPT ![i] = x] \in Seq(T)
  BY <1>1, <1>2, ExceptSeq
<1>4. QED BY <1>3 DEF T

-----------------------------------------------------------------------------
(* The segments.  Only four actions touch them                               *)
LEMMA SegsStay == SegsInv /\ [Next]_vars => SegsInv'
<1> SUFFICES ASSUME SegsInv, [Next]_vars PROVE SegsInv'
  OBVIOUS
<1> PICK S : segs \in Seq(S)
  BY DEF SegsInv
<1>1. CASE segs' = segs /\ pc' # "merging"
  BY <1>1 DEF SegsInv
<1>2. CASE UNCHANGED <<segs, pc>>
  BY <1>2 DEF SegsInv
<1>3. CASE StudioMerge
  <2>1. PICK written, black :
          segs' = Append(segs, [frames |-> written, black |-> black, closed |-> FALSE])
    BY <1>3 DEF StudioMerge
  <2> DEFINE x == [frames |-> written, black |-> black, closed |-> FALSE]
  <2>2. ~x.closed
    OBVIOUS
  <2> HIDE DEF x
  <2>3. segs' = Append(segs, x)
    BY <2>1 DEF x
  <2>4. /\ Append(segs, x) \in Seq(S \cup {x}) /\ Append(segs, x) # <<>>
        /\ Append(segs, x)[Len(Append(segs, x))] = x
    BY Appended
  <2>5. QED BY <2>2, <2>3, <2>4 DEF SegsInv
<1>4. CASE StudioTidy \/ StudioKilled
  <2>1. CASE segs' = segs
    BY <1>4, <2>1, <1>1 DEF StudioTidy, StudioKilled, Go, InStudio
  <2>2. CASE segs' \in Merged /\ pc = "merging"
    <3>1. Len(segs) \in DOMAIN segs
      BY <2>2, LenProperties, EmptySeq DEF SegsInv
    <3>2. PICK black :
          segs' = [segs EXCEPT ![Len(segs)] = Made(Share(0, 0, Len(segs)), black)]
      BY <2>2 DEF Merged
    <3> DEFINE x == Made(Share(0, 0, Len(segs)), black)
    <3> HIDE DEF x
    <3>3. segs' \in Seq(S \cup {x})
      BY <3>1, <3>2, Replaced DEF x
    <3>4. QED BY <3>3, <1>4 DEF SegsInv, StudioTidy, StudioKilled, Go
  <2>3. QED BY <1>4, <2>1, <2>2 DEF StudioTidy, StudioKilled, Go
<1>5. CASE Promote
  BY <1>5, Appended DEF Promote, Go, SegsInv
<1>6. CASE RepairOne
  <2>1. PICK k \in Blacks : segs' = [segs EXCEPT ![k] = Repaired(k)]
    BY <1>6 DEF RepairOne
  <2> DEFINE x == Repaired(k)
  <2> HIDE DEF x
  <2>2. segs' \in Seq(S \cup {x})
    BY <2>1, Replaced DEF Blacks, x
  <2>3. QED BY <1>6, <2>2 DEF RepairOne, Go, SegsInv
<1>7. QED
  BY <1>1, <1>2, <1>3, <1>4, <1>5, <1>6
  DEF Next, Program, vars, delivery, control, Go, StudioExtract, Validate, Resume, BeginChunk,
      ChunkBlocked, Tidy, StopSeen, Audited, Concatenate, ReusePartial, RejectPartial,
      NoPartial, Encode, FallBack, FinishEncode, Verify, Publish, Record, Audit, RepairDone,
      Interrupted, OrphanEnds, AskStop, RemoveStop
-----------------------------------------------------------------------------
(* The master.  Once there is one, no action changes the segments            *)
LEMMA MasterStays == SegsInv /\ MasterInv /\ [Next]_vars => MasterInv'
<1> SUFFICES ASSUME SegsInv, MasterInv, [Next]_vars PROVE MasterInv'
  OBVIOUS
<1> USE DEF MasterInv, MasterFits, InStudio, Delivering, Go
<1>1. /\ Chunks \in Nat /\ Target \in Nat /\ Target # 0
      /\ Len(segs) \in Nat /\ Next1 \in Nat
  BY Numbers, LenProperties DEF SegsInv, Next1
(* Steps of a program that leaves the segments and the master as they are    *)
<1>2. ASSUME segs' = segs, master' = master,
             pc \in InStudio \/ pc' \notin InStudio,
             pc' = "generate" => Next1 <= Chunks,
             pc' # "concat",
             pc' \in Delivering => master = Target
      PROVE  MasterInv'
  BY <1>2 DEF Next1, Blacks
<1>3. CASE UNCHANGED vars
  <2>1. UNCHANGED <<segs, master, pc>>
    BY <1>3 DEF vars
  <2>2. QED BY <2>1 DEF Next1, Blacks
<1>4. CASE StudioExtract \/ StudioMerge \/ StudioTidy \/ StudioKilled
  BY <1>1, <1>4 DEF StudioExtract, StudioMerge, StudioTidy, StudioKilled
<1>5. CASE Validate \/ Resume \/ Audit
  BY <1>2, <1>5 DEF Validate, Resume, Audit
<1>6. CASE BeginChunk \/ ChunkBlocked \/ Tidy \/ StopSeen
  BY <1>2, <1>6 DEF BeginChunk, ChunkBlocked, Tidy, StopSeen
<1>7. CASE Promote
  <2>1. master' = master /\ pc = "generate" /\ pc' = "tidy"
    BY <1>7 DEF Promote
  <2>2. master = 0
    BY <2>1, <1>1
  <2>3. QED BY <2>1, <2>2
<1>8. CASE Audited
  <2>1. CASE Joinable /\ master = 0 /\ pc' = "concat"
    BY <1>8, <2>1 DEF Audited, Joinable, Next1, Blacks
  <2>2. CASE pc' # "concat"
    BY <1>2, <1>8, <2>2 DEF Audited
  <2>3. QED BY <1>8, <2>1, <2>2 DEF Audited
<1>9. CASE Concatenate
  BY <1>1, <1>9 DEF Concatenate, Next1, Blacks
<1>10. CASE ReusePartial \/ RejectPartial \/ NoPartial \/ Encode \/ FallBack
            \/ FinishEncode \/ Verify \/ Publish \/ Record
  BY <1>2, <1>10 DEF ReusePartial, RejectPartial, NoPartial, Encode, FallBack,
                     FinishEncode, Verify, Publish, Record
<1>11. CASE RepairOne
  <2>1. Blacks # {}
    BY <1>11 DEF RepairOne
  <2>2. master' = 0
    BY <1>11, <2>1 DEF RepairOne
  <2>3. pc' = "repair"
    BY <1>11 DEF RepairOne
  <2>4. QED BY <2>2, <2>3
<1>12. CASE RepairDone \/ Interrupted
  BY <1>2, <1>12 DEF RepairDone, Interrupted
<1>13. CASE OrphanEnds \/ AskStop \/ RemoveStop
  <2>1. UNCHANGED <<segs, master, pc>>
    BY <1>13 DEF OrphanEnds, AskStop, RemoveStop
  <2>2. QED BY <2>1 DEF Next1, Blacks
<1>14. QED
  BY <1>3, <1>4, <1>5, <1>6, <1>7, <1>8, <1>9, <1>10, <1>11, <1>12, <1>13 DEF Next, Program

(* The delivery.  Only a partial that is whole is promoted, and no orphan    *)
(* changes it meanwhile                                                      *)
LEMMA DeliveryStays == MasterInv /\ DeliveryInv /\ [Next]_vars => DeliveryInv'
<1> SUFFICES ASSUME MasterInv, DeliveryInv, [Next]_vars PROVE DeliveryInv'
  OBVIOUS
<1> USE DEF DeliveryInv, OneWriter, OnlyWholeDelivered, Writing, Go
<1>1. ASSUME UNCHANGED <<master, partial, orphan, output, success>>,
             pc' \notin Writing \cup {"record"}
      PROVE  DeliveryInv'
  BY <1>1
<1>2. CASE UNCHANGED vars
  BY <1>2 DEF vars, delivery
<1>3. CASE StudioExtract \/ StudioMerge \/ StudioTidy \/ StudioKilled
  BY <1>1, <1>3 DEF StudioExtract, StudioMerge, StudioTidy, StudioKilled, delivery
<1>4. CASE Validate \/ Resume \/ Audit \/ RepairOne \/ RepairDone
  BY <1>1, <1>4 DEF Validate, Resume, Audit, RepairOne, RepairDone, delivery
<1>5. CASE BeginChunk \/ ChunkBlocked \/ Promote \/ Tidy \/ StopSeen \/ Audited
  BY <1>1, <1>5 DEF BeginChunk, ChunkBlocked, Promote, Tidy, StopSeen, Audited, delivery
<1>6. CASE Concatenate
  <2>1. master' = Target
    BY <1>6 DEF Concatenate, MasterInv
  <2>2. QED BY <1>6, <2>1 DEF Concatenate, delivery
<1>7. CASE ReusePartial  BY <1>7 DEF ReusePartial, Reusable, delivery
<1>8. CASE RejectPartial BY <1>8 DEF RejectPartial
<1>9. CASE NoPartial     BY <1>9 DEF NoPartial
<1>10. CASE Encode       BY <1>10 DEF Encode
<1>11. CASE FallBack     BY <1>11 DEF FallBack
<1>12. CASE FinishEncode BY <1>12 DEF FinishEncode
<1>13. CASE Verify       BY <1>13 DEF Verify, delivery
<1>14. CASE Publish      BY <1>14 DEF Publish
<1>15. CASE Record       BY <1>15 DEF Record, MasterInv, Delivering
<1>16. CASE Interrupted  BY <1>16 DEF Interrupted
<1>17. CASE OrphanEnds   BY <1>17 DEF OrphanEnds
<1>18. CASE AskStop \/ RemoveStop
  BY <1>18 DEF AskStop, RemoveStop, delivery
<1>19. QED
  BY <1>2, <1>3, <1>4, <1>5, <1>6, <1>7, <1>8, <1>9, <1>10, <1>11, <1>12, <1>13, <1>14,
     <1>15, <1>16, <1>17, <1>18 DEF Next, Program

-----------------------------------------------------------------------------
(* The invariant of the schedule holds in every behaviour.                   *)
LEMMA InvHolds == Spec => []Inv
<1>1. Init => Inv
  <2> SUFFICES ASSUME Init PROVE Inv
    OBVIOUS
  <2>1. SegsInv
    <3>1. CASE segs = <<>> /\ pc = "studio"
      BY <3>1, EmptySeq DEF SegsInv
    <3>2. CASE pc = "idle" /\ \E n \in 1 .. Chunks : \E black \in SUBSET (1 .. n) :
                 segs = [k \in 1 .. n |-> Made(Nominal(k), k \in black)]
      <4>0. PICK n \in 1 .. Chunks : \E black \in SUBSET (1 .. n) :
              segs = [k \in 1 .. n |-> Made(Nominal(k), k \in black)]
        BY <3>2
      <4>1. PICK black \in SUBSET (1 .. n) :
              segs = [k \in 1 .. n |-> Made(Nominal(k), k \in black)]
        BY <4>0
      <4> DEFINE made(k) == Made(Nominal(k), k \in black)
                 S == {made(k) : k \in 1 .. n}
      <4>2. n \in Nat
        BY Numbers
      <4>3. \A k \in 1 .. n : made(k) \in S
        OBVIOUS
      <4>4. segs = [k \in 1 .. n |-> made(k)]
        BY <4>1
      <4> HIDE DEF S, made
      <4>5. segs \in [1 .. n -> S]
        BY <4>3, <4>4
      <4>6. segs \in Seq(S)
        BY <4>2, <4>5
      <4>7. QED BY <3>2, <4>6 DEF SegsInv
    <3>3. QED BY <3>1, <3>2 DEF Init
  <2>2. MasterInv /\ DeliveryInv
    BY DEF Init, MasterInv, MasterFits, Delivering, DeliveryInv, OneWriter, Writing,
           OnlyWholeDelivered
  <2>3. QED BY <2>1, <2>2 DEF Inv
<1>2. Inv /\ [Next]_vars => Inv'
  BY SegsStay, MasterStays, DeliveryStays DEF Inv
<1>3. QED BY <1>1, <1>2, PTL DEF Spec

(* A master fits the contract and its segments, however many runs, repairs   *)
(* and kills separate its making from its use                                *)
THEOREM MasterIsTheJoin == Spec => []MasterFits
<1>1. Inv => MasterFits
  BY DEF Inv, MasterInv
<1>2. QED BY InvHolds, <1>1, PTL

(* Only a verified file becomes the output, and success means that it did,   *)
(* although FFmpeg processes outlive the runs that started them              *)
THEOREM DeliveryIsWhole == Spec => []OnlyWholeDelivered
<1>1. Inv => OnlyWholeDelivered
  BY DEF Inv, DeliveryInv
<1>2. QED BY InvHolds, <1>1, PTL

(* No step of any program loses a finished segment or changes its length     *)
THEOREM FinishedSegmentsStay == Spec => CommittedStays
<1> DEFINE Kept == \A k \in DOMAIN segs : segs[k].closed =>
                      /\ k \in DOMAIN segs' /\ segs'[k].closed
                      /\ segs'[k].frames = segs[k].frames
                      /\ segs'[k].black => segs[k].black
<1>1. Inv /\ [Next]_vars => [Kept]_vars
  <2> SUFFICES ASSUME SegsInv, Next PROVE Kept
    BY DEF Inv
  <2> PICK S : segs \in Seq(S)
    BY DEF SegsInv
  <2>1. CASE segs' = segs
    BY <2>1
  <2>2. CASE \E x : segs' = Append(segs, x)
    BY <2>2, Appended
  <2>3. CASE pc = "merging" /\ segs' \in Merged
    <3>1. Len(segs) \in DOMAIN segs /\ ~segs[Len(segs)].closed
      BY <2>3, LenProperties, EmptySeq DEF SegsInv
    <3>2. PICK black : segs' = [segs EXCEPT ![Len(segs)] = Made(Share(0, 0, Len(segs)), black)]
      BY <2>3 DEF Merged
    <3> DEFINE x == Made(Share(0, 0, Len(segs)), black)
    <3> HIDE DEF x
    <3>3. DOMAIN segs' = DOMAIN segs /\ \A k \in DOMAIN segs : k # Len(segs) => segs'[k] = segs[k]
      BY <3>1, <3>2, Replaced DEF x
    <3>4. QED BY <3>1, <3>3
  <2>4. CASE RepairOne
    <3>1. PICK k \in Blacks : segs' = [segs EXCEPT ![k] = Repaired(k)]
      BY <2>4 DEF RepairOne
    <3> DEFINE x == Repaired(k)
    <3>2. x.closed /\ ~x.black /\ x.frames = segs[k].frames
      BY DEF Repaired, Made
    <3> HIDE DEF x
    <3>3. DOMAIN segs' = DOMAIN segs
          /\ \A i \in DOMAIN segs : segs'[i] = IF i = k THEN x ELSE segs[i]
      BY <3>1, Replaced DEF Blacks, x
    <3>4. QED BY <3>2, <3>3
  <2>5. QED
    BY <2>1, <2>2, <2>3, <2>4
    DEF Next, Program, Go, StudioExtract, StudioMerge, StudioTidy, StudioKilled, Validate, Resume,
        BeginChunk, ChunkBlocked, Promote, Tidy, StopSeen, Audited, Concatenate, ReusePartial,
        RejectPartial, NoPartial, Encode, FallBack, FinishEncode, Verify, Publish, Record, Audit,
        RepairDone, Interrupted, OrphanEnds, AskStop, RemoveStop
<1>2. QED BY InvHolds, <1>1, PTL DEF Spec, CommittedStays
-----------------------------------------------------------------------------
(* The community modules' sum over a set is a recursive function of the      *)
(* subsets: that it exists, and what it adds up to, by induction.            *)

(* A non-empty set of natural numbers has a least element.                   *)
LEMMA LeastNatural ==
    ASSUME NEW T, T \subseteq Nat, T # {}
    PROVE  \E x \in T : \A y \in T : x <= y
<1> DEFINE R == OpToRel(<, Nat)
<1>1. IsWellFoundedOn(R, Nat)
  BY NatLessThanWellFounded, Zenon
<1> HIDE DEF R
<1>2. \E x \in T : \A y \in T : ~ (<<y, x>> \in R)
  BY <1>1, WFMin
<1>3. \A x, y \in Nat : y < x => <<y, x>> \in R
  BY DEF R, OpToRel
<1>4. PICK x \in T : \A y \in T : ~ (<<y, x>> \in R)
  BY <1>2
<1>5. ASSUME NEW y \in T PROVE x <= y
  <2>1. x \in Nat /\ y \in Nat /\ ~(<<y, x>> \in R) BY <1>4
  <2>2. ~(y < x) BY <2>1, <1>3
  <2>3. QED BY <2>1, <2>2
<1>6. QED BY <1>5

(* Induction over the natural numbers, in terms of a set of them.            *)
LEMMA NaturalInduction ==
    ASSUME NEW S, 0 \in S, \A n \in Nat : n \in S => n + 1 \in S
    PROVE  Nat \subseteq S
<1> SUFFICES ASSUME Nat \ S # {} PROVE FALSE
  OBVIOUS
<1>1. PICK m \in Nat \ S : \A y \in Nat \ S : m <= y
  BY LeastNatural
<1>2. m # 0 /\ m - 1 \in Nat OBVIOUS
<1>3. m - 1 \in S BY <1>1, <1>2
<1>4. (m - 1) + 1 \in S BY <1>2, <1>3
<1>5. QED BY <1>1, <1>4

(* S gives the sum of f over every subset of D, an element after another.    *)
Pick(T) == CHOOSE x \in T : TRUE
Sums(D, f, S) ==
  S = [T \in SUBSET D |-> IF T = {} THEN 0 ELSE f[Pick(T)] + S[T \ {Pick(T)}]]
Total(f, D) == (CHOOSE S : Sums(D, f, S))[D]

(* The subsets of a finite set, and what is left of one without an element.  *)
LEMMA Subsets ==
    ASSUME NEW D, IsFiniteSet(D)
    PROVE  /\ Cardinality(D) \in Nat
           /\ \A T \in SUBSET D : /\ IsFiniteSet(T) /\ Cardinality(T) \in Nat /\ Cardinality(T) <= Cardinality(D)
                                  /\ (Cardinality(T) = 0 <=> T = {})
           /\ \A T \in SUBSET D, x \in D : T \ {x} \in SUBSET D
           /\ \A T \in SUBSET D, x \in D : x \in T => Cardinality(T \ {x}) = Cardinality(T) - 1
           /\ \A T \in SUBSET D : T # {} => Pick(T) \in T
<1>1. Cardinality(D) \in Nat
  BY FS_CardinalityType
<1>2. \A T \in SUBSET D : /\ IsFiniteSet(T) /\ Cardinality(T) \in Nat /\ Cardinality(T) <= Cardinality(D)
                          /\ (Cardinality(T) = 0 <=> T = {})
  BY FS_Subset, FS_CardinalityType, FS_EmptySet
<1>3. \A T \in SUBSET D, x \in D : T \ {x} \in SUBSET D
  OBVIOUS
<1>5. \A T \in SUBSET D, x \in D : x \in T => Cardinality(T \ {x}) = Cardinality(T) - 1
  <2>1. ASSUME NEW T \in SUBSET D, NEW x \in D, x \in T PROVE Cardinality(T \ {x}) = Cardinality(T) - 1
    <3>1. IsFiniteSet(T) BY <1>2
    <3>2. QED BY <2>1, <3>1, FS_RemoveElement
  <2>2. QED BY <2>1
<1>4. \A T \in SUBSET D : T # {} => Pick(T) \in T
  BY DEF Pick
<1>6. QED BY <1>1, <1>2, <1>3, <1>4, <1>5

(* The sums exist.                                                           *)
LEMMA SumsExist ==
    ASSUME NEW D, IsFiniteSet(D), NEW f
    PROVE  \E S : Sums(D, f, S)
<1> DEFINE few(n) == {T \in SUBSET D : Cardinality(T) <= n}
           good == {n \in Nat : \E S : S = [T \in few(n) |-> IF T = {} THEN 0 ELSE f[Pick(T)] + S[T \ {Pick(T)}]]}
<1>1. 0 \in good
  <2> DEFINE g == [T \in few(0) |-> 0]
  <2>1. \A T \in few(0) : T = {} BY Subsets
  <2>2. g = [T \in few(0) |-> IF T = {} THEN 0 ELSE f[Pick(T)] + g[T \ {Pick(T)}]] BY <2>1
  <2> HIDE DEF g
  <2>3. QED BY <2>2
<1>2. ASSUME NEW n \in Nat, n \in good PROVE n + 1 \in good
  <2>1. PICK S : S = [T \in few(n) |-> IF T = {} THEN 0 ELSE f[Pick(T)] + S[T \ {Pick(T)}]] BY <1>2
  <2> DEFINE g == [T \in few(n + 1) |-> IF T \in few(n) THEN S[T] ELSE f[Pick(T)] + S[T \ {Pick(T)}]]
  <2>2. ASSUME NEW T \in few(n + 1) PROVE g[T] = IF T = {} THEN 0 ELSE f[Pick(T)] + g[T \ {Pick(T)}]
    <3>1. CASE T = {}
      <4>1. T \in few(n) BY <3>1, Subsets
      <4>2. S[T] = 0 BY <4>1, <2>1, <3>1
      <4>3. QED BY <4>1, <4>2, <3>1
    <3>2. CASE T # {}
      <4>1. T \ {Pick(T)} \in few(n) /\ T \ {Pick(T)} \in few(n + 1) BY <3>2, Subsets
      <4>2. g[T \ {Pick(T)}] = S[T \ {Pick(T)}] BY <4>1
      <4>3. T \in few(n) => S[T] = f[Pick(T)] + S[T \ {Pick(T)}] BY <2>1, <3>2
      <4>4. g[T] = IF T \in few(n) THEN S[T] ELSE f[Pick(T)] + S[T \ {Pick(T)}] OBVIOUS
      <4>5. QED BY <4>2, <4>3, <4>4, <3>2
    <3>3. QED BY <3>1, <3>2
  <2>3. g = [T \in few(n + 1) |-> IF T = {} THEN 0 ELSE f[Pick(T)] + g[T \ {Pick(T)}]]
    <3>1. g = [T \in few(n + 1) |-> g[T]] OBVIOUS
    <3> HIDE DEF g
    <3>2. QED BY <2>2, <3>1
  <2> HIDE DEF g, few
  <2>4. \E Z : Z = [T \in few(n + 1) |-> IF T = {} THEN 0 ELSE f[Pick(T)] + Z[T \ {Pick(T)}]] BY <2>3
  <2>5. n + 1 \in Nat OBVIOUS
  <2>6. QED BY <2>4, <2>5
<1>3. Nat \subseteq good
  <2> HIDE DEF good
  <2>1. QED BY <1>1, <1>2, NaturalInduction
<1>4. few(Cardinality(D)) = SUBSET D BY Subsets
<1>5. PICK S : S = [T \in few(Cardinality(D)) |-> IF T = {} THEN 0 ELSE f[Pick(T)] + S[T \ {Pick(T)}]]
  <2>1. Cardinality(D) \in Nat BY Subsets
  <2>2. Cardinality(D) \in good BY <2>1, <1>3
  <2>3. QED BY <2>2
<1> HIDE DEF few
<1>6. S = [T \in SUBSET D |-> IF T = {} THEN 0 ELSE f[Pick(T)] + S[T \ {Pick(T)}]] BY <1>4, <1>5
<1>7. QED BY <1>6 DEF Sums

(* Two functions that agree on a set have the same sum over it.              *)
LEMMA SumsAgree ==
    ASSUME NEW D, IsFiniteSet(D), NEW f, NEW S, Sums(D, f, S),
           NEW E, IsFiniteSet(E), NEW g, NEW R, Sums(E, g, R),
           NEW U, U \subseteq D, U \subseteq E, \A x \in U : f[x] = g[x]
    PROVE  S[U] = R[U]
<1> DEFINE good == {n \in Nat : \A T \in SUBSET U : Cardinality(T) = n => S[T] = R[T]}
<1>1. IsFiniteSet(U)
  BY FS_Subset
<1>2. \A T \in SUBSET U : /\ S[T] = IF T = {} THEN 0 ELSE f[Pick(T)] + S[T \ {Pick(T)}]
                          /\ R[T] = IF T = {} THEN 0 ELSE g[Pick(T)] + R[T \ {Pick(T)}]
  BY DEF Sums
<1>3. 0 \in good
  BY <1>1, <1>2, Subsets
<1>4. ASSUME NEW n \in Nat, n \in good PROVE n + 1 \in good
  <2> SUFFICES ASSUME NEW T \in SUBSET U, Cardinality(T) = n + 1 PROVE S[T] = R[T]
    OBVIOUS
  <2>1. T # {} BY <1>1, Subsets
  <2>2. Pick(T) \in T /\ T \ {Pick(T)} \in SUBSET U /\ Cardinality(T \ {Pick(T)}) = n
    <3>1. Pick(T) \in T /\ Pick(T) \in U BY <2>1, <1>1, Subsets
    <3>2. Cardinality(T \ {Pick(T)}) = Cardinality(T) - 1 /\ T \ {Pick(T)} \in SUBSET U BY <1>1, <3>1, Subsets
    <3>3. QED BY <3>1, <3>2
  <2>3. S[T \ {Pick(T)}] = R[T \ {Pick(T)}] /\ f[Pick(T)] = g[Pick(T)] BY <2>2, <1>4
  <2>4. QED BY <2>1, <2>3, <1>2
<1> HIDE DEF good
<1>5. Nat \subseteq good
  BY <1>3, <1>4, NaturalInduction
<1>6. Cardinality(U) \in good /\ U \in SUBSET U
  BY <1>1, <1>5, Subsets
<1>7. QED BY <1>6 DEF good

(* The elements may be added in any order.                                   *)
LEMMA SumsRemove ==
    ASSUME NEW D, IsFiniteSet(D), NEW f, \A x \in D : f[x] \in Int, NEW S, Sums(D, f, S)
    PROVE  \A T \in SUBSET D : S[T] \in Int /\ \A x \in T : S[T] = f[x] + S[T \ {x}]
<1> DEFINE fine(T) == S[T] \in Int /\ \A x \in T : S[T] = f[x] + S[T \ {x}]
           good == {n \in Nat : \A T \in SUBSET D : Cardinality(T) <= n => fine(T)}
<1>1. \A T \in SUBSET D : S[T] = IF T = {} THEN 0 ELSE f[Pick(T)] + S[T \ {Pick(T)}]
  BY DEF Sums
<1>2. 0 \in good
  <2> SUFFICES ASSUME NEW T \in SUBSET D, T = {} PROVE fine(T)
    <3>1. \A T \in SUBSET D : Cardinality(T) <= 0 => T = {} BY Subsets
    <3>2. QED BY <3>1
  <2>1. S[T] = 0 BY <1>1
  <2>2. QED BY <2>1
<1>3. ASSUME NEW n \in Nat, n \in good PROVE n + 1 \in good
  <2> SUFFICES ASSUME NEW T \in SUBSET D, Cardinality(T) = n + 1 PROVE fine(T)
    <3>1. \A T \in SUBSET D : Cardinality(T) <= n + 1 => Cardinality(T) <= n \/ Cardinality(T) = n + 1
      BY Subsets
    <3> HIDE DEF fine
    <3>2. QED BY <3>1, <1>3
  <2> DEFINE c == Pick(T)
  <2>1. T # {} BY Subsets
  <2>2. c \in T BY <2>1, Subsets
  <2>3. ASSUME NEW x \in T PROVE T \ {x} \in SUBSET D /\ Cardinality(T \ {x}) = n
    <3>1. x \in D OBVIOUS
    <3>2. Cardinality(T \ {x}) = Cardinality(T) - 1 /\ T \ {x} \in SUBSET D BY <3>1, Subsets
    <3>3. QED BY <3>2
  <2>4. S[T] = f[c] + S[T \ {c}] BY <2>1, <1>1
  <2> HIDE DEF c, fine
  <2>5. \A x \in T : fine(T \ {x})
    <3>1. \A x \in T : T \ {x} \in SUBSET D /\ Cardinality(T \ {x}) <= n BY <2>3
    <3>2. QED BY <3>1, <1>3
  <2>6. S[T] \in Int
    BY <2>2, <2>4, <2>5 DEF fine
  <2>7. ASSUME NEW x \in T PROVE S[T] = f[x] + S[T \ {x}]
    <3>1. CASE x = c BY <3>1, <2>4
    <3>2. CASE x # c
      <4>1. S[T \ {c}] = f[x] + S[(T \ {c}) \ {x}]
        BY <2>2, <2>5, <3>2 DEF fine
      <4>2. S[T \ {x}] = f[c] + S[(T \ {x}) \ {c}]
        BY <2>2, <2>5, <3>2 DEF fine
      <4>3. (T \ {c}) \ {x} = (T \ {x}) \ {c}
        OBVIOUS
      <4>4. (T \ {c}) \ {x} \in SUBSET D /\ Cardinality((T \ {c}) \ {x}) <= n
        <5>1. T \ {c} \in SUBSET D /\ Cardinality(T \ {c}) = n /\ x \in T \ {c} BY <2>2, <2>3, <3>2
        <5>2. QED BY <5>1, Subsets
      <4>5. S[(T \ {c}) \ {x}] \in Int
        BY <4>4, <1>3 DEF fine
      <4>6. f[x] \in Int /\ f[c] \in Int BY <2>2
      <4>7. S[T \ {x}] = f[c] + S[(T \ {c}) \ {x}] BY <4>2, <4>3
      <4>8. QED BY ONLY <2>4, <4>1, <4>5, <4>6, <4>7
    <3>3. QED BY <3>1, <3>2
  <2>8. QED BY <2>6, <2>7 DEF fine
<1> HIDE DEF good
<1>4. Nat \subseteq good
  BY <1>2, <1>3, NaturalInduction
<1>5. ASSUME NEW T \in SUBSET D PROVE fine(T)
  <2>1. Cardinality(T) \in Nat /\ Cardinality(T) <= Cardinality(T) BY Subsets
  <2>2. Cardinality(T) \in good BY <1>4, <2>1
  <2> HIDE DEF fine
  <2>3. QED BY <2>1, <2>2 DEF good
<1>6. QED BY <1>5

(* A sum over a finite set is the value of the sums that exist.              *)
LEMMA TotalIs ==
    ASSUME NEW D, IsFiniteSet(D), NEW f
    PROVE  \E S : Sums(D, f, S) /\ Total(f, D) = S[D]
<1> DEFINE g == CHOOSE S : Sums(D, f, S)
<1>1. Sums(D, f, g) BY SumsExist
<1>2. Total(f, D) = g[D] BY DEF Total
<1> HIDE DEF g
<1>3. QED BY <1>1, <1>2

(* The sum over nothing.                                                     *)
LEMMA TotalOfNothing == ASSUME NEW f PROVE Total(f, {}) = 0
<1>1. IsFiniteSet({}) BY FS_EmptySet
<1>2. PICK S : Sums({}, f, S) /\ Total(f, {}) = S[{}] BY <1>1, TotalIs
<1>3. QED BY <1>2 DEF Sums

(* One more element adds its value.                                          *)
LEMMA TotalAdd ==
    ASSUME NEW D, IsFiniteSet(D), NEW x, x \notin D, NEW f, \A y \in D \cup {x} : f[y] \in Int
    PROVE  Total(f, D) \in Int /\ Total(f, D \cup {x}) = f[x] + Total(f, D)
<1> DEFINE E == D \cup {x}
<1>1. IsFiniteSet(E) BY FS_AddElement
<1>2. x \in E /\ E \in SUBSET E /\ E \ {x} = D /\ \A y \in E : f[y] \in Int OBVIOUS
<1> HIDE DEF E
<1>3. PICK S : Sums(E, f, S) /\ Total(f, E) = S[E] BY <1>1, TotalIs
<1>4. PICK R : Sums(D, f, R) /\ Total(f, D) = R[D] BY TotalIs
<1>5. S[E] = f[x] + S[D] /\ S[E] \in Int BY <1>1, <1>2, <1>3, SumsRemove
<1>6. S[D] = R[D]
  <2>1. D \subseteq E BY DEF E
  <2>2. QED BY <1>1, <1>3, <1>4, <2>1, SumsAgree
<1>7. R[D] \in Int
  <2>1. \A y \in D : f[y] \in Int OBVIOUS
  <2>2. D \in SUBSET D OBVIOUS
  <2>3. QED BY <1>4, <2>1, <2>2, SumsRemove
<1>8. QED BY <1>3, <1>4, <1>5, <1>6, <1>7 DEF E

(* The sum depends only on the values over the set.                          *)
LEMMA TotalSame ==
    ASSUME NEW D, IsFiniteSet(D), NEW f, NEW g, \A x \in D : f[x] = g[x]
    PROVE  Total(f, D) = Total(g, D)
<1>1. PICK S : Sums(D, f, S) /\ Total(f, D) = S[D] BY TotalIs
<1>2. PICK R : Sums(D, g, R) /\ Total(g, D) = R[D] BY TotalIs
<1>3. D \subseteq D OBVIOUS
<1>4. S[D] = R[D] BY <1>1, <1>2, <1>3, SumsAgree
<1>5. QED BY <1>1, <1>2, <1>4

(* Differences of a cumulative count add up to the difference of its ends.   *)
LEMMA Telescope ==
    ASSUME NEW a \in Nat, NEW b \in Nat, a <= b, NEW F, \A k \in a .. b : F[k] \in Int,
           NEW f, \A k \in a + 1 .. b : f[k] = F[k] - F[k - 1]
    PROVE  Total(f, a + 1 .. b) = F[b] - F[a]
<1> DEFINE good == {n \in Nat : a + n <= b => Total(f, a + 1 .. a + n) = F[a + n] - F[a]}
<1>1. 0 \in good
  <2>1. a + 1 .. a + 0 = {} OBVIOUS
  <2>2. F[a + 0] = F[a] /\ F[a] \in Int OBVIOUS
  <2>3. F[a + 0] - F[a] = 0 BY <2>2
  <2>4. QED BY <2>1, <2>3, TotalOfNothing
<1>2. ASSUME NEW n \in Nat, n \in good PROVE n + 1 \in good
  <2> SUFFICES ASSUME a + (n + 1) <= b PROVE Total(f, a + 1 .. a + (n + 1)) = F[a + (n + 1)] - F[a]
    OBVIOUS
  <2> DEFINE D == a + 1 .. a + n
             x == a + (n + 1)
  <2>1. IsFiniteSet(D) BY FS_Interval
  <2>2. x \notin D /\ a + 1 .. x = D \cup {x} /\ D \cup {x} \subseteq a + 1 .. b /\ x \in a + 1 .. b
    OBVIOUS
  <2>3. \A k \in a + 1 .. b : f[k] \in Int
    <3> TAKE k \in a + 1 .. b
    <3>1. k \in a .. b /\ k - 1 \in a .. b OBVIOUS
    <3>2. F[k] \in Int /\ F[k - 1] \in Int BY <3>1
    <3>3. QED BY <3>2
  <2>4. Total(f, D) = F[a + n] - F[a] BY <1>2
  <2>5. F[a + n] \in Int /\ F[a] \in Int /\ F[x] \in Int
    <3>1. a + n \in a .. b /\ a \in a .. b /\ x \in a .. b OBVIOUS
    <3>2. QED BY <3>1
  <2>6. f[x] = F[x] - F[a + n]
    <3>1. f[x] = F[x] - F[x - 1] BY <2>2
    <3>2. x - 1 = a + n OBVIOUS
    <3>3. QED BY <3>1, <3>2
  <2> HIDE DEF D, x
  <2>7. Total(f, D \cup {x}) = f[x] + Total(f, D) BY <2>1, <2>2, <2>3, TotalAdd
  <2>8. Total(f, D \cup {x}) = F[x] - F[a] BY ONLY <2>4, <2>5, <2>6, <2>7
  <2>9. QED BY <2>2, <2>8 DEF x
<1> HIDE DEF good
<1>3. b - a \in good BY <1>1, <1>2, NaturalInduction
<1>4. a + (b - a) = b OBVIOUS
<1>5. QED BY <1>3, <1>4 DEF good
-----------------------------------------------------------------------------
(* The plan.  What a run follows was feasible where it began, and what is    *)
(* there by now is the cumulative share of the chunks that were made.        *)
Following == {"chunk", "generate", "tidy"}

Planned ==
    /\ base.segments \in Nat /\ base.segments <= Len(segs) /\ base.target \in Int
    /\ Feasible(base.segments, base.target)
    /\ Sum(segs) = base.target + (IF base.segments = Chunks THEN 0
                                  ELSE After(base.segments, base.target, Len(segs)))

(* The segments of the render itself, but for the one that is being merged.  *)
Rendered ==
    /\ checkpoint = Origin /\ base = Origin
    /\ \A k \in DOMAIN segs : (pc = "merging" => k # Len(segs)) => segs[k].frames = Share(0, 0, k)

PlanInv ==
    /\ Len(segs) <= Chunks /\ \A k \in DOMAIN segs : segs[k].frames \in Int
    /\ checkpoint.segments \in Nat /\ checkpoint.segments <= Len(segs)
    /\ CheckpointAgrees
    /\ pc = "merge" => Next1 <= Chunks
    /\ pc \in InStudio => Rendered
    /\ pc \in Following => Planned

(* The sum over the segments, whose frames are the values of a function.     *)
FramesOf(s) == [k \in DOMAIN s |-> s[k].frames]

LEMMA SumIsTotal ==
    ASSUME NEW S, NEW s \in Seq(S)
    PROVE  Sum(s) = Total(FramesOf(s), 1 .. Len(s))
<1> DEFINE D == 1 .. Len(s)
           G(T) == [U \in SUBSET D |-> IF U = {} THEN 0 ELSE s[Pick(U)].frames + T[U \ {Pick(U)}]]
           g == CHOOSE T : T = G(T)
<1>1. DOMAIN s = D /\ IsFiniteSet(D)
  BY LenProperties, FS_Interval
<1>2. Sum(s) = g[D]
  BY <1>1 DEF Sum, MapThenSumSet, MapThenFoldSet, Pick
<1>3. ASSUME NEW T PROVE Sums(D, FramesOf(s), T) <=> T = G(T)
  <2>1. \A U \in SUBSET D : U # {} => FramesOf(s)[Pick(U)] = s[Pick(U)].frames
    <3> SUFFICES ASSUME NEW U \in SUBSET D, U # {} PROVE FramesOf(s)[Pick(U)] = s[Pick(U)].frames
      OBVIOUS
    <3>1. Pick(U) \in D BY DEF Pick
    <3>2. QED BY <3>1, <1>1 DEF FramesOf
  <2> HIDE DEF D
  <2>2. QED BY <2>1 DEF Sums
<1> HIDE DEF D, G
<1>4. \E T : T = G(T)
  BY <1>1, <1>3, SumsExist
<1>5. g = G(g)
  BY <1>4
<1> HIDE DEF g
<1>6. Sums(D, FramesOf(s), g)
  BY <1>3, <1>5
<1>7. PICK R : Sums(D, FramesOf(s), R) /\ Total(FramesOf(s), D) = R[D]
  BY <1>1, TotalIs
<1>8. g[D] = R[D]
  <2>1. D \subseteq D OBVIOUS
  <2>2. QED BY <1>1, <1>6, <1>7, <2>1, SumsAgree
<1>9. QED BY <1>2, <1>7, <1>8 DEF D

(* The same for the frames that are planned for the missing chunks.          *)
SharesOf(done, produced) == [k \in Nat |-> Share(done, produced, k)]
PlannedFrames(done, produced, first, last) ==
    MapThenSumSet(LAMBDA k : Share(done, produced, k), first .. last)

LEMMA PlannedIsTotal ==
    ASSUME NEW a, NEW b, NEW n \in Nat, NEW m \in Nat
    PROVE  PlannedFrames(a, b, n, m) = Total(SharesOf(a, b), n .. m)
<1> DEFINE D == n .. m
           G(T) == [U \in SUBSET D |-> IF U = {} THEN 0 ELSE Share(a, b, Pick(U)) + T[U \ {Pick(U)}]]
           g == CHOOSE T : T = G(T)
<1>1. IsFiniteSet(D) /\ D \subseteq Nat
  BY FS_Interval
<1>2. PlannedFrames(a, b, n, m) = g[D]
  BY DEF PlannedFrames, MapThenSumSet, MapThenFoldSet, Pick
<1>3. ASSUME NEW T PROVE Sums(D, SharesOf(a, b), T) <=> T = G(T)
  <2>1. \A U \in SUBSET D : U # {} => SharesOf(a, b)[Pick(U)] = Share(a, b, Pick(U))
    <3> SUFFICES ASSUME NEW U \in SUBSET D, U # {} PROVE SharesOf(a, b)[Pick(U)] = Share(a, b, Pick(U))
      OBVIOUS
    <3>1. Pick(U) \in D BY DEF Pick
    <3>2. QED BY <3>1, <1>1 DEF SharesOf
  <2> HIDE DEF D
  <2>2. QED BY <2>1 DEF Sums
<1> HIDE DEF D, G
<1>4. \E T : T = G(T)
  BY <1>1, <1>3, SumsExist
<1>5. g = G(g)
  BY <1>4
<1> HIDE DEF g
<1>6. Sums(D, SharesOf(a, b), g)
  BY <1>3, <1>5
<1>7. PICK R : Sums(D, SharesOf(a, b), R) /\ Total(SharesOf(a, b), D) = R[D]
  BY <1>1, TotalIs
<1>8. g[D] = R[D]
  <2>1. D \subseteq D OBVIOUS
  <2>2. QED BY <1>1, <1>6, <1>7, <2>1, SumsAgree
<1>9. QED BY <1>2, <1>7, <1>8 DEF D

(* An appended segment adds its frames.                                      *)
LEMMA SumAppended ==
    ASSUME NEW S, NEW s \in Seq(S), \A k \in DOMAIN s : s[k].frames \in Int, NEW x, x.frames \in Int
    PROVE  Sum(Append(s, x)) = Sum(s) + x.frames /\ Sum(s) \in Int
<1> DEFINE t == Append(s, x)
           D == 1 .. Len(s)
           i == Len(s) + 1
<1>1. /\ Len(s) \in Nat /\ DOMAIN s = D /\ t \in Seq(S \cup {x})
      /\ \A k \in DOMAIN s : k \in DOMAIN t /\ t[k] = s[k]
      /\ t[Len(t)] = x
  BY Appended, LenProperties
<1>2. Len(t) = i /\ DOMAIN t = 1 .. i
  <2>1. Len(t) = i BY <1>1, LenProperties
  <2>2. QED BY <2>1, <1>1, LenProperties
<1>3. IsFiniteSet(D) /\ i \notin D /\ 1 .. i = D \cup {i}
  <2>1. Len(s) \in Nat BY <1>1
  <2>2. IsFiniteSet(D) BY <2>1, FS_Interval
  <2>3. i \notin D /\ 1 .. i = D \cup {i} BY ONLY <2>1
  <2>4. QED BY <2>2, <2>3
<1> HIDE DEF t, D, i
<1>4. /\ \A k \in D : FramesOf(t)[k] = FramesOf(s)[k] /\ FramesOf(t)[k] \in Int
      /\ FramesOf(t)[i] = x.frames
  BY <1>1, <1>2, <1>3 DEF FramesOf
<1>5. Total(FramesOf(t), D) \in Int /\ Total(FramesOf(t), D \cup {i}) = x.frames + Total(FramesOf(t), D)
  <2>1. \A k \in D \cup {i} : FramesOf(t)[k] \in Int BY <1>4
  <2>2. QED BY <1>3, <1>4, <2>1, TotalAdd
<1>6. Total(FramesOf(t), D) = Total(FramesOf(s), D)
  BY <1>3, <1>4, TotalSame
<1>7. Sum(s) = Total(FramesOf(s), D) /\ Sum(t) = Total(FramesOf(t), D \cup {i})
  BY <1>1, <1>2, <1>3, SumIsTotal DEF D
<1>8. Sum(t) = Sum(s) + x.frames /\ Sum(s) \in Int
  BY <1>5, <1>6, <1>7
<1>9. QED BY <1>8 DEF t

(* Segments of the same lengths have the same sum.                           *)
LEMMA SumUnchanged ==
    ASSUME NEW S, NEW s \in Seq(S), NEW R, NEW t \in Seq(R), Len(t) = Len(s),
           \A k \in DOMAIN s : t[k].frames = s[k].frames
    PROVE  Sum(t) = Sum(s)
<1>1. DOMAIN s = 1 .. Len(s) /\ DOMAIN t = 1 .. Len(s) /\ Len(s) \in Nat
  BY LenProperties
<1>2. \A k \in 1 .. Len(s) : FramesOf(t)[k] = FramesOf(s)[k]
  BY <1>1 DEF FramesOf
<1>3. Total(FramesOf(t), 1 .. Len(s)) = Total(FramesOf(s), 1 .. Len(s))
  <2>1. IsFiniteSet(1 .. Len(s)) BY <1>1, FS_Interval
  <2>2. QED BY <1>2, <2>1, TotalSame
<1>4. QED BY <1>3, SumIsTotal

(* The cumulative targets and the shares of a plan are integers.             *)
LEMMA AfterIsInt ==
    ASSUME NEW done \in Nat, done < Chunks, NEW produced \in Int, NEW k \in 0 .. Chunks
    PROVE  After(done, produced, k) \in Int
<1>1. End(k) \in Int /\ End(done) \in Int /\ Source - End(done) \in Nat \ {0} /\ Target \in Int
  BY ChunksCover, Rest
<1>2. (End(k) - End(done)) * (Target - produced) \in Int
  BY <1>1
<1>3. QED BY <1>1, <1>2, RoundInt DEF After

(* The function f gives the chunks from one to another their shares.         *)
SharesAre(done, produced, a, b, f) ==
    /\ done \in Nat /\ done < Chunks /\ produced \in Int
    /\ a \in Nat /\ b \in Nat /\ a <= b /\ b <= Chunks
    /\ \A k \in a + 1 .. b : f[k] = Share(done, produced, k)

(* They add up to the difference of the cumulative targets.                  *)
LEMMA SharesAddUp ==
    ASSUME NEW done, NEW produced, NEW a, NEW b, NEW f, SharesAre(done, produced, a, b, f)
    PROVE  Total(f, a + 1 .. b) = After(done, produced, b) - After(done, produced, a)
<1> USE DEF SharesAre
<1> DEFINE F == [k \in 0 .. Chunks |-> After(done, produced, k)]
<1>1. Chunks \in Nat
  BY ChunksCover
<1>2. \A k \in a .. b : k \in 0 .. Chunks
  BY <1>1
<1>3. \A k \in a .. b : F[k] = After(done, produced, k) /\ F[k] \in Int
  BY <1>2, AfterIsInt
<1>4. \A k \in a + 1 .. b : f[k] = F[k] - F[k - 1]
  <2> SUFFICES ASSUME NEW k \in a + 1 .. b PROVE f[k] = F[k] - F[k - 1]
    OBVIOUS
  <2>1. k \in a .. b /\ k - 1 \in a .. b
    OBVIOUS
  <2>2. QED BY <2>1, <1>3 DEF Share
<1>5. a \in a .. b /\ b \in a .. b
  OBVIOUS
<1> HIDE DEF F
<1>6. Total(f, a + 1 .. b) = F[b] - F[a]
  <2>1. \A k \in a .. b : F[k] \in Int BY <1>3
  <2>2. QED BY <1>4, <2>1, Telescope
<1>7. QED BY <1>3, <1>5, <1>6

(* A run that follows its plan: what is there and what is planned make up    *)
(* the contract.                                                             *)
LEMMA FollowedIsExact ==
    ASSUME SegsInv, Len(segs) <= Chunks, Planned
    PROVE  LET missing == Next1 .. Chunks
               planned(k) == Share(base.segments, base.target, k)
           IN  /\ Sum(segs) + MapThenSumSet(planned, missing) = Target
               /\ \A k \in missing : planned(k) >= 2
<1> DEFINE a == base.segments
           b == base.target
           n == Len(segs)
<1>1. a \in Nat /\ a <= n /\ b \in Int /\ n \in Nat /\ n <= Chunks /\ Chunks \in Nat /\ Target \in Nat
  BY LenProperties, ChunksCover, ScheduleAssumption DEF Planned, SegsInv
<1>2. Feasible(a, b) /\ Sum(segs) = b + (IF a = Chunks THEN 0 ELSE After(a, b, n)) /\ Next1 = n + 1
  BY DEF Planned, Next1
<1>3. PlannedFrames(a, b, n + 1, Chunks) = Total(SharesOf(a, b), n + 1 .. Chunks)
  <2> HIDE DEF a, b, n
  <2>1. n + 1 \in Nat /\ Chunks \in Nat BY <1>1
  <2>2. QED BY <2>1, PlannedIsTotal
<1>4. Sum(segs) + Total(SharesOf(a, b), n + 1 .. Chunks) = Target
  <2> HIDE DEF a, b, n
  <2>1. CASE a = Chunks
    <3>1. n + 1 .. Chunks = {} /\ b = Target BY <1>1, <1>2, <2>1 DEF Feasible
    <3>2. Total(SharesOf(a, b), n + 1 .. Chunks) = 0 BY <3>1, TotalOfNothing
    <3>3. QED BY <1>1, <1>2, <2>1, <3>1, <3>2
  <2>2. CASE a < Chunks
    <3>1. \A k \in n + 1 .. Chunks : SharesOf(a, b)[k] = Share(a, b, k)
      BY <1>1 DEF SharesOf
    <3>a. a \in Nat /\ b \in Int /\ n \in Nat /\ Chunks \in Nat /\ n <= Chunks /\ Chunks <= Chunks
          /\ n \in 0 .. Chunks
      BY <1>1
    <3>2. Total(SharesOf(a, b), n + 1 .. Chunks) = After(a, b, Chunks) - After(a, b, n)
      <4>1. SharesAre(a, b, n, Chunks, SharesOf(a, b))
        BY <2>2, <3>1, <3>a DEF SharesAre
      <4>2. QED BY <4>1, SharesAddUp
    <3>3. After(a, b, Chunks) = Target - b /\ After(a, b, n) \in Int
      BY <2>2, <3>a, PlanReachesTarget, AfterIsInt
    <3>4. QED BY <1>1, <1>2, <2>2, <3>2, <3>3
  <2>3. QED BY <1>1, <2>1, <2>2
<1>5. \A k \in n + 1 .. Chunks : Share(a, b, k) >= 2
  <2> HIDE DEF a, b, n
  <2>1. \A k \in n + 1 .. Chunks : k \in a + 1 .. Chunks /\ a # Chunks BY <1>1
  <2>2. QED BY <1>2, <2>1 DEF Feasible
<1>6. Sum(segs) + PlannedFrames(a, b, n + 1, Chunks) = Target
  BY <1>3, <1>4
<1>7. n + 1 = Next1
  BY <1>2
<1>8. Sum(segs) + PlannedFrames(base.segments, base.target, Next1, Chunks) = Target
      /\ \A k \in Next1 .. Chunks : Share(base.segments, base.target, k) >= 2
  BY <1>5, <1>6, <1>7
<1> HIDE DEF a, b, n
<1>9. QED BY ONLY <1>8 DEF PlannedFrames, MapThenSumSet, MapThenFoldSet

(* The render itself follows the plan that begins with no segment.           *)
LEMMA RenderedIsPlanned ==
    ASSUME SegsInv, PlanInv, pc \in {"studio", "merge"}
    PROVE  Planned
<1> PICK S : segs \in Seq(S)
  BY DEF SegsInv
<1> DEFINE n == Len(segs)
<1>1. n \in Nat /\ n <= Chunks /\ DOMAIN segs = 1 .. n /\ Chunks \in Nat \ {0}
  BY LenProperties, ChunksCover DEF PlanInv
<1>2. base.segments = 0 /\ base.target = 0 /\ \A k \in 1 .. n : segs[k].frames = Share(0, 0, k)
  BY <1>1 DEF PlanInv, Rendered, Origin, InStudio
<1>3. \A k \in 0 + 1 .. n : FramesOf(segs)[k] = Share(0, 0, k)
  BY <1>1, <1>2 DEF FramesOf
<1> HIDE DEF n
<1>a. 0 \in Nat /\ 0 < Chunks /\ 0 \in Int /\ n \in Nat /\ 0 <= n /\ n <= Chunks /\ n \in 0 .. Chunks
  BY <1>1
<1>4. Total(FramesOf(segs), 0 + 1 .. n) = After(0, 0, n) - After(0, 0, 0)
  <2>1. SharesAre(0, 0, 0, n, FramesOf(segs))
    BY <1>a, <1>3 DEF SharesAre
  <2>2. QED BY <2>1, SharesAddUp
<1>5. After(0, 0, 0) = 0 /\ After(0, 0, n) \in Int
  BY <1>a, PlanReachesTarget, AfterIsInt
<1>6. Sum(segs) = Total(FramesOf(segs), 0 + 1 .. n)
  BY SumIsTotal DEF n
<1>7. Sum(segs) = After(0, 0, n)
  BY <1>4, <1>5, <1>6
<1>8. QED BY <1>1, <1>2, <1>5, <1>7, RenderIsFeasible DEF Planned, n

(* Two sequences with the same domain have the same length.                  *)
LEMMA SameLength ==
    ASSUME NEW S, NEW s \in Seq(S), NEW R, NEW t \in Seq(R), DOMAIN t = DOMAIN s
    PROVE  Len(t) = Len(s)
<1>1. Len(s) \in Nat /\ Len(t) \in Nat /\ 1 .. Len(t) = 1 .. Len(s)
  BY LenProperties
<1> DEFINE n == Len(s)
           m == Len(t)
<1> HIDE DEF n, m
<1>2. n \in Nat /\ m \in Nat /\ 1 .. m = 1 .. n
  BY <1>1 DEF n, m
<1>3. m = n
  BY ONLY <1>2
<1>4. QED BY <1>3 DEF n, m

(* The shares of the render itself are integers.                             *)
LEMMA ShareIsInt == ASSUME NEW k \in 1 .. Chunks PROVE Share(0, 0, k) \in Int
<1>1. Chunks \in Nat /\ k \in 0 .. Chunks /\ k - 1 \in 0 .. Chunks
  BY ChunksCover
<1>2. PICK z : z = 0
  OBVIOUS
<1>3. z \in Nat /\ z < Chunks /\ z \in Int
  BY <1>1, <1>2
<1>4. After(z, z, k) \in Int /\ After(z, z, k - 1) \in Int
  BY <1>1, <1>3, AfterIsInt
<1>5. QED BY <1>2, <1>4 DEF Share

(* What the programs begin with.                                             *)
LEMMA PlanInit == Init => PlanInv
<1> SUFFICES ASSUME Init PROVE PlanInv
  OBVIOUS
<1>1. /\ Chunks \in Nat \ {0} /\ checkpoint = Origin /\ base = Origin
      /\ checkpoint.segments = 0 /\ checkpoint.target = 0
  BY ChunksCover DEF Init, Origin
<1>2. CASE segs = <<>> /\ pc = "studio"
  <2>1. Len(segs) = 0 /\ DOMAIN segs = {}
    BY <1>2
  <2>2. QED BY <1>1, <1>2, <2>1 DEF PlanInv, CheckpointAgrees, Rendered, InStudio, Following
<1>3. CASE pc = "idle" /\ \E n \in 1 .. Chunks : \E black \in SUBSET (1 .. n) :
             segs = [k \in 1 .. n |-> Made(Nominal(k), k \in black)]
  <2>1. PICK n \in 1 .. Chunks : \E black \in SUBSET (1 .. n) :
          segs = [k \in 1 .. n |-> Made(Nominal(k), k \in black)]
    BY <1>3
  <2>2. PICK black \in SUBSET (1 .. n) : segs = [k \in 1 .. n |-> Made(Nominal(k), k \in black)]
    BY <2>1
  <2>3. n \in Nat /\ n <= Chunks
    BY <1>1
  <2>4. DOMAIN segs = 1 .. n /\ Len(segs) = n
    <3>1. DOMAIN segs = 1 .. n BY <2>2
    <3>2. QED BY <2>2, <2>3, <3>1
  <2>5. \A k \in DOMAIN segs : segs[k].frames \in Int
    <3> SUFFICES ASSUME NEW k \in 1 .. n PROVE segs[k].frames \in Int
      BY <2>4
    <3>1. segs[k].frames = Nominal(k)
      BY <2>2 DEF Made
    <3>2. k \in 0 .. Chunks /\ k - 1 \in 0 .. Chunks
      BY <2>3, <1>1
    <3>3. End(k) \in Int /\ End(k - 1) \in Int
      BY <3>2, ChunksCover
    <3>4. Count(k) * RateNum \in Int
      BY <3>3, ScheduleAssumption DEF Count
    <3>5. Round(Count(k) * RateNum, RateDen) \in Int
      BY <3>4, RoundInt, ScheduleAssumption
    <3>6. QED BY <3>1, <3>5 DEF Nominal
  <2>6. QED BY <1>1, <1>3, <2>3, <2>4, <2>5 DEF PlanInv, CheckpointAgrees, InStudio, Following
<1>4. QED BY <1>2, <1>3 DEF Init

(* A step that leaves the segments, the plan and the state file.             *)
LEMMA PlanUnmoved ==
    ASSUME PlanInv, UNCHANGED <<segs, base, checkpoint>>,
           pc' = "merge" => Next1 <= Chunks,
           pc' \in InStudio => pc \in InStudio /\ (pc = "merging" => pc' = "merging"),
           pc' \in Following => pc \in Following
    PROVE  PlanInv'
<1>1. /\ Len(segs') = Len(segs) /\ Next1' = Next1
      /\ Sum(segs') = Sum(segs)
  BY DEF Next1
<1>2. Rendered => (pc' \in InStudio => Rendered')
  BY DEF Rendered
<1>3. Planned => Planned'
  BY <1>1 DEF Planned
<1>4. CheckpointAgrees'
  BY <1>1 DEF PlanInv, CheckpointAgrees
<1>5. QED BY <1>1, <1>2, <1>3, <1>4 DEF PlanInv

(* A step that writes into the state file what is there, or the contract     *)
(* when it is reached.                                                       *)
LEMMA PlanWritten ==
    ASSUME SegsInv, PlanInv, UNCHANGED <<segs, base>>,
           \/ checkpoint' = Counted
           \/ checkpoint' = Completed /\ Next1 > Chunks /\ Sum(segs) = Target,
           pc' \notin InStudio, pc' \in Following => pc \in Following
    PROVE  PlanInv'
<1>1. /\ Len(segs') = Len(segs) /\ Next1' = Next1
      /\ Sum(segs') = Sum(segs) /\ Len(segs) \in Nat /\ Chunks \in Nat
  BY LenProperties, ChunksCover DEF Next1, SegsInv
<1>2. Planned => Planned'
  BY <1>1 DEF Planned
<1>3. /\ checkpoint'.segments \in Nat /\ checkpoint'.segments <= Len(segs)
      /\ checkpoint'.target = Sum(segs)
  BY <1>1 DEF Counted, Completed, Next1, PlanInv
<1>4. CheckpointAgrees'
  BY <1>1, <1>3 DEF CheckpointAgrees
<1>5. pc' # "merge"
  BY DEF InStudio
<1>6. QED BY <1>1, <1>2, <1>3, <1>4, <1>5 DEF PlanInv

(* A program that delivers has a master, hence all of the contract.          *)
LEMMA DeliveredIsWhole ==
    ASSUME MasterInv, pc \in Delivering
    PROVE  Next1 > Chunks /\ Sum(segs) = Target
BY Numbers DEF MasterInv, MasterFits

(* The segment that Studio merges is the next one of its plan.               *)
LEMMA PlanMerge == ASSUME SegsInv, PlanInv, StudioMerge PROVE PlanInv'
<1> PICK S : segs \in Seq(S)
  BY DEF SegsInv
<1>1. PICK written \in 0 .. Share(0, 0, Next1), black \in BOOLEAN :
        segs' = Append(segs, [frames |-> written, black |-> black, closed |-> FALSE])
  BY DEF StudioMerge
<1> DEFINE x == [frames |-> written, black |-> black, closed |-> FALSE]
           n == Len(segs)
<1>2. pc = "merge" /\ pc' = "merging" /\ base' = base /\ checkpoint' = checkpoint /\ Next1 <= Chunks
  BY DEF StudioMerge, Go, PlanInv
<1>3. n \in Nat /\ DOMAIN segs = 1 .. n /\ Next1 = n + 1 /\ Chunks \in Nat
  BY LenProperties, ChunksCover DEF Next1
<1>4. x.frames \in Int
  <2>1. Next1 \in 1 .. Chunks
    BY <1>2, <1>3
  <2>2. Share(0, 0, Next1) \in Int
    BY <2>1, ShareIsInt
  <2>3. QED BY <2>2
<1> HIDE DEF x, n
<1>5. segs' = Append(segs, x)
  BY <1>1 DEF x
<1>6. /\ segs' \in Seq(S \cup {x}) /\ segs'[Len(segs')] = x /\ Len(segs') = n + 1
      /\ DOMAIN segs' = 1 .. n + 1 /\ \A k \in 1 .. n : segs'[k] = segs[k]
  <2>1. segs' \in Seq(S \cup {x}) /\ segs'[Len(segs')] = x /\ \A k \in 1 .. n : segs'[k] = segs[k]
    BY <1>3, <1>5, Appended
  <2>2. Len(segs') = n + 1
    BY <1>5, AppendProperties DEF n
  <2>3. QED BY <2>1, <2>2, LenProperties
<1>7. \A k \in 1 .. n : segs[k].frames \in Int /\ segs[k].frames = Share(0, 0, k)
  BY <1>2, <1>3 DEF PlanInv, Rendered, InStudio
<1>8. checkpoint = Origin /\ base = Origin
  BY <1>2 DEF PlanInv, Rendered, InStudio
<1>9. \A k \in DOMAIN segs' : segs'[k].frames \in Int
  BY <1>3, <1>4, <1>6, <1>7
<1>10. Rendered'
  <2>1. \A k \in DOMAIN segs' : k # Len(segs') => segs'[k].frames = Share(0, 0, k)
    BY <1>3, <1>6, <1>7
  <2>2. QED BY <2>1, <1>2, <1>8 DEF Rendered
<1>11. CheckpointAgrees' /\ checkpoint'.segments \in Nat /\ checkpoint'.segments <= Len(segs')
  BY <1>2, <1>3, <1>6, <1>8 DEF CheckpointAgrees, Origin
<1>12. QED BY <1>2, <1>3, <1>6, <1>9, <1>10, <1>11 DEF PlanInv, Following

(* The segment is whole: it has its share.                                   *)
LEMMA PlanMerged ==
    ASSUME SegsInv, PlanInv, pc = "merging", segs' \in Merged, UNCHANGED <<base, checkpoint>>,
           pc' \in {"studio", "idle"}
    PROVE  PlanInv'
<1> PICK S : segs \in Seq(S)
  BY DEF SegsInv
<1> DEFINE n == Len(segs)
<1>1. n \in Nat /\ DOMAIN segs = 1 .. n /\ n \in DOMAIN segs /\ n <= Chunks /\ Chunks \in Nat
  BY LenProperties, EmptySeq, ChunksCover DEF SegsInv, PlanInv
<1>2. PICK black : segs' = [segs EXCEPT ![n] = Made(Share(0, 0, n), black)]
  BY DEF Merged
<1> DEFINE x == Made(Share(0, 0, n), black)
<1>3. x.frames = Share(0, 0, n) /\ x.frames \in Int
  <2>1. x.frames = Share(0, 0, n)
    BY DEF Made
  <2>2. n \in 1 .. Chunks
    BY <1>1
  <2> HIDE DEF x, n
  <2>3. Share(0, 0, n) \in Int
    BY <2>2, ShareIsInt
  <2>4. QED BY <2>1, <2>3
<1> HIDE DEF x, n
<1>4. /\ segs' \in Seq(S \cup {x}) /\ DOMAIN segs' = DOMAIN segs
      /\ \A k \in DOMAIN segs : segs'[k] = IF k = n THEN x ELSE segs[k]
  BY <1>1, <1>2, Replaced DEF x
<1>5. Len(segs') = n
  BY <1>4, SameLength DEF n
<1>6. \A k \in DOMAIN segs' : segs'[k].frames \in Int /\ segs'[k].frames = Share(0, 0, k)
  BY <1>3, <1>4 DEF PlanInv, Rendered, InStudio, n
<1>7. checkpoint = Origin /\ base = Origin
  BY DEF PlanInv, Rendered, InStudio
<1>8. Rendered'
  BY <1>6, <1>7 DEF Rendered
<1>9. CheckpointAgrees' /\ checkpoint'.segments \in Nat /\ checkpoint'.segments <= Len(segs')
  BY <1>1, <1>5, <1>7 DEF CheckpointAgrees, Origin
<1>10. QED BY <1>1, <1>5, <1>6, <1>8, <1>9 DEF PlanInv, Following

(* The plan of a resume begins with the segments it found.                   *)
LEMMA PlanResume == ASSUME SegsInv, PlanInv, Resume PROVE PlanInv'
<1> PICK S : segs \in Seq(S)
  BY DEF SegsInv
<1> DEFINE n == Len(segs)
<1>1. /\ pc' = "chunk" /\ segs' = segs /\ checkpoint' = Counted /\ base' = Counted
      /\ Feasible(n, Sum(segs))
  BY DEF Resume, Go
<1>2. n \in Nat /\ n <= Chunks /\ Chunks \in Nat
  BY LenProperties, ChunksCover DEF PlanInv
<1>3. Sum(segs) \in Int
  <2>1. 0 \in Int OBVIOUS
  <2>2. [frames |-> 0].frames \in Int OBVIOUS
  <2>3. QED BY <2>2, SumAppended DEF PlanInv
<1>4. Sum(segs) = Sum(segs) + (IF n = Chunks THEN 0 ELSE After(n, Sum(segs), n))
  <2> HIDE DEF n
  <2>1. CASE n = Chunks BY <2>1, <1>3
  <2>2. CASE n # Chunks
    <3>1. n < Chunks BY <2>2, <1>2
    <3>2. After(n, Sum(segs), n) = 0 BY <3>1, <1>2, <1>3, PlanReachesTarget
    <3>3. QED BY <3>2, <2>2, <1>3
  <2>3. QED BY <2>1, <2>2
<1>5. base'.segments = n /\ base'.target = Sum(segs) /\ Len(segs') = n /\ Sum(segs') = Sum(segs)
  BY <1>1 DEF Counted
<1>6. Planned'
  <2> HIDE DEF n
  <2>1. n <= n BY <1>2
  <2>2. QED BY <1>1, <1>2, <1>3, <1>4, <1>5, <2>1 DEF Planned
<1>7. /\ checkpoint'.segments \in Nat /\ checkpoint'.segments <= Len(segs')
      /\ CheckpointAgrees'
  BY <1>1, <1>2 DEF Counted, CheckpointAgrees
<1>8. QED BY <1>1, <1>2, <1>5, <1>6, <1>7 DEF PlanInv, InStudio

(* A promoted segment is the next share of the plan.                         *)
LEMMA PlanPromote == ASSUME SegsInv, MasterInv, PlanInv, Promote PROVE PlanInv'
<1> PICK S : segs \in Seq(S)
  BY DEF SegsInv
<1> DEFINE n == Len(segs)
           a == base.segments
           b == base.target
           x == Made(Share(a, b, Next1), FALSE)
<1>1. /\ pc = "generate" /\ pc' = "tidy" /\ segs' = Append(segs, x)
      /\ checkpoint' = checkpoint /\ base' = base
  BY DEF Promote, Go
<1>2. Next1 <= Chunks /\ Next1 = n + 1 /\ n \in Nat /\ Chunks \in Nat /\ DOMAIN segs = 1 .. n
  BY <1>1, LenProperties, ChunksCover DEF MasterInv, Next1
<1>3. Planned
  BY <1>1 DEF PlanInv, Following
<1>4. a \in Nat /\ a <= n /\ b \in Int /\ Feasible(a, b)
      /\ Sum(segs) = b + (IF a = Chunks THEN 0 ELSE After(a, b, n))
  BY <1>3 DEF Planned
<1>5. x.frames = Share(a, b, Next1)
  BY DEF Made
<1> HIDE DEF n, a, b, x
<1>6. a < Chunks /\ n \in 0 .. Chunks /\ n + 1 \in 0 .. Chunks /\ n + 1 - 1 = n
  BY <1>2, <1>4
<1>7. After(a, b, n) \in Int /\ After(a, b, n + 1) \in Int
  BY <1>4, <1>6, AfterIsInt
<1>8. x.frames = After(a, b, n + 1) - After(a, b, n) /\ x.frames \in Int
  BY <1>2, <1>5, <1>6, <1>7 DEF Share
<1>9. \A k \in DOMAIN segs : segs[k].frames \in Int
  BY DEF PlanInv
<1>10. Sum(segs') = Sum(segs) + x.frames /\ Sum(segs) \in Int
  BY <1>1, <1>8, <1>9, SumAppended
<1>11. /\ segs'[Len(segs')] = x /\ Len(segs') = n + 1
       /\ DOMAIN segs' = 1 .. n + 1 /\ \A k \in 1 .. n : segs'[k] = segs[k]
  <2>1. segs' \in Seq(S \cup {x}) /\ segs'[Len(segs')] = x /\ \A k \in 1 .. n : segs'[k] = segs[k]
    BY <1>1, <1>2, Appended
  <2>2. Len(segs') = n + 1
    BY <1>1, AppendProperties DEF n
  <2>3. QED BY <2>1, <2>2, LenProperties
<1>12. \A k \in DOMAIN segs' : segs'[k].frames \in Int
  BY <1>2, <1>8, <1>9, <1>11
<1>13. Sum(segs') = b + (IF a = Chunks THEN 0 ELSE After(a, b, n + 1))
  <2>1. b \in Int /\ Sum(segs) = b + After(a, b, n) BY <1>4, <1>6
  <2>2. Sum(segs') = b + After(a, b, n + 1)
    BY ONLY <2>1, <1>7, <1>8, <1>10
  <2>3. QED BY <2>2, <1>2, <1>4, <1>6
<1>14. Planned'
  <2>1. base'.segments = a /\ base'.target = b BY <1>1 DEF a, b
  <2>2. a <= n + 1 BY <1>2, <1>4
  <2>3. QED BY <1>4, <1>11, <1>13, <2>1, <2>2 DEF Planned
<1>15. /\ checkpoint'.segments \in Nat /\ checkpoint'.segments <= Len(segs')
       /\ CheckpointAgrees'
  <2>1. checkpoint.segments \in Nat /\ checkpoint.segments <= n
    BY DEF PlanInv, n
  <2>2. checkpoint'.segments = checkpoint.segments /\ checkpoint.segments # n + 1
        /\ checkpoint.segments <= n + 1
    BY <1>1, <1>2, <2>1
  <2>3. QED BY <2>1, <2>2, <1>11 DEF CheckpointAgrees
<1>16. QED BY <1>1, <1>2, <1>11, <1>12, <1>14, <1>15 DEF PlanInv, InStudio

(* A repaired segment has the frames of the one it replaces.                 *)
LEMMA PlanRepair == ASSUME SegsInv, PlanInv, RepairOne PROVE PlanInv'
<1> PICK S : segs \in Seq(S)
  BY DEF SegsInv
<1>1. PICK i \in Blacks : segs' = [segs EXCEPT ![i] = Repaired(i)]
  BY DEF RepairOne
<1> DEFINE x == Repaired(i)
<1>2. x.frames = segs[i].frames /\ i \in DOMAIN segs
  BY DEF Repaired, Made, Blacks
<1> HIDE DEF x
<1>3. /\ segs' \in Seq(S \cup {x}) /\ DOMAIN segs' = DOMAIN segs
      /\ \A k \in DOMAIN segs : segs'[k] = IF k = i THEN x ELSE segs[k]
  BY <1>1, <1>2, Replaced DEF x
<1>4. Len(segs') = Len(segs) /\ \A k \in DOMAIN segs : segs'[k].frames = segs[k].frames
  BY <1>2, <1>3, SameLength
<1>5. Sum(segs') = Sum(segs)
  BY <1>3, <1>4, SumUnchanged
<1>6. pc' = "repair" /\ base' = base /\ checkpoint' = checkpoint
  BY DEF RepairOne, Go
<1>7. CheckpointAgrees'
  BY <1>4, <1>5, <1>6 DEF PlanInv, CheckpointAgrees
<1>8. QED BY <1>3, <1>4, <1>6, <1>7 DEF PlanInv, InStudio, Following

(* No step of the render, a program, an orphan or the operator breaks it.     *)
LEMMA PlanStays == SegsInv /\ MasterInv /\ PlanInv /\ [Next]_vars => PlanInv'
<1> SUFFICES ASSUME SegsInv, MasterInv, PlanInv, [Next]_vars PROVE PlanInv'
  OBVIOUS
<1> USE DEF Go
<1>1. CASE UNCHANGED vars
  <2>1. UNCHANGED <<segs, base, checkpoint, pc>>
    BY <1>1 DEF vars
  <2>2. pc' = "merge" => Next1 <= Chunks
    BY <2>1 DEF PlanInv
  <2>3. QED BY <2>1, <2>2, PlanUnmoved
<1>2. CASE OrphanEnds \/ AskStop \/ RemoveStop
  <2>1. UNCHANGED <<segs, base, checkpoint, pc>>
    BY <1>2 DEF OrphanEnds, AskStop, RemoveStop
  <2>2. pc' = "merge" => Next1 <= Chunks
    BY <2>1 DEF PlanInv
  <2>3. QED BY <2>1, <2>2, PlanUnmoved
<1>3. CASE StudioExtract
  <2>1. UNCHANGED <<segs, base, checkpoint>> /\ pc = "studio" /\ pc' = "merge" /\ Next1 <= Chunks
    BY <1>3 DEF StudioExtract
  <2>2. QED BY <2>1, PlanUnmoved DEF InStudio, Following
<1>4. CASE StudioMerge
  BY <1>4, PlanMerge
<1>5. CASE StudioTidy
  BY <1>5, PlanMerged DEF StudioTidy
<1>6. CASE StudioKilled
  <2>1. /\ UNCHANGED <<base, checkpoint>> /\ pc' = "idle"
        /\ segs' = segs \/ (pc = "merging" /\ segs' \in Merged)
    <3>1. segs' \in {segs} \cup (IF pc = "merging" THEN Merged ELSE {})
      BY <1>6 DEF StudioKilled
    <3>2. segs' = segs \/ (pc = "merging" /\ segs' \in Merged)
      <4>1. CASE pc = "merging" BY <3>1, <4>1
      <4>2. CASE pc # "merging" BY <3>1, <4>2
      <4>3. QED BY <4>1, <4>2
    <3>3. UNCHANGED <<base, checkpoint>> /\ pc' = "idle"
      BY <1>6 DEF StudioKilled
    <3>4. QED BY <3>2, <3>3
  <2>2. CASE segs' = segs
    BY <2>1, <2>2, PlanUnmoved DEF InStudio, Following
  <2>3. QED BY <2>1, <2>2, PlanMerged
<1>7. CASE Validate \/ Audit
  <2>1. UNCHANGED <<segs, base>> /\ checkpoint' = Counted /\ pc' \in {"idle", "repair"}
    BY <1>7 DEF Validate, Audit
  <2>2. QED BY <2>1, PlanWritten DEF InStudio, Following
<1>8. CASE Resume
  BY <1>8, PlanResume
<1>9. CASE Tidy
  <2>1. UNCHANGED <<segs, base>> /\ checkpoint' = Counted /\ pc = "tidy" /\ pc' = "chunk"
    BY <1>9 DEF Tidy
  <2>2. QED BY <2>1, PlanWritten DEF InStudio, Following
<1>10. CASE BeginChunk \/ ChunkBlocked \/ StopSeen \/ Audited
  <2>1. /\ UNCHANGED <<segs, base, checkpoint>>
        /\ pc' \in {"idle", "concat", "finalize"} \/ (pc = "chunk" /\ pc' = "generate")
    BY <1>10 DEF BeginChunk, ChunkBlocked, StopSeen, Audited
  <2>2. QED BY <2>1, PlanUnmoved DEF InStudio, Following
<1>11. CASE Promote
  BY <1>11, PlanPromote
<1>12. CASE Concatenate
  <2>1. /\ UNCHANGED <<segs, base>> /\ checkpoint' = Completed /\ pc' = "finalize"
        /\ Next1 > Chunks /\ Sum(segs) = Target
    BY <1>12 DEF Concatenate, MasterInv
  <2>2. QED BY <2>1, PlanWritten DEF InStudio, Following
<1>13. CASE ReusePartial \/ Encode \/ FallBack \/ FinishEncode \/ Verify \/ Publish
            \/ RepairDone \/ Interrupted
  <2>1. UNCHANGED <<segs, base, checkpoint>>
    BY <1>13 DEF ReusePartial, Encode, FallBack, FinishEncode, Verify, Publish, RepairDone, Interrupted
  <2>2. pc' \in {"idle", "encoding", "encode", "verify", "publish", "record"}
    BY <1>13 DEF ReusePartial, Encode, FallBack, FinishEncode, Verify, Publish, RepairDone, Interrupted
  <2>3. QED BY <2>1, <2>2, PlanUnmoved DEF InStudio, Following
<1>14. CASE RejectPartial \/ NoPartial \/ Record
  <2>1. UNCHANGED <<segs, base>> /\ pc \in Delivering /\ pc' \in {"idle", "encode"}
        /\ (checkpoint' = checkpoint \/ checkpoint' = Completed)
    BY <1>14 DEF RejectPartial, NoPartial, Record, Delivering
  <2>2. Next1 > Chunks /\ Sum(segs) = Target
    BY <2>1, DeliveredIsWhole
  <2>3. CASE checkpoint' = checkpoint
    BY <2>1, <2>3, PlanUnmoved DEF InStudio, Following
  <2>4. CASE checkpoint' = Completed
    BY <2>1, <2>2, <2>4, PlanWritten DEF InStudio, Following
  <2>5. QED BY <2>1, <2>3, <2>4
<1>15. CASE RepairOne
  BY <1>15, PlanRepair
<1>16. QED
  BY <1>1, <1>2, <1>3, <1>4, <1>5, <1>6, <1>7, <1>8, <1>9, <1>10, <1>11, <1>12, <1>13, <1>14,
     <1>15 DEF Next, Program

(* The invariant of the plan holds in every behaviour.                       *)
LEMMA PlanInvHolds == Spec => [](SegsInv /\ PlanInv)
<1>1. Inv /\ PlanInv /\ [Next]_vars => PlanInv'
  BY PlanStays DEF Inv
<1>2. Init => PlanInv
  BY PlanInit
<1>3. Inv => SegsInv
  BY DEF Inv
<1>4. QED BY InvHolds, <1>1, <1>2, <1>3, PTL DEF Spec

(* remaining_schedule and distributed_chunk_target_count: whatever segments  *)
(* a run starts from, and however often it is killed and resumed, those that *)
(* are there and those still planned make exactly the contract's frames, and *)
(* no chunk has fewer than two                                               *)
THEOREM PlanIsExactHolds == Spec => []PlanIsExact
<1>1. SegsInv /\ PlanInv => PlanIsExact
  <2> SUFFICES ASSUME SegsInv, PlanInv, pc \in {"studio", "merge", "chunk", "generate", "tidy"}
               PROVE  LET missing == Next1 .. Chunks
                          planned(k) == Share(base.segments, base.target, k)
                      IN  /\ Sum(segs) + MapThenSumSet(planned, missing) = Target
                          /\ \A k \in missing : planned(k) >= 2
    BY DEF PlanIsExact
  <2>1. Planned
    BY RenderedIsPlanned DEF PlanInv, Following
  <2>2. Len(segs) <= Chunks
    BY DEF PlanInv
  <2>3. QED BY <2>1, <2>2, FollowedIsExact
<1>2. QED BY PlanInvHolds, <1>1, PTL

(* recovery-state.json: the pair it holds is never a reason to refuse the    *)
(* segments it counts, whenever the run that wrote it was killed             *)
THEOREM CheckpointAgreesHolds == Spec => []CheckpointAgrees
<1>1. PlanInv => CheckpointAgrees
  BY DEF PlanInv
<1>2. QED BY PlanInvHolds, <1>1, PTL
=============================================================================
