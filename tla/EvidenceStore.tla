------------------------------ MODULE EvidenceStore ------------------------------
(***************************************************************************)
(* The stores of what was measured on this machine: RIFE and Real-ESRGAN     *)
(* policies (rife_tuning.py, realesrgan_tuning.py), CPU threads              *)
(* (cpu_tuning.py), CUDA decoding (gpu_media.py), the resident encoder       *)
(* (gpu_encode.py) and TensorRT (tensorrt_preview.py).  Benchmarks record,   *)
(* renders look up and withdraw a permission that failed them, from several  *)
(* processes over one JSON file (path_transaction.py).                       *)
(***************************************************************************)
EXTENDS Integers, FiniteSets

CONSTANTS
  Kinds,       \* of {"rife", "esrgan", "cpu", "media", "encode", "trt"}
  Keys,        \* exact hardware, driver and media contracts
  Benchmarks, Renders,   \* processes
  Seconds,     \* measured times, in hundredths
  Faults       \* a subset of {"rot", "kill", "store", "gpu"}

VARIABLES
  kind,        \* the store
  readable,    \* the file parses and has the current version
  records,     \* key -> the policy of its record, 0 when there is none
  lock,        \* the process inside path_mutation_transaction
  pc, key,     \* of every process
  loaded,      \* the payload a process has read inside its transaction
  samples,     \* what a benchmark has measured
  using,       \* the policy a render runs with
  revoked      \* keys withdrawn by a render, not recorded since

vars == <<kind, readable, records, lock, pc, key, loaded, samples, using, revoked>>
file == <<readable, records>>
Parties == Benchmarks \cup Renders

\* Policy 1 is the baseline, the first candidate of every benchmark.
Tuned  == {"rife", "esrgan", "cpu"}
Tried  == IF kind \in Tuned THEN 1 .. 3 ELSE 1 .. 2
Sample == [seconds : Seconds, ok : BOOLEAN]
Nobody == "nobody"
Nothing == [k \in Keys |-> 0]
Unmeasured == [i \in Tried |-> [seconds |-> 100, ok |-> FALSE]]

Init ==
  /\ kind \in Kinds
  /\ readable = TRUE /\ records = Nothing /\ lock = Nobody
  /\ pc = [p \in Parties |-> "idle"] /\ key \in [Parties -> Keys]
  /\ loaded = [p \in Parties |-> Nothing]
  /\ samples = [b \in Benchmarks |-> Unmeasured]
  /\ using = [r \in Renders |-> 1] /\ revoked = {}

(* --------------------------- the winner --------------------------- *)

Fastest(s) == CHOOSE i \in DOMAIN s :
  /\ s[i].ok
  /\ \A j \in DOMAIN s : s[j].ok => s[i].seconds < s[j].seconds \/ (s[i].seconds = s[j].seconds /\ i <= j)

\* MIN_TUNING_SPEEDUP and its like, in hundredths.
Speedup(s, i, least) == 100 * s[1].seconds >= least * s[i].seconds

\* rife_tuning: the baseline must be accepted, and is kept unless the winner is 3% faster.
RifeWinner(s) ==
  IF ~s[1].ok THEN 0 ELSE IF Speedup(s, Fastest(s), 103) THEN Fastest(s) ELSE 1

\* realesrgan_tuning does the same.
RealEsrganWinner(s) == RifeWinner(s)

\* cpu_tuning takes the fastest valid one.
CpuWinner(s) == IF \E i \in DOMAIN s : s[i].ok THEN Fastest(s) ELSE 0

\* The evidence of one CUDA candidate against the CPU.
MediaWinner(s)    == IF s[2].ok /\ Speedup(s, 2, 103) THEN 2 ELSE 0
EncodeWinner(s)   == MediaWinner(s)
TensorRtWinner(s) == IF s[2].ok /\ Speedup(s, 2, 115) THEN 2 ELSE 0

Winner(s) ==
  CASE kind = "rife" -> RifeWinner(s) [] kind = "esrgan" -> RealEsrganWinner(s)
    [] kind = "cpu" -> CpuWinner(s)   [] kind = "media" -> MediaWinner(s)
    [] kind = "encode" -> EncodeWinner(s) [] kind = "trt" -> TensorRtWinner(s)

(* --------------------------- the transaction --------------------------- *)

Goto(p, label) == pc' = [pc EXCEPT ![p] = label]

\* Mutant: the store is not locked.
LockNever(p) ==
  /\ pc[p] = "wait"
  /\ lock' = p /\ Goto(p, "load")
  /\ UNCHANGED <<kind, file, key, loaded, samples, using, revoked>>

Lock(p) ==
  /\ pc[p] = "wait" /\ lock = Nobody
  /\ lock' = p /\ Goto(p, "load")
  /\ UNCHANGED <<kind, file, key, loaded, samples, using, revoked>>

Load(p) ==
  /\ pc[p] = "load"
  /\ loaded' = [loaded EXCEPT ![p] = IF readable THEN records ELSE Nothing]
  /\ Goto(p, "write")
  /\ UNCHANGED <<kind, file, lock, key, samples, using, revoked>>

\* The lock is released and the local variables are gone.
Leave(p) ==
  /\ lock' = IF lock = p THEN Nobody ELSE lock
  /\ loaded' = [loaded EXCEPT ![p] = Nothing]
  /\ samples' = [b \in Benchmarks |-> IF b = p THEN Unmeasured ELSE samples[b]]

\* record_samples and record: one replaced file, and the lock is left.
Record(b) ==
  /\ pc[b] = "write"
  /\ readable' = TRUE /\ records' = [loaded[b] EXCEPT ![key[b]] = Winner(samples[b])]
  /\ revoked' = revoked \ {key[b]}
  /\ Leave(b) /\ Goto(b, "idle")
  /\ UNCHANGED <<kind, key, using>>

\* invalidate: nothing is written when the record is gone already.
Invalidate(r) ==
  /\ pc[r] = "write"
  /\ IF loaded[r][key[r]] = 0 THEN UNCHANGED file
     ELSE readable' = TRUE /\ records' = [loaded[r] EXCEPT ![key[r]] = 0]
  /\ revoked' = revoked \cup {key[r]}
  /\ Leave(r) /\ Goto(r, "baseline")
  /\ UNCHANGED <<kind, key, using>>

\* The write fails, or the lock is not had in thirty seconds: the exception leaves the caller.
StoreFails(p) ==
  /\ pc[p] = "write" \/ (pc[p] = "wait" /\ lock # Nobody)
  /\ Leave(p) /\ Goto(p, IF p \in Renders THEN "failed" ELSE "idle")
  /\ UNCHANGED <<kind, file, key, using, revoked>>

\* A process dies; the system releases its lock, and at most a temporary file is left.
Kill(p) ==
  /\ pc[p] \in {"wait", "load", "write"}
  /\ Leave(p) /\ Goto(p, "idle")
  /\ UNCHANGED <<kind, file, key, using, revoked>>

Rot ==
  /\ readable /\ readable' = FALSE
  /\ UNCHANGED <<kind, records, lock, pc, key, loaded, samples, using, revoked>>

(* --------------------------- benchmarks and renders --------------------------- *)

\* benchmark_and_record: every candidate is run; without a winner nothing is recorded.
Measure(b) ==
  /\ pc[b] = "idle"
  /\ \E s \in [Tried -> Sample], k \in Keys :
       /\ Winner(s) # 0
       /\ samples' = [samples EXCEPT ![b] = s] /\ key' = [key EXCEPT ![b] = k]
  /\ Goto(b, "wait")
  /\ UNCHANGED <<kind, file, lock, loaded, using, revoked>>

\* lookup and approved, without the lock.
Lookup(k) == IF readable /\ records[k] # 0 THEN records[k] ELSE 1

Start(r) ==
  /\ pc[r] = "idle" /\ kind \notin Tuned
  /\ \E k \in Keys : key' = [key EXCEPT ![r] = k] /\ using' = [using EXCEPT ![r] = Lookup(k)]
  /\ Goto(r, IF using'[r] = 1 THEN "baseline" ELSE "fast")
  /\ UNCHANGED <<kind, file, lock, loaded, samples, revoked>>

\* What each caller does of a failure of the fast path.
MediaFails(why)    == IF why = "gpu" THEN "wait" ELSE "baseline"
EncodeFails(why)   == IF why = "other" THEN "failed" ELSE "wait"
TensorRtFails(why) == "wait"

FastFails(r, why) ==
  /\ pc[r] = "fast"
  /\ Goto(r, CASE kind = "media" -> MediaFails(why) [] kind = "encode" -> EncodeFails(why)
               [] kind = "trt" -> TensorRtFails(why))
  /\ using' = [using EXCEPT ![r] = 1]
  /\ UNCHANGED <<kind, file, lock, key, loaded, samples, revoked>>

Ends(r) ==
  /\ pc[r] \in {"fast", "baseline", "failed"}
  /\ Goto(r, "idle") /\ using' = [using EXCEPT ![r] = 1]
  /\ UNCHANGED <<kind, file, lock, key, loaded, samples, revoked>>

Next ==
  \/ \E b \in Benchmarks : Measure(b) \/ Record(b)
  \/ \E r \in Renders : Start(r) \/ Invalidate(r) \/ Ends(r)
  \/ "gpu" \in Faults /\ \E r \in Renders, why \in {"oom", "gpu", "other"} : FastFails(r, why)
  \/ \E p \in Parties : Lock(p) \/ Load(p)
  \/ "store" \in Faults /\ \E p \in Parties : StoreFails(p)
  \/ "kill" \in Faults /\ \E p \in Parties : Kill(p)
  \/ "rot" \in Faults /\ Rot

Spec == Init /\ [][Next]_vars

(* --------------------------- properties --------------------------- *)

TypeOK ==
  /\ kind \in Kinds /\ readable \in BOOLEAN /\ records \in [Keys -> 0 .. 3]
  /\ lock \in Parties \cup {Nobody} /\ key \in [Parties -> Keys]
  /\ pc \in [Parties -> {"idle", "wait", "load", "write", "fast", "baseline", "failed"}]
  /\ loaded \in [Parties -> [Keys -> 0 .. 3]]
  /\ using \in [Renders -> 1 .. 3] /\ revoked \subseteq Keys

\* A fast path that failed a render is not used again before a benchmark has measured it anew:
\* no writer of another key brings the withdrawn record back, and no process that dies does.
StaysRevoked == readable => \A k \in revoked : records[k] = 0

\* What a benchmark is about to record was measured good, and nothing measured good is clearly
\* faster; a policy that is not the baseline is worth the speedup its store asks for.
Earned ==
  \A b \in Benchmarks : pc[b] = "write" =>
    LET s == samples[b]
        w == Winner(s)
        least == IF kind = "trt" THEN 115 ELSE IF kind = "cpu" THEN 100 ELSE 103
    IN /\ w # 0 /\ s[w].ok
       /\ w # 1 /\ s[1].ok => 100 * s[1].seconds >= least * s[w].seconds
       /\ \A i \in DOMAIN s : s[i].ok => 100 * s[w].seconds < 103 * s[i].seconds \/ kind \notin Tuned

\* "Callers still fail closed to their CPU/conservative path for every runtime exception."  Does
\* not hold: the resident encoder raises what it does not take for a failure of the GPU.
FallsBack ==
  [][\A r \in Renders : pc[r] \in {"fast", "wait", "write"} => pc'[r] # "failed"]_vars

(* The inductive invariant (ComponentProofs): inside the transaction the file is the payload that *)
(* was read, and a benchmark that is not idle has measured a winner.                              *)
Locked ==
  \A p \in Parties :
    /\ pc[p] \in {"load", "write"} => lock = p
    /\ pc[p] = "write" => /\ readable => loaded[p] = records
                          /\ \A k \in revoked : loaded[p][k] = 0
Measured ==
  /\ \A b \in Benchmarks :
       /\ pc[b] \in {"idle", "wait", "load", "write"}
       /\ pc[b] # "idle" => Winner(samples[b]) # 0
  /\ \A r \in Renders : pc[r] = "fast" => kind \notin Tuned
Shape == TypeOK /\ samples \in [Benchmarks -> [Tried -> Sample]]
Inv == Shape /\ Locked /\ Measured /\ StaysRevoked
================================================================================
