-------------------------------- MODULE Telemetry --------------------------------
(***************************************************************************)
(* The hardware telemetry of a render (hardware_telemetry.py): a thread of   *)
(* samples beside the thread that marks the stages and stops it, and what    *)
(* the document written at the end says of both.  Time is counted in ticks.  *)
(***************************************************************************)
EXTENDS Integers, Sequences, FiniteSets

CONSTANTS
  Stages,      \* names of the stages, which may come back
  MaxEvents, MaxTime, MaxSamples,
  Join         \* ticks stop() waits for the thread

VARIABLES
  now,
  stage,       \* _stage
  events,      \* <<time, name>> of every mark
  samples,     \* stage of every sample of the list
  taking,      \* the counters the thread has read and not yet appended
  sampler,     \* "wait", "take", "label", "out"
  stopping,    \* _stop
  disk,        \* the disk sampler is open
  joined,      \* ticks stop() has waited
  pc,          \* of the render: "run", "join", "write", "done"
  document     \* [samples, durations, wall] of the file

vars == <<now, stage, events, samples, taking, sampler, stopping, disk, joined, pc, document>>
thread == <<samples, taking, sampler>>

NoDocument == [samples |-> -1, durations |-> <<>>, groups |-> <<>>, wall |-> -1]
Names == Stages \cup {"startup", "unclassified"}

Init ==
  /\ now = 0 /\ stage = "startup" /\ events = <<>> /\ samples = <<>>
  /\ taking = "none" /\ sampler = "wait" /\ stopping = FALSE /\ disk = TRUE
  /\ joined = 0 /\ pc = "run" /\ document = NoDocument

Tick ==
  /\ \/ pc = "run" /\ now < MaxTime
     \/ pc = "join" /\ joined < Join
  /\ now' = now + 1
  /\ joined' = IF pc = "join" THEN joined + 1 ELSE joined
  /\ UNCHANGED <<stage, events, thread, stopping, disk, pc, document>>

(* --------------------------- the sampler --------------------------- *)

\* The interval is over, or the thread starts.
Take ==
  /\ sampler = "wait" /\ Len(samples) < MaxSamples
  /\ IF stopping THEN sampler' = "out" /\ UNCHANGED taking
     ELSE sampler' = "take" /\ taking' = stage
  /\ UNCHANGED <<now, stage, events, samples, stopping, disk, joined, pc, document>>

\* _take_sample reads the stage under the lock once the counters are read, the slow nvidia-smi last.
Label ==
  /\ sampler = "take"
  /\ IF disk THEN sampler' = "label" /\ taking' = stage
     ELSE sampler' = "wait" /\ taking' = "none"        \* the closed sampler raises
  /\ UNCHANGED <<now, stage, events, samples, stopping, disk, joined, pc, document>>

Keep ==
  /\ sampler = "label"
  /\ samples' = Append(samples, taking) /\ taking' = "none" /\ sampler' = "wait"
  /\ UNCHANGED <<now, stage, events, stopping, disk, joined, pc, document>>

(* --------------------------- the render --------------------------- *)

MarkStage ==
  /\ pc = "run" /\ Len(events) < MaxEvents
  /\ \E name \in Stages :
       stage' = name /\ events' = Append(events, <<now, name>>)
  /\ UNCHANGED <<now, thread, stopping, disk, joined, pc, document>>

Stop ==
  /\ pc = "run"
  /\ stopping' = TRUE /\ pc' = "join"
  /\ UNCHANGED <<now, stage, events, thread, disk, joined, document>>

Joined ==
  /\ pc = "join" /\ (sampler = "out" \/ joined >= Join)
  /\ pc' = "write"
  /\ UNCHANGED <<now, stage, events, thread, stopping, disk, joined, document>>

(* --------------------------- the document --------------------------- *)

\* Mutant: a stage that is entered again starts from zero.
DurationsLast ==
  LET n == Len(events)
      At(i) == IF i = 0 THEN 0 ELSE IF i > n THEN now ELSE events[i][1]
      Name(i) == IF i = 0 THEN "startup" ELSE events[i][2]
      spent[i \in 0 .. n] ==
        LET before == IF i = 0 THEN [s \in Names |-> 0] ELSE spent[i - 1]
        IN  [before EXCEPT ![Name(i)] = At(i + 1) - At(i)]
  IN  IF n = 0 THEN [s \in Names |-> IF s = "unclassified" THEN now ELSE 0] ELSE spent[n]

\* _stage_durations: a cursor walks the marks, from "startup" to the end.
Durations ==
  LET n == Len(events)
      At(i) == IF i = 0 THEN 0 ELSE IF i > n THEN now ELSE events[i][1]
      Name(i) == IF i = 0 THEN "startup" ELSE events[i][2]
      spent[i \in 0 .. n] ==
        LET before == IF i = 0 THEN [s \in Names |-> 0] ELSE spent[i - 1]
        IN  [before EXCEPT ![Name(i)] = @ + At(i + 1) - At(i)]
  IN  IF n = 0 THEN [s \in Names |-> IF s = "unclassified" THEN now ELSE 0] ELSE spent[n]

\* summarize_samples: the groups of the stages that have a duration.
Listed == IF events = <<>> THEN {"unclassified"} ELSE {"startup"} \cup {events[i][2] : i \in 1 .. Len(events)}
Groups == [s \in Names |-> IF s \in Listed THEN Cardinality({i \in 1 .. Len(samples) : samples[i] = s}) ELSE 0]

WriteDocument ==
  /\ pc = "write"
  /\ document' = [samples |-> Len(samples), durations |-> Durations, groups |-> Groups, wall |-> now]
  /\ disk' = FALSE /\ pc' = "done"
  /\ UNCHANGED <<now, stage, events, thread, stopping, joined>>

Sampler == Take \/ Label \/ Keep
Next == Tick \/ Sampler \/ MarkStage \/ Stop \/ Joined \/ WriteDocument

Spec == Init /\ [][Next]_vars /\ WF_vars(Tick) /\ WF_vars(Joined) /\ WF_vars(WriteDocument)

(* --------------------------- properties --------------------------- *)

TypeOK ==
  /\ now \in 0 .. MaxTime + Join /\ joined \in 0 .. Join /\ stage \in Names /\ samples \in Seq(Names)
  /\ sampler \in {"wait", "take", "label", "out"} /\ pc \in {"run", "join", "write", "done"}
  /\ disk \in BOOLEAN /\ stopping \in BOOLEAN

Sum(f) == LET S[T \in SUBSET DOMAIN f] == IF T = {} THEN 0 ELSE LET x == CHOOSE x \in T : TRUE IN f[x] + S[T \ {x}]
          IN  S[DOMAIN f]

\* The durations of the stages add up to the time of the render, stages that come back included,
\* and every sample is counted in the group of one stage; a render that marks no stage is the
\* exception: its samples are of "startup", which the summary does not list.
SummaryAddsUp ==
  pc = "done" =>
    /\ Sum(document.durations) = document.wall
    /\ events # <<>> => Sum(document.groups) = document.samples

\* The document is written although the sampler never comes back from nvidia-smi.
Stopping == pc \in {"join", "write"}
StopEnds == Stopping ~> ~Stopping

(* The inductive invariant (ComponentProofs): the clock never passes its bound or goes back over the *)
(* marks, and whatever is labelled, the last sample included, is labelled with a stage of the marks. *)
Marked == {"startup"} \cup {events[i][2] : i \in DOMAIN events}
Clock ==
  /\ now <= MaxTime + joined /\ (pc = "run" => joined = 0)
  /\ events \in Seq(Nat \X Names)
  /\ \A i \in DOMAIN events : events[i][1] <= now /\ \A j \in 1 .. i : events[j][1] <= events[i][1]
Labels ==
  /\ stage \in Marked /\ \A i \in DOMAIN samples : samples[i] \in Marked
  /\ sampler = "label" => taking \in Marked
Inv == TypeOK /\ Clock /\ Labels /\ SummaryAddsUp
================================================================================
