------------------------------- MODULE Components -------------------------------
(* The components that share no state but files, one to a behaviour: "subject"     *)
(* says which, and v1, v2, ... stand for its variables in the order of its vars.   *)
(* A constant of the same name in two modules is one constant here if it bounds    *)
(* the same kind of thing.                                                         *)
EXTENDS Integers, Sequences, FiniteSets

CONSTANTS
  \* NeuralChunks
  ChunkJobs, MaxFrames, ChunkFrames, ChunkFaults,
  \* RifeSafeRunner
  Targets, Native, RunChunks, RunFaults,
  \* ComposerExport
  Routes, Layers, Media, Frames, MaxExports, ExportFaults,
  \* ComposerWindow
  MaxEdits, WindowFaults,
  \* RestorationExport
  Counts, Radius, RestoreFaults,
  \* LoopEngine
  MaxRuns, LoopFaults,
  \* ProcessTree
  Pids, MaxScans, TreeFaults,
  \* Telemetry
  TimedStages, MaxEvents, MaxTime, MaxSamples, Join,
  \* MediaCache
  Renders, Stems, Quota, CacheStarts, CacheFaults,
  \* Staging
  Lengths, MaxCrashes, CopyFaults,
  \* Updates
  Parts, Launcher, MaxStages, UpdateFaults,
  \* ComponentInstall
  Versions, SizeOf, MaxCalls, InstallFaults,
  \* InstanceGuard
  Processes, MaxStarts,
  \* JobHistory
  HistoryStarts, HistoryFaults,
  \* EvidenceStore
  Kinds, Keys, Benchmarks, EvidenceRenders, Seconds, EvidenceFaults,
  \* ApplicationState
  ListEdits, StateCrashes, StateFaults

ASSUME BoundsAreNatural ==
  {MaxExports, MaxEdits, MaxRuns, MaxScans, MaxEvents, MaxTime, MaxSamples, Quota, CacheStarts,
   MaxCrashes, MaxStages, MaxCalls, MaxStarts, RunChunks, HistoryStarts, ListEdits, StateCrashes} \subseteq Nat
ASSUME GuardAssumption == Processes \cap {"absent", "unwritten"} = {}
ASSUME StateAssumption == ListEdits > 0
ASSUME InstallAssumption ==
  SizeOf \in [Versions -> Nat \ {0}] /\ Versions \cap {"none", "bad"} = {}
ASSUME StagingAssumption == Lengths \subseteq Nat \ {0}
ASSUME EvidenceAssumption ==
  /\ Kinds \subseteq {"rife", "esrgan", "cpu", "media", "encode", "trt"}
  /\ Benchmarks \cap EvidenceRenders = {} /\ "nobody" \notin Benchmarks \cup EvidenceRenders
  /\ Seconds \subseteq Nat \ {0} /\ 100 \in Seconds
ASSUME ExportAssumption ==
  /\ Frames \in Nat \ {0} /\ Routes \subseteq {"resident", "plain"}
  /\ \A l \in Layers : /\ Media[l].frames \in Nat \ {0} /\ Media[l].rate \in Nat
                       /\ {Media[l].loop, Media[l].animated} \subseteq BOOLEAN
ASSUME RestoreAssumption ==
  /\ Counts \subseteq Nat \ {0} /\ Radius \in Nat \ {0}
  /\ \E n \in Counts : \A k \in Counts : k <= n
ASSUME TreeAssumption == Pids \subseteq Nat \ {0} /\ IsFiniteSet(Pids) /\ 1 \in Pids
ASSUME ChunkAssumption ==
  /\ MaxFrames \in Nat /\ ChunkFrames \in Nat \ {0}
  /\ ChunkJobs \subseteq [stage: {"ai", "rife"}, nominal: 0 .. MaxFrames, real: 0 .. MaxFrames,
                          overlapExtract: BOOLEAN, overlapPack: BOOLEAN, cuda: BOOLEAN]
ASSUME TelemetryAssumption == Join \in Nat /\ IsFiniteSet(TimedStages)

VARIABLES subject, v1, v2, v3, v4, v5, v6, v7, v8, v9, v10, v11, v12, v13, v14, v15, v16, v17

all == <<subject, v1, v2, v3, v4, v5, v6, v7, v8, v9, v10, v11, v12, v13, v14, v15, v16, v17>>

(* --------------------------- instances --------------------------- *)

Neural == INSTANCE NeuralChunks WITH
       Jobs <- ChunkJobs, Faults <- ChunkFaults,
       job <- v1, step <- v2, processed <- v3, total <- v4, index <- v5, count <- v6, incoming <-
       v7, prefetch <- v8, pack <- v9, chunks <- v10, gpu <- v11, usedGpu <- v12, policy <- v13,
       tried <- v14, active <- v15, cancelled <- v16, outcome <- v17

Runner == INSTANCE RifeSafeRunner WITH
       Chunks <- RunChunks, Faults <- RunFaults,
       size <- v1, device <- v2, chunk <- v3, override <- v4, policy <- v5, fallback <- v6,
       attempted <- v7, used <- v8, pc <- v9, target <- v10, native <- v11, publish <- v12,
       outgoing <- v13, outcome <- v14

Export == INSTANCE ComposerExport WITH
       Faults <- ExportFaults,
       evidence <- v1, proven <- v2, pc <- v3, route <- v4, product <- v5, output <- v6, stream <-
       v7, next <- v8, cached <- v9, pixels <- v10, drawn <- v11, cancelled <- v12, result <- v13,
       exports <- v14

Window == INSTANCE ComposerWindow WITH
       Faults <- WindowFaults,
       window <- v1, edits <- v2, rendering <- v3, dirty <- v4, drawing <- v5, answered <- v6,
       running <- v7, cancel <- v8, done <- v9, exporter <- v10, exports <- v11, events <- v12,
       modal <- v13, closeAfter <- v14, confirmed <- v15, leaving <- v16

Restore == INSTANCE RestorationExport WITH
       Faults <- RestoreFaults,
       open <- v1, exports <- v2, job <- v3, cancel <- v4, pc <- v5, result <- v6, decoder <- v7,
       encoder <- v8, watching <- v9, decoded <- v10, first <- v11, target <- v12, eof <- v13,
       written <- v14, temp <- v15, output <- v16

Loop == INSTANCE LoopEngine WITH
       Faults <- LoopFaults,
       open <- v1, busy <- v2, cancelled <- v3, run <- v4, job <- v5, stage <- v6, pc <- v7, alive
       <- v8, good <- v9, handle <- v10, temps <- v11, output <- v12, events <- v13, late <- v14

Tree == INSTANCE ProcessTree WITH
       Faults <- TreeFaults,
       platform <- v1, parent <- v2, alive <- v3, stubborn <- v4, pc <- v5, tracked <- v6,
       remaining <- v7, scans <- v8, blind <- v9, told <- v10

Session == INSTANCE Telemetry WITH
       Stages <- TimedStages,
       now <- v1, stage <- v2, events <- v3, samples <- v4, taking <- v5, sampler <- v6, stopping
       <- v7, disk <- v8, joined <- v9, pc <- v10, document <- v11

Cache == INSTANCE MediaCache WITH
       MaxStarts <- CacheStarts, Faults <- CacheFaults,
       target <- v1, staged <- v2, displaced <- v3, left <- v4, mixed <- v5, master <- v6, pc <-
       v7, want <- v8, reading <- v9, pruned <- v10, starts <- v11

Copy == INSTANCE Staging WITH
       Faults <- CopyFaults,
       source <- v1, partial <- v2, destination <- v3, state <- v4, pc <- v5, call <- v6, causes <-
       v7, crashes <- v8

Update == INSTANCE Updates WITH
       Faults <- UpdateFaults,
       app <- v1, busy <- v2, available <- v3, prepared <- v4, checking <- v5, inbox <- v6, stager
       <- v7, package <- v8, pending <- v9, helper <- v10, applier <- v11, tree <- v12, backup <-
       v13, dropped <- v14, stages <- v15, crashes <- v16, killed <- v17

Install == INSTANCE ComponentInstall WITH
       Faults <- InstallFaults,
       wanted <- v1, asset <- v2, part <- v3, current <- v4, previous <- v5, pc <- v6, result <-
       v7, before <- v8, calls <- v9, crashes <- v10

Guard == INSTANCE InstanceGuard WITH
       lock <- v1, born <- v2, pc <- v3, read <- v4, tries <- v5, starts <- v6, raced <- v7

History == INSTANCE JobHistory WITH
       MaxStarts <- HistoryStarts, Faults <- HistoryFaults,
       step <- v1, status <- v2, job <- v3, plan <- v4, contracts <- v5, manifest <- v6, backup <-
       v7, delivered <- v8, missed <- v9, ring <- v10, offered <- v11, starts <- v12

Evidence == INSTANCE EvidenceStore WITH
       Renders <- EvidenceRenders, Faults <- EvidenceFaults,
       kind <- v1, readable <- v2, records <- v3, lock <- v4, pc <- v5, key <- v6, loaded <- v7,
       samples <- v8, using <- v9, revoked <- v10

State == INSTANCE ApplicationState WITH
       MaxEdits <- ListEdits, MaxCrashes <- StateCrashes, Faults <- StateFaults,
       what <- v1, primary <- v2, backup <- v3, memory <- v4, pc <- v5, closing <- v6, saved <- v7,
       before <- v8, damaged <- v9, thin <- v10, edits <- v11, crashes <- v12

(* --------------------------- the specification --------------------------- *)

Init ==
  \/ subject = "chunks" /\ Neural!Init
  \/ subject = "runner" /\ Runner!Init /\ v15 = 0 /\ v16 = 0 /\ v17 = 0
  \/ subject = "export" /\ Export!Init /\ v15 = 0 /\ v16 = 0 /\ v17 = 0
  \/ subject = "window" /\ Window!Init /\ v17 = 0
  \/ subject = "restore" /\ Restore!Init /\ v17 = 0
  \/ subject = "loop" /\ Loop!Init /\ v15 = 0 /\ v16 = 0 /\ v17 = 0
  \/ subject = "tree" /\ Tree!Init /\ v11 = 0 /\ v12 = 0 /\ v13 = 0 /\ v14 = 0 /\ v15 = 0 /\ v16 = 0 /\ v17 = 0
  \/ subject = "telemetry" /\ Session!Init /\ v12 = 0 /\ v13 = 0 /\ v14 = 0 /\ v15 = 0 /\ v16 = 0 /\ v17 = 0
  \/ subject = "cache" /\ Cache!Init /\ v12 = 0 /\ v13 = 0 /\ v14 = 0 /\ v15 = 0 /\ v16 = 0 /\ v17 = 0
  \/ subject = "staging" /\ Copy!Init /\ v9 = 0 /\ v10 = 0 /\ v11 = 0 /\ v12 = 0 /\ v13 = 0 /\ v14 = 0 /\ v15 = 0 /\ v16 = 0 /\ v17 = 0
  \/ subject = "updates" /\ Update!Init
  \/ subject = "install" /\ Install!Init /\ v11 = 0 /\ v12 = 0 /\ v13 = 0 /\ v14 = 0 /\ v15 = 0 /\ v16 = 0 /\ v17 = 0
  \/ subject = "guard" /\ Guard!Init /\ v8 = 0 /\ v9 = 0 /\ v10 = 0 /\ v11 = 0 /\ v12 = 0 /\ v13 = 0 /\ v14 = 0 /\ v15 = 0 /\ v16 = 0 /\ v17 = 0
  \/ subject = "history" /\ History!Init /\ v13 = 0 /\ v14 = 0 /\ v15 = 0 /\ v16 = 0 /\ v17 = 0
  \/ subject = "evidence" /\ Evidence!Init /\ v11 = 0 /\ v12 = 0 /\ v13 = 0 /\ v14 = 0 /\ v15 = 0 /\ v16 = 0 /\ v17 = 0
  \/ subject = "state" /\ State!Init /\ v13 = 0 /\ v14 = 0 /\ v15 = 0 /\ v16 = 0 /\ v17 = 0

Next ==
  /\ UNCHANGED subject
  /\ \/ subject = "chunks" /\ Neural!Next
     \/ subject = "runner" /\ Runner!Next /\ UNCHANGED <<v15, v16, v17>>
     \/ subject = "export" /\ Export!Next /\ UNCHANGED <<v15, v16, v17>>
     \/ subject = "window" /\ Window!Next /\ UNCHANGED <<v17>>
     \/ subject = "restore" /\ Restore!Next /\ UNCHANGED <<v17>>
     \/ subject = "loop" /\ Loop!Next /\ UNCHANGED <<v15, v16, v17>>
     \/ subject = "tree" /\ Tree!Next /\ UNCHANGED <<v11, v12, v13, v14, v15, v16, v17>>
     \/ subject = "telemetry" /\ Session!Next /\ UNCHANGED <<v12, v13, v14, v15, v16, v17>>
     \/ subject = "cache" /\ Cache!Next /\ UNCHANGED <<v12, v13, v14, v15, v16, v17>>
     \/ subject = "staging" /\ Copy!Next /\ UNCHANGED <<v9, v10, v11, v12, v13, v14, v15, v16, v17>>
     \/ subject = "updates" /\ Update!Next
     \/ subject = "install" /\ Install!Next /\ UNCHANGED <<v11, v12, v13, v14, v15, v16, v17>>
     \/ subject = "guard" /\ Guard!Next /\ UNCHANGED <<v8, v9, v10, v11, v12, v13, v14, v15, v16, v17>>
     \/ subject = "history" /\ History!Next /\ UNCHANGED <<v13, v14, v15, v16, v17>>
     \/ subject = "evidence" /\ Evidence!Next /\ UNCHANGED <<v11, v12, v13, v14, v15, v16, v17>>
     \/ subject = "state" /\ State!Next /\ UNCHANGED <<v13, v14, v15, v16, v17>>

\* Each component's own fairness; only one of the disjuncts is ever enabled.
Progress ==
  \/ subject = "chunks" /\ Neural!Next /\ Neural!Steadily /\ UNCHANGED <<subject>>
  \/ subject = "runner" /\ Runner!Next /\ UNCHANGED <<subject, v15, v16, v17>>
  \/ subject = "export" /\ Export!Step /\ UNCHANGED <<subject, v15, v16, v17>>
  \/ subject = "window" /\ Window!DrawnOrFailed /\ UNCHANGED <<subject, v17>>
  \/ subject = "restore" /\ Restore!Running /\ UNCHANGED <<subject, v17>>
  \/ subject = "loop" /\ Loop!Running /\ UNCHANGED <<subject, v15, v16, v17>>
  \/ subject = "tree" /\ Tree!Work /\ UNCHANGED <<subject, v11, v12, v13, v14, v15, v16, v17>>
  \/ subject = "telemetry" /\ (Session!Tick \/ Session!Joined \/ Session!WriteDocument) /\ UNCHANGED <<subject, v12, v13, v14, v15, v16, v17>>
  \/ subject = "staging" /\ Copy!Step /\ UNCHANGED <<subject, v9, v10, v11, v12, v13, v14, v15, v16, v17>>
  \/ subject = "updates" /\ Update!Applying /\ UNCHANGED <<subject>>
Fairness ==
  /\ WF_all(Progress)
  /\ WF_all(subject = "window" /\ Window!ExporterEnds /\ UNCHANGED <<subject, v17>>)
  /\ WF_all(subject = "window" /\ Window!FirstRender /\ UNCHANGED <<subject, v17>>)
  /\ WF_all(subject = "window" /\ (Window!ShowPreview \/ Window!FinishExport) /\ UNCHANGED <<subject, v17>>)
  /\ WF_all(subject = "window" /\ Window!StartExport /\ UNCHANGED <<subject, v17>>)
  /\ WF_all(subject = "window" /\ Window!DismissNotice /\ UNCHANGED <<subject, v17>>)
  /\ WF_all(subject = "window" /\ Window!Answer /\ UNCHANGED <<subject, v17>>)

Spec == Init /\ [][Next]_all /\ Fairness

(* --------------------------- properties --------------------------- *)

\* The type invariant of every component.
TypesOK ==
  /\ subject = "chunks" => Neural!TypeOK
  /\ subject = "runner" => Runner!TypeOK
  /\ subject = "export" => Export!TypeOK
  /\ subject = "window" => Window!TypeOK
  /\ subject = "restore" => Restore!TypeOK
  /\ subject = "loop" => Loop!TypeOK
  /\ subject = "tree" => Tree!TypeOK
  /\ subject = "telemetry" => Session!TypeOK
  /\ subject = "cache" => Cache!TypeOK
  /\ subject = "staging" => Copy!TypeOK
  /\ subject = "updates" => Update!TypeOK
  /\ subject = "install" => Install!TypeOK
  /\ subject = "guard" => Guard!TypeOK
  /\ subject = "history" => History!TypeOK
  /\ subject = "evidence" => Evidence!TypeOK
  /\ subject = "state" => State!TypeOK

\* No frame is lost, repeated or moved: the joined clip is the whole clip in order whatever the
\* chunks, their retries and the commands beside them did; a composed frame shows of each layer the
\* very frame its position asks for; a restored frame is made of its own neighbours, and written once;
\* the folder RIFE leaves is absent or whole.
FramesWhole ==
  /\ subject = "chunks" => Neural!WholeClip
  /\ subject = "export" => Export!FramesExact
  /\ subject = "restore" => Restore!FramesInOrder
  /\ subject = "runner" => Runner!PublishedWhole

\* What reaches the user's output is a whole product of a route that is still proven, and nothing
\* does once the export is cancelled; a restored clip is put in place with all its frames; the program
\* only ever starts on files of one version.
DeliveriesWhole ==
  [][/\ subject = "export" => Export!WholeProduct /\ Export!NothingAfterCancel
     /\ subject = "restore" => Restore!PublishesWhole
     /\ subject = "updates" => Update!StartsWhole]_all

\* A call that reports success has left the whole thing: the source's own blocks at the destination
\* of a staging, the pinned version of a component under its marker, a model file of one version,
\* the conversion's own output in the classic mode.
DoneIsWhole ==
  /\ subject = "loop" => Loop!DoneIsItsOwn
  /\ subject = "staging" => Copy!FaithfulCopy
  /\ subject = "install" => Install!DoneIsPinned /\ Install!AssetIsWhole

\* There is always something to go back to: a whole version while an update is applied, the tree of
\* a component while it is replaced, the last list of the queue, complete stems or none.
SomethingKept ==
  /\ subject = "updates" => Update!OneVersionKept
  /\ subject = "install" => Install!TreeKept /\ Install!FailedKeepsTree
  /\ subject = "state" => State!Recoverable
  /\ subject = "cache" => Cache!PublishedComplete

\* No step throws away what a later one needs: copied blocks, the list that is saved, the files a
\* render reads later, a preserved job that a start could offer.
NothingThrownAway ==
  [][/\ subject = "staging" => Copy!PartialKept
     /\ subject = "state" => State!LoadShowsSaved
     /\ subject = "cache" => Cache!OwnFilesKept
     /\ subject = "history" => History!ListedWhenFound]_all

\* Unless two processes acquire at the same time there is one instance, and a process is refused
\* only while another owns the lock.
OneInstance ==
  [][subject = "guard" => Guard!SingleUnlessRaced' /\ Guard!RefusedOnlyByOwner]_all

\* What is written of a render says what happened: a job is declared done, or offered again, as its
\* output is or is not in place, and the durations and samples of the stages add up.
RecordsTrue ==
  /\ subject = "history" => History!ResumeOnlyUndelivered /\ History!CompleteIsDelivered /\ History!ShadowAgrees
  /\ subject = "telemetry" => Session!SummaryAddsUp

\* A faster policy is used only as long as it is earned: measured and better by what its store asks
\* for, never after a failure withdrew it, and after a retry with less pressure never with more.
PoliciesEarned ==
  /\ subject = "evidence" => Evidence!StaysRevoked /\ Evidence!Earned
  /\ subject = "runner" => Runner!NeverUpshifts

\* Nothing outlives its owner: no process a scan knew outlives the termination of its command
\* unannounced, nor does the command itself, no window is destroyed under its export, no command of a
\* chunk works on a directory the loop has taken over, no more than three chunks lie on disk as frames,
\* no conversion of the classic mode runs a command beside another's, nor starts a second one after its
\* cancellation, and a restoration leaves no FFmpeg and no file, and holds no more frames than its
\* limit of memory counts.
NothingOutlives ==
  /\ subject = "tree" => Tree!NoneOutlives /\ Tree!CommandGone
  /\ subject = "window" => Window!WaitsForExport
  /\ subject = "chunks" => Neural!Undisturbed /\ Neural!BoundedWork
  /\ subject = "loop" => Loop!OneCommand /\ Loop!StopsSoon
  /\ subject = "restore" => Restore!NothingLeft /\ Restore!WindowBounded

\* Once the user stops editing, the preview on screen is of the project as it is.
PreviewSettles ==
  <>[](subject = "window" => Window!UpToDate)

\* Whatever has begun ends: the neural loop and its background commands, the retries of RIFE, an
\* export and its decoders, a restoration, a conversion of the classic mode, the cancellation of a
\* command, the stop of the telemetry, a staging nothing justifies refusing, the application of an
\* update.
Begun ==
  CASE subject = "chunks" -> TRUE
    [] subject = "runner" -> Runner!Trying
    [] subject = "export" -> Export!Busy
    [] subject = "window" -> Window!Exporting
    [] subject = "loop" -> Loop!Converting
    [] subject = "restore" -> Restore!Exporting
    [] subject = "tree" -> Tree!Terminating
    [] subject = "telemetry" -> Session!Stopping
    [] subject = "staging" -> TRUE
    [] subject = "updates" -> Update!Underway
    [] OTHER -> FALSE
Ended ==
  CASE subject = "chunks" -> Neural!Over
    [] subject = "runner" -> ~Runner!Trying
    [] subject = "export" -> ~Export!Busy /\ Export!NoDecoder
    [] subject = "window" -> ~Window!Exporting
    [] subject = "loop" -> ~Loop!Converting
    [] subject = "restore" -> ~Restore!Exporting
    [] subject = "tree" -> ~Tree!Terminating
    [] subject = "telemetry" -> ~Session!Stopping
    [] subject = "staging" -> Copy!Arrived
    [] subject = "updates" -> ~Update!Underway
    [] OTHER -> TRUE
EverythingEnds == Begun ~> Ended
================================================================================
