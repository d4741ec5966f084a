----------------------------- MODULE StudioProofs -----------------------------
(***************************************************************************)
(* What the window, its render thread and the recovery dialogs guarantee    *)
(* for any number of items and restarts, as long as nobody starts a run     *)
(* while a timer of less than half a second is pending.                     *)
(***************************************************************************)
EXTENDS Studio, TLAPS

-----------------------------------------------------------------------------
(* The inductive invariant.  Types: the variables the argument rests on      *)
Types ==
    /\ status \in [Ids -> Statuses] /\ active \in Ids \cup {0}
    /\ running \in BOOLEAN /\ busy \in BOOLEAN /\ cancelled \in BOOLEAN
    /\ greeted \in BOOLEAN /\ timers \in {0, 1}
    /\ events \in {<<>>, <<"done">>, <<"cancelled">>, <<"error">>}
    /\ pc \in Locations /\ output \in Outputs /\ lease \in Lives \cup {0}
    /\ disk \in Disks /\ life \in Lives

(* Flow: one thing at a time.  A timer of the queue, a worker, its event     *)
Flow ==
    /\ timers = 1 => running /\ ~busy
    /\ running => busy \/ timers = 1
    /\ pc \notin {"off", "cleanup"} => busy /\ events = <<>>
    /\ events # <<>> => busy
    /\ pc # "off" => lease = life
    /\ running /\ busy => active \in Queued
    /\ ~greeted => pc = "off" /\ ~busy /\ events = <<>> /\ timers = 0

(* Partials: when there can be none, and where the worker's is               *)
Writing == {"encode", "encoding", "verify", "commit", "discard"}
Bare    == {"setup", "plan", "clear", "tell", "unlist"}
Empty(d) == \A f \in Outputs \X Lives : d.partial[f] = "none"
Files ==
    /\ Referenced(disk) /\ Sound(disk)
    /\ pc \in Writing => disk.journal = [pid |-> life, output |-> output]
    /\ pc = "commit" => disk.partial[My(output)] = "whole"
    /\ pc \in Bare \/ timers = 1 \/ events = <<"done">> => Empty(disk)

StudioInv == Types /\ Flow /\ RenderingIsActive /\ Files

-----------------------------------------------------------------------------
(* The operators on the disk                                                 *)
LEMMA DiskOperators ==
    ASSUME NEW d \in Disks, NEW o \in Outputs, NEW l \in Lives
    PROVE  /\ Claimed(d, l) \in Disks /\ Listed(d, o, l) \in Disks /\ Cleared(d) \in Disks
           /\ Discarded(d, <<o, l>>) \in Disks /\ Committed(d, <<o, l>>) \in Disks
           /\ \A c \in Contents : WithPartial(d, <<o, l>>, c) \in Disks
<1> USE SafeOutputAssumption DEF Disks, Journals
<1>1. Claimed(d, l) \in Disks /\ Listed(d, o, l) \in Disks /\ Cleared(d) \in Disks
  BY DEF Claimed, Listed, Cleared
<1>2. \A c \in Contents : WithPartial(d, <<o, l>>, c) \in Disks
  BY DEF WithPartial
<1>3. Discarded(d, <<o, l>>) \in Disks
  BY <1>2 DEF Discarded, Contents
<1>4. Committed(d, <<o, l>>) \in Disks
  BY DEF Committed, Contents, Finals
<1>5. QED BY <1>1, <1>2, <1>3, <1>4

(* A partial that the journal does not preserve does not exist               *)
LEMMA UnpreservedIsEmpty ==
    ASSUME NEW d \in Disks, Referenced(d), ~Preserved(d)
    PROVE  Empty(d)
<1> SUFFICES ASSUME NEW f \in Outputs \X Lives, d.partial[f] # "none" PROVE FALSE
  BY DEF Empty
<1>1. f = <<d.journal.output, d.journal.pid>>
  BY DEF Referenced, NamedBy
<1>2. d.journal.output # 0
  BY <1>1, SafeOutputAssumption
<1>3. QED
  BY <1>1, <1>2 DEF Preserved, NamedBy

(* On an empty disk whatever is preserved is referred to.                    *)
LEMMA EmptyIsReferenced ==
    ASSUME NEW d, Empty(d)
    PROVE  Referenced(d)
BY DEF Empty, Referenced

(* Clearing the scratch leaves the partials and the outputs, and nothing     *)
(* preserved.                                                                *)
LEMMA ClearedDisk ==
    ASSUME NEW d \in Disks
    PROVE  /\ Cleared(d).partial = d.partial /\ Cleared(d).final = d.final
           /\ Empty(d) => Empty(Cleared(d))
           /\ Sound(d) => Sound(Cleared(d))
           /\ ~Preserved(Cleared(d))
BY DEF Cleared, Disks, NoJournal, Empty, Sound, Preserved

(* Promoting a verified partial, or discarding it, leaves none behind        *)
LEMMA NamedPartial ==
    ASSUME NEW d \in Disks, Referenced(d), Sound(d), Preserved(d)
    PROVE  /\ \E o \in Outputs, l \in Lives : NamedBy(d) = <<o, l>>
           /\ Empty(Discarded(d, NamedBy(d))) /\ Sound(Discarded(d, NamedBy(d)))
           /\ d.partial[NamedBy(d)] = "whole" =>
                Empty(Committed(d, NamedBy(d))) /\ Sound(Committed(d, NamedBy(d)))
<1> DEFINE f == NamedBy(d)
<1>1. PICK o \in Outputs, l \in Lives : f = <<o, l>>
  <2>1. d.journal \in [pid : Lives, output : Outputs \cup {0}]
    BY DEF Preserved, Disks, Journals, NoJournal
  <2>2. QED BY <2>1 DEF NamedBy, Preserved
<1>2. f \in Outputs \X Lives /\ f[1] = o
  BY <1>1
<1>3. \A g \in Outputs \X Lives : g # f => d.partial[g] = "none"
  BY DEF Referenced
<1>4. Empty(Discarded(d, f)) /\ Sound(Discarded(d, f))
  BY <1>2, <1>3 DEF Discarded, WithPartial, Empty, Sound, Disks
<1>5. d.partial[f] = "whole" => Empty(Committed(d, f)) /\ Sound(Committed(d, f))
  BY <1>2, <1>3 DEF Committed, Empty, Sound, Disks
<1>6. QED BY <1>1, <1>4, <1>5

(* What the recovery dialogs leave: the same guarantees, and no partial at   *)
(* all when a new run may begin                                              *)
LEMMA RecoveredDisks ==
    ASSUME NEW d \in Disks, Referenced(d), Sound(d), NEW r \in Recovered(d)
    PROVE  /\ r \in Disks /\ Referenced(r) /\ Sound(r)
           /\ Empty(d) \/ ~Preserved(r) => Empty(r)
<1>1. CASE ~Preserved(d)
  <2>1. r = Cleared(d) /\ Empty(d)
    BY <1>1, UnpreservedIsEmpty DEF Recovered
  <2>2. r \in Disks
    BY <2>1 DEF Cleared, Disks, Journals
  <2>3. QED BY <2>1, <2>2, ClearedDisk, EmptyIsReferenced
<1>2. CASE Preserved(d)
  <2>1. PICK o \in Outputs, l \in Lives : NamedBy(d) = <<o, l>>
    BY <1>2, NamedPartial
  <2>2. CASE r = d
    BY <2>2, UnpreservedIsEmpty
  <2>3. CASE r # d
    <3> DEFINE c == Committed(d, NamedBy(d))
    <3>1. d.partial[NamedBy(d)] = "whole" /\ r = Cleared(c)
      BY <1>2, <2>3 DEF Recovered
    <3>2. c \in Disks
      BY <2>1, DiskOperators
    <3>3. Empty(c) /\ Sound(c)
      BY <1>2, <3>1, NamedPartial
    <3> HIDE DEF c
    <3>4. r \in Disks
      BY <3>1, <3>2 DEF Cleared, Disks, Journals
    <3>5. QED BY <3>1, <3>2, <3>3, <3>4, ClearedDisk, EmptyIsReferenced
  <2>4. QED BY <2>2, <2>3
<1>3. QED BY <1>1, <1>2

(* Preparing a render empties its disk and keeps it sound.                   *)
LEMMA PreparedDisks ==
    ASSUME NEW d \in Disks, Referenced(d), Sound(d), NEW r \in Prepared(d)
    PROVE  r \in Disks /\ Empty(r) /\ Sound(r)
<1>1. CASE r \in Recovered(d) /\ ~Preserved(r)
  BY <1>1, RecoveredDisks
<1>2. CASE ~(r \in Recovered(d) /\ ~Preserved(r))
  <2>1. Preserved(d) /\ r = Cleared(Discarded(d, NamedBy(d)))
    BY <1>2 DEF Prepared
  <2>2. PICK o \in Outputs, l \in Lives : NamedBy(d) = <<o, l>>
    BY <2>1, NamedPartial
  <2> DEFINE c == Discarded(d, NamedBy(d))
  <2>3. c \in Disks
    BY <2>2, DiskOperators
  <2>4. Empty(c) /\ Sound(c)
    BY <2>1, NamedPartial
  <2> HIDE DEF c
  <2>5. r = Cleared(c)
    BY <2>1 DEF c
  <2>6. r \in Disks
    BY <2>3, <2>5 DEF Cleared, Disks, Journals
  <2>7. QED BY <2>3, <2>4, <2>5, <2>6, ClearedDisk
<1>3. QED BY <1>1, <1>2

-----------------------------------------------------------------------------
(* Starting a run                                                            *)
LEMMA LaunchKeeps ==
    ASSUME StudioInv, NEW d \in Disks, Empty(d), Sound(d), NEW o \in Outputs, Launch(o, d)
    PROVE  /\ pc = "off" /\ pc' = "setup" /\ output' \in Outputs /\ lease' = life
           /\ busy' = TRUE /\ cancelled' = FALSE
           /\ disk' \in Disks /\ Empty(disk') /\ Sound(disk') /\ Referenced(disk')
<1> DEFINE c == Claimed(d, life)
<1>1. life \in Lives
  BY DEF StudioInv, Types
<1>2. c \in Disks /\ c.partial = d.partial /\ c.final = d.final
  BY <1>1, DiskOperators DEF Claimed, Disks
<1> HIDE DEF c
<1>3. disk' = [c EXCEPT !.final[o] = "previous"]
  BY DEF Launch, c
<1>4. disk' \in Disks
  BY <1>2, <1>3 DEF Disks, Finals
<1>5. Empty(disk') /\ Sound(disk')
  BY <1>2, <1>3 DEF Disks, Empty, Sound
<1>6. pc = "off"
  BY DEF Launch, StudioInv, Flow
<1>7. QED BY <1>4, <1>5, <1>6, EmptyIsReferenced DEF Launch

(* _run_next_queue_item, called when nothing runs, keeps the invariant       *)
LEMMA RunNextKeeps ==
    ASSUME StudioInv, ~busy, events = <<>>, greeted,
           NEW st \in [Ids -> Statuses], \A i \in Ids : st[i] # "Renderizando",
           NEW d \in Disks, Empty(d), Sound(d),
           RunNextFrom(st, d, 0), UNCHANGED <<ui, greeted, events, life>>
    PROVE  StudioInv'
<1>1. pc \in {"off", "cleanup"} /\ Queued' = Queued
  BY DEF StudioInv, Flow, Queued, ui
<1>2. Referenced(d)
  BY EmptyIsReferenced
<1>3. CASE NothingWaits(st, d, 0)
  <2>1. Types'
    BY <1>1, <1>3 DEF NothingWaits, StudioInv, Types, Flow, worker
  <2>2. Flow'
    BY <1>1, <1>3 DEF NothingWaits, StudioInv, Types, Flow, worker
  <2>3. RenderingIsActive' /\ Files'
    BY <1>1, <1>2, <1>3 DEF NothingWaits, StudioInv, Types, Flow, Files, worker,
       RenderingIsActive, Writing, Bare
  <2>4. QED BY <2>1, <2>2, <2>3 DEF StudioInv
<1>4. ASSUME NEW i \in Waiting(st), RejectNext(i, st, d, 0) PROVE StudioInv'
  <2>1. i \in Ids
    BY <1>4 DEF Waiting, Queued
  <2>2. Types' /\ Flow'
    BY <1>1, <1>4, <2>1 DEF RejectNext, StudioInv, Types, Flow, worker, Statuses
  <2>3. RenderingIsActive' /\ Files'
    BY <1>1, <1>2, <1>4, <2>1 DEF RejectNext, StudioInv, Types, Flow, Files, worker,
       RenderingIsActive, Writing, Bare
  <2>4. QED BY <2>2, <2>3 DEF StudioInv
<1>5. ASSUME NEW i \in Waiting(st), LaunchNext(i, st, d, 0) PROVE StudioInv'
  <2>1. i \in Ids /\ i \in Queued
    BY <1>5 DEF Waiting, Queued
  <2>2. i \in Outputs
    BY <2>1, StudioAssumption DEF Ids
  <2>3. Launch(i, d)
    BY <1>5 DEF LaunchNext
  <2>4. /\ pc' = "setup" /\ output' \in Outputs /\ lease' = life
        /\ busy' = TRUE /\ cancelled' = FALSE
        /\ disk' \in Disks /\ Empty(disk') /\ Sound(disk') /\ Referenced(disk')
    BY <2>2, <2>3, LaunchKeeps
  <2>5. Types'
    BY <1>5, <2>1, <2>4 DEF LaunchNext, StudioInv, Types, Statuses, Locations
  <2>6. Flow'
    BY <1>1, <1>5, <2>1, <2>4 DEF LaunchNext, StudioInv, Types, Flow
  <2>7. RenderingIsActive' /\ Files'
    BY <1>1, <1>5, <2>1, <2>4 DEF LaunchNext, StudioInv, Types, RenderingIsActive, Files,
       Writing, Bare
  <2>8. QED BY <2>5, <2>6, <2>7 DEF StudioInv
<1>6. CASE NextRefused(st, d, 0)
  <2>1. Types'
    BY <1>1, <1>6 DEF NextRefused, StudioInv, Types, Flow, worker
  <2>2. Flow'
    BY <1>1, <1>6 DEF NextRefused, StudioInv, Types, Flow, worker
  <2>3. RenderingIsActive' /\ Files'
    BY <1>1, <1>2, <1>6 DEF NextRefused, StudioInv, Types, Flow, Files, worker,
       RenderingIsActive, Writing, Bare
  <2>4. QED BY <2>1, <2>2, <2>3 DEF StudioInv
<1>7. QED
  BY <1>3, <1>4, <1>5, <1>6 DEF RunNextFrom

-----------------------------------------------------------------------------
(* The render thread.  While it writes, the journal names its partial        *)
LEMMA WritingFacts ==
    ASSUME StudioInv, pc \in Writing
    PROVE  /\ My(output) \in Outputs \X Lives /\ NamedBy(disk) = My(output)
           /\ \A c \in Contents :
                LET d == WithPartial(disk, My(output), c)
                IN  /\ d \in Disks /\ d.journal = disk.journal /\ Referenced(d) /\ Sound(d)
                    /\ d.partial[My(output)] = c
                    /\ c = "none" => Empty(d)
<1>1. /\ life \in Lives /\ output \in Outputs /\ disk \in Disks /\ Referenced(disk) /\ Sound(disk)
      /\ disk.journal = [pid |-> life, output |-> output]
  BY DEF StudioInv, Types, Files
<1>2. My(output) = <<output, life>> /\ NamedBy(disk) = My(output)
  BY <1>1 DEF My, NamedBy
<1>3. \A g \in Outputs \X Lives : g # My(output) => disk.partial[g] = "none"
  BY <1>1, <1>2 DEF Referenced
<1>4. ASSUME NEW c \in Contents PROVE
        LET d == WithPartial(disk, My(output), c)
        IN  /\ d \in Disks /\ d.journal = disk.journal /\ Referenced(d) /\ Sound(d)
            /\ d.partial[My(output)] = c
            /\ c = "none" => Empty(d)
  <2> DEFINE d == WithPartial(disk, My(output), c)
  <2>1. d \in Disks
    BY <1>1, <1>2, DiskOperators
  <2>2. /\ d.journal = disk.journal /\ d.final = disk.final
        /\ d.partial = [disk.partial EXCEPT ![My(output)] = c]
    BY <1>1 DEF WithPartial, Disks
  <2>3. disk.partial \in [Outputs \X Lives -> Contents]
    BY <1>1 DEF Disks
  <2> HIDE DEF d
  <2>4. Sound(d)
    BY <1>1, <2>2 DEF Sound
  <2>5. d.partial[My(output)] = c /\ \A g \in Outputs \X Lives : g # My(output) => d.partial[g] = "none"
    BY <1>1, <1>2, <1>3, <2>2, <2>3
  <2>6. Referenced(d) /\ (c = "none" => Empty(d))
    BY <1>2, <2>2, <2>5 DEF Referenced, Empty, NamedBy
  <2>7. QED BY <2>1, <2>2, <2>4, <2>5, <2>6 DEF d
<1>5. QED BY <1>1, <1>2, <1>4

(* A step of the render thread keeps the invariant.                          *)
LEMMA WorkerKeeps ==
    ASSUME StudioInv, RenderThread
    PROVE  StudioInv'
<1> USE DEF AtPc, GoOn, Tell, WorkerOnly
<1>1. /\ UNCHANGED <<ui, status, flags, timers, greeted, life>>
      /\ output' = output /\ pc # "off"
  BY DEF RenderThread, SetUp, Plan, Encode, FinishEncode, FallBack, Verify, Commit,
     ClearJournal, TellDone, Discard, TellCancelled, TellError, CleanUp
<1>2. RenderingIsActive'
  BY <1>1 DEF StudioInv, RenderingIsActive, flags
<1>3. Queued' = Queued
  BY <1>1 DEF Queued, ui
<1>4. Flow'
  BY <1>1, <1>3 DEF RenderThread, SetUp, Plan, Encode, FinishEncode, FallBack, Verify, Commit,
     ClearJournal, TellDone, Discard, TellCancelled, TellError, CleanUp, StudioInv, Types,
     Flow, flags
<1>5. pc' \in Locations /\ lease' \in Lives \cup {0}
  BY <1>1 DEF RenderThread, SetUp, Plan, Encode, FinishEncode, FallBack, Verify, Commit,
     ClearJournal, TellDone, Discard, TellCancelled, TellError, CleanUp, StudioInv, Types,
     Locations
<1>6. events' \in {<<>>, <<"done">>, <<"cancelled">>, <<"error">>}
  <2>1. \/ events' = events
        \/ \E kind \in {"done", "cancelled", "error"} :
             events' = Append(events, kind) /\ pc \in {"tell", "unlist", "fail"}
    BY DEF RenderThread, SetUp, Plan, Encode, FinishEncode, FallBack, Verify, Commit,
       ClearJournal, TellDone, Discard, TellCancelled, TellError, CleanUp
  <2>2. pc \in {"tell", "unlist", "fail"} => events = <<>>
    BY DEF StudioInv, Flow
  <2>3. \A kind : Append(<<>>, kind) = <<kind>>
    OBVIOUS
  <2>4. QED BY <2>1, <2>2, <2>3 DEF StudioInv, Types
<1>7. disk' \in Disks /\ Files'
  <2>1. disk \in Disks /\ life \in Lives /\ output \in Outputs
    BY DEF StudioInv, Types
  <2>2. timers = 1 => pc \in {"off", "cleanup"}
    BY DEF StudioInv, Flow
  <2> USE <1>1, <2>1, <2>2 DEF Writing, Bare
  <2>3. CASE SetUp \/ TellDone \/ TellError \/ CleanUp
    <3>1. UNCHANGED disk /\ pc' \in {"plan", "off", "cleanup"} /\ (pc' = "plan" => pc = "setup")
      BY <2>3 DEF SetUp, TellDone, TellError, CleanUp
    <3>2. events' = <<"done">> => events = <<"done">> \/ pc = "tell"
      <4>1. CASE TellError
        <5>1. events' = <<"error">>
          BY <4>1 DEF TellError, StudioInv, Flow
        <5>2. QED BY <5>1
      <4>2. CASE ~TellError
        BY <2>3, <4>2 DEF SetUp, TellDone, CleanUp
      <4>3. QED BY <4>1, <4>2
    <3>3. QED BY <3>1, <3>2 DEF StudioInv, Files
  <2>4. CASE Verify
    BY <2>4 DEF Verify, StudioInv, Files, My, Flow
  <2>5. CASE Plan
    <3> DEFINE d == Discarded(disk, My(output))
    <3>1. Empty(disk) /\ Sound(disk) /\ pc = "plan"
      BY <2>5 DEF Plan, StudioInv, Files
    <3>2. d \in Disks /\ Listed(d, output, life) \in Disks
      BY DiskOperators DEF My
    <3>3. Empty(d) /\ Sound(d)
      BY <3>1 DEF Discarded, WithPartial, Empty, Sound, Disks
    <3>4. LET l == Listed(d, output, life)
          IN  Empty(l) /\ Sound(l) /\ l.journal = [pid |-> life, output |-> output]
      BY <3>2, <3>3 DEF Listed, Empty, Sound, Disks
    <3>5. events' = <<"done">> => FALSE
      BY <2>5, <3>1 DEF Plan, StudioInv, Flow
    <3> HIDE DEF d
    <3>6. \/ pc' = "encode" /\ disk' = Listed(d, output, life)
          \/ pc' \in {"fail", "unlist"} /\ disk' \in {disk, d}
      BY <2>5 DEF Plan, d
    <3>7. QED
      BY <3>1, <3>2, <3>3, <3>4, <3>5, <3>6, EmptyIsReferenced DEF Files
  <2>6. CASE Encode \/ FinishEncode \/ FallBack \/ Discard
    <3>1. pc \in Writing /\ events' = <<>>
      BY <2>6 DEF Encode, FinishEncode, FallBack, Discard, StudioInv, Flow
    <3>2. \/ pc' \in Writing \cup {"fail", "cleanup"} /\ pc' # "commit"
          \/ pc' = "unlist" /\ disk' = WithPartial(disk, My(output), "none")
      BY <2>6 DEF Encode, FinishEncode, FallBack, Discard, Discarded
    <3>3. disk' = disk \/ \E c \in Contents : disk' = WithPartial(disk, My(output), c)
      BY <2>6 DEF Encode, FinishEncode, FallBack, Discard, Discarded, Contents
    <3>4. disk' \in Disks /\ disk'.journal = disk.journal /\ Referenced(disk') /\ Sound(disk')
      BY <3>1, <3>3, WritingFacts DEF StudioInv, Files
    <3>5. pc' = "unlist" => Empty(disk')
      BY <3>1, <3>2, WritingFacts DEF Contents
    <3>6. QED
      BY <3>1, <3>2, <3>4, <3>5 DEF StudioInv, Flow, Files
  <2>7. CASE Commit
    <3> DEFINE d == Committed(disk, My(output))
    <3>1. pc = "commit" /\ disk.partial[My(output)] = "whole" /\ Referenced(disk) /\ Sound(disk)
      BY <2>7 DEF Commit, StudioInv, Files
    <3>2. d \in Disks
      BY DiskOperators DEF My
    <3>3. NamedBy(disk) = My(output) /\ Preserved(disk)
      BY <3>1, WritingFacts, SafeOutputAssumption DEF Preserved, StudioInv, Files
    <3>4. Empty(d) /\ Sound(d)
      BY <3>1, <3>3, NamedPartial
    <3> HIDE DEF d
    <3>5. events' = <<>>
      BY <2>7, <3>1 DEF Commit, StudioInv, Flow
    <3>6. \/ pc' = "clear" /\ disk' = d
          \/ pc' = "fail" /\ disk' = disk
      BY <2>7 DEF Commit, d
    <3>7. QED
      BY <3>1, <3>2, <3>4, <3>5, <3>6, EmptyIsReferenced DEF Files
  <2>8. CASE ClearJournal \/ TellCancelled
    <3>1. /\ Cleared(disk) \in Disks /\ Cleared(disk).partial = disk.partial
          /\ Cleared(disk).final = disk.final
      BY DEF Cleared, Disks, Journals
    <3>2. /\ pc \in {"clear", "unlist"} /\ pc' \in {"tell", "cleanup"}
          /\ disk' \in {disk, Cleared(disk)}
      BY <2>8 DEF ClearJournal, TellCancelled
    <3>3. Empty(disk) /\ Sound(disk)
      BY <3>2 DEF StudioInv, Files
    <3>4. QED
      BY <3>1, <3>2, <3>3, ClearedDisk, EmptyIsReferenced DEF Files
  <2>9. QED
    BY <2>3, <2>4, <2>5, <2>6, <2>7, <2>8
    DEF RenderThread, SetUp, TellDone, TellError, CleanUp
<1>8. QED
  BY <1>1, <1>2, <1>4, <1>5, <1>6, <1>7 DEF StudioInv, Types, flags

-----------------------------------------------------------------------------
(* Buttons, timers and restarts, when nobody is impatient                    *)
LEMMA NothingRenders ==
    ASSUME StudioInv, ~busy \/ ~running
    PROVE  \A i \in Ids : status[i] # "Renderizando"
BY DEF StudioInv, RenderingIsActive

(* What the user presses keeps the invariant, if no run is started while a   *)
(* timer is pending.                                                         *)
LEMMA ButtonsKeep ==
    ASSUME ~Impatient, StudioInv, Buttons
    PROVE  StudioInv'
<1> USE DEF StudioInv
<1>1. CASE AddToQueue
  <2>1. serial' \in Ids => status' \in [Ids -> Statuses]
    BY <1>1 DEF AddToQueue, Types, Statuses
  <2>2. status' \in [Ids -> Statuses] /\ RenderingIsActive'
    BY <1>1, NothingRenders DEF AddToQueue, Types, Statuses, RenderingIsActive, flags
  <2>3. Types' /\ Files'
    BY <1>1, <2>2 DEF AddToQueue, Types, Files, flags, worker, My
  <2>4. Flow'
    BY <1>1 DEF AddToQueue, Flow, flags, worker
  <2>5. QED BY <2>2, <2>3, <2>4
<1>2. ASSUME NEW k \in Ids, MoveItem(k) PROVE StudioInv'
  BY <1>2 DEF MoveItem, Types, Flow, Files, RenderingIsActive, flags, worker, My
<1>3. ASSUME NEW i \in Ids, RetryItem(i) PROVE StudioInv'
  <2>1. Queued' = Queued
    BY <1>3 DEF RetryItem, ui, Queued
  <2>2. status' \in [Ids -> Statuses] /\ RenderingIsActive'
    BY <1>3, NothingRenders DEF RetryItem, Types, Statuses, RenderingIsActive, flags
  <2>3. Types' /\ Files' /\ Flow'
    BY <1>3, <2>1, <2>2 DEF RetryItem, Types, Files, Flow, flags, worker, My
  <2>4. QED BY <2>2, <2>3
<1>4. ASSUME NEW gone \in Removable, RemoveItems(gone) PROVE StudioInv'
  BY <1>4 DEF RemoveItems, Types, Flow, Files, RenderingIsActive, flags, worker, My
<1>5. CASE StartQueue
  <2>1. PICK d \in Prepared(disk) :
          IF \E i \in Queued : status[i] \in Retryable \cup {"Aguardando"}
          THEN RunNextFrom(Requeued, d, timers)
          ELSE disk' = d /\ UNCHANGED <<status, flags, timers, worker, lease>>
    BY <1>5 DEF StartQueue
  <2>2. d \in Disks /\ Empty(d) /\ Sound(d)
    BY PreparedDisks DEF Types, Files
  <2>3. timers = 0 /\ greeted /\ ~busy /\ ~running /\ events = <<>>
        /\ UNCHANGED <<ui, greeted, events, life>>
    BY <1>5 DEF StartQueue, Quiet, Flow
  <2>4. CASE RunNextFrom(Requeued, d, timers)
    <3>1. Requeued \in [Ids -> Statuses] /\ \A i \in Ids : Requeued[i] # "Renderizando"
      BY <2>3, NothingRenders DEF Requeued, Types, Statuses
    <3>2. QED BY <2>2, <2>3, <2>4, <3>1, RunNextKeeps
  <2>5. CASE disk' = d /\ UNCHANGED <<status, flags, timers, worker, lease>>
    <3>1. Types' /\ RenderingIsActive'
      BY <2>2, <2>3, <2>5 DEF Types, RenderingIsActive, flags, worker
    <3>2. Flow'
      BY <2>3, <2>5 DEF Flow, flags, worker
    <3>3. Files'
      BY <2>2, <2>3, <2>5, EmptyIsReferenced DEF Files, Flow, flags, worker, Writing
    <3>4. QED BY <3>1, <3>2, <3>3
  <2>6. QED BY <2>1, <2>4, <2>5
<1>6. CASE StartByHand
  <2>1. PICK d \in Prepared(disk) : Launch(Solo, d)
    BY <1>6 DEF StartByHand
  <2>2. d \in Disks /\ Empty(d) /\ Sound(d) /\ Solo \in Outputs
    BY PreparedDisks, StudioAssumption DEF Types, Files, Solo
  <2>3. /\ timers = 0 /\ greeted /\ ~busy /\ events = <<>> /\ ~running
        /\ UNCHANGED <<ui, status, running, active, timers, greeted, events, life>>
    BY <1>6 DEF StartByHand, Quiet, Flow
  <2>4. /\ pc' = "setup" /\ output' \in Outputs /\ lease' = life
        /\ busy' = TRUE /\ cancelled' = FALSE
        /\ disk' \in Disks /\ Empty(disk') /\ Sound(disk') /\ Referenced(disk')
    BY <2>1, <2>2, LaunchKeeps
  <2>5. Types' /\ RenderingIsActive'
    BY <2>3, <2>4, NothingRenders DEF Types, RenderingIsActive, Locations
  <2>6. Flow' /\ Files'
    BY <2>3, <2>4 DEF Flow, Files, Writing
  <2>7. QED BY <2>5, <2>6
<1>7. CASE Cancel
  BY <1>7 DEF Cancel, Types, Flow, Files, RenderingIsActive, worker, My, ui, Queued
<1>8. QED
  BY <1>1, <1>2, <1>3, <1>4, <1>5, <1>6, <1>7 DEF Buttons

(* Reading the thread's messages keeps the invariant.                        *)
LEMMA PollsKeep ==
    ASSUME StudioInv, PollEvents
    PROVE  StudioInv'
<1> USE DEF StudioInv, Report
<1>1. PICK st \in {"Concluido", "Cancelado", "Erro"}, kind \in {"done", "cancelled", "error"} :
        Report(kind, st) /\ (kind = "done" => PollDone) /\ (kind # "done" => ~PollDone)
  BY DEF PollEvents, PollDone, PollCancelled, PollError
<1>2. busy /\ timers = 0 /\ pc \in {"off", "cleanup"} /\ events = <<kind>>
  <2>1. events # <<>> /\ Head(events) = kind
    BY <1>1
  <2>2. \A k : Head(<<k>>) = k
    OBVIOUS
  <2>3. events = <<kind>>
    BY <2>1, <2>2 DEF Types
  <2>4. QED BY <2>1, <2>3 DEF Types, Flow
<1>3. events' = <<>>
  BY <1>1, <1>2
<1>4. status' \in [Ids -> Statuses] /\ RenderingIsActive'
  BY <1>1, <1>2 DEF Types, Statuses, Flow, RenderingIsActive
<1>5. \/ running' = running /\ timers' = IF running THEN 1 ELSE 0
      \/ running' = FALSE /\ timers' = 0
  BY <1>2 DEF PollEvents, PollDone, PollCancelled, PollError, Continue
<1>6. timers' = 1 => Empty(disk)
  <2>1. CASE PollDone
    BY <1>2, <2>1 DEF PollDone, Files
  <2>2. CASE PollCancelled
    BY <1>2, <2>2 DEF PollCancelled
  <2>3. CASE PollError
    <3>1. timers' = 1 => ~Preserved(disk)
      BY <1>2, <2>3 DEF PollError
    <3>2. QED BY <3>1, UnpreservedIsEmpty DEF Types, Files
  <2>4. QED BY <2>1, <2>2, <2>3 DEF PollEvents
<1>7. Types'
  BY <1>1, <1>3, <1>4, <1>5 DEF Types, worker
<1>8. Flow'
  BY <1>1, <1>2, <1>3, <1>5 DEF Flow, Types, worker
<1>9. Files'
  BY <1>1, <1>2, <1>3, <1>6, <1>7 DEF Files, worker, My, Writing, Bare
<1>10. QED BY <1>4, <1>7, <1>8, <1>9

(* The invariant of the studio is inductive.                                 *)
LEMMA InvariantKept ==
    ASSUME ~Impatient, StudioInv, [Next]_vars
    PROVE  StudioInv'
<1>1. CASE RecoverInterrupted
  <2>1. /\ pc = "off" /\ ~busy /\ events = <<>> /\ timers = 0
    BY <1>1 DEF RecoverInterrupted, StudioInv, Flow
  <2>2. disk' \in Disks /\ Referenced(disk') /\ Sound(disk')
    BY <1>1, RecoveredDisks DEF RecoverInterrupted, StudioInv, Types, Files
  <2>3. QED
    BY <1>1, <2>1, <2>2 DEF RecoverInterrupted, StudioInv, Types, Flow, Files,
       RenderingIsActive, ui, flags, worker, Writing, Bare, Queued
<1>2. CASE RunNext
  <2>1. timers = 1 /\ running /\ ~busy /\ greeted /\ events = <<>> /\ Empty(disk) /\ Sound(disk)
    BY <1>2 DEF RunNext, StudioInv, Types, Flow, Files
  <2>2. RunNextFrom(status, disk, 0) /\ UNCHANGED <<ui, greeted, events, life>>
    BY <1>2, <2>1 DEF RunNext
  <2>3. disk \in Disks /\ status \in [Ids -> Statuses]
    BY DEF StudioInv, Types
  <2>4. QED
    BY <2>1, <2>2, <2>3, NothingRenders, RunNextKeeps
<1>3. CASE Restart
  <2>1. life' \in Lives
    BY <1>3, StudioAssumption DEF Restart, StudioInv, Types
  <2>2. status' \in [Ids -> Statuses] /\ RenderingIsActive'
    BY <1>3 DEF Restart, Reloaded, StudioInv, Types, Statuses, Flow, RenderingIsActive
  <2>3. Solo \in Outputs
    BY StudioAssumption DEF Solo
  <2>4. Types'
    BY <1>3, <2>1, <2>2, <2>3 DEF Restart, StudioInv, Types, Locations
  <2>5. Flow'
    BY <1>3 DEF Restart, Flow
  <2>6. Files'
    BY <1>3 DEF Restart, StudioInv, Files, Writing, Bare
  <2>7. QED BY <2>2, <2>4, <2>5, <2>6 DEF StudioInv
<1>4. CASE UNCHANGED vars
  BY <1>4 DEF vars, StudioInv, Types, Flow, Files, RenderingIsActive, ui, flags, worker,
     My, Queued
<1>5. QED
  BY <1>1, <1>2, <1>3, <1>4, ButtonsKeep, PollsKeep, WorkerKeeps DEF Next

-----------------------------------------------------------------------------
(* The invariant of the window, which the theorems below specialise.         *)
THEOREM StudioInvariant ==
    ASSUME ~Impatient
    PROVE  Spec => []StudioInv
<1>1. Init => StudioInv
  <2> SUFFICES ASSUME Init PROVE StudioInv
    OBVIOUS
  <2>1. EmptyDisk \in Disks /\ Empty(EmptyDisk) /\ Sound(EmptyDisk)
    BY DEF EmptyDisk, Disks, Journals, Contents, Finals, Empty, Sound
  <2>2. Solo \in Outputs /\ 1 \in Lives
    BY StudioAssumption DEF Solo
  <2>3. Types
    BY <2>2, <2>1 DEF Init, Types, Statuses, Locations
  <2>4. Flow
    BY DEF Init, Flow
  <2>5. RenderingIsActive /\ Files
    BY <2>1, EmptyIsReferenced DEF Init, RenderingIsActive, Files, Writing
  <2>6. QED BY <2>3, <2>4, <2>5 DEF StudioInv
<1>2. StudioInv /\ [Next]_vars => StudioInv'
  BY InvariantKept
<1>3. QED
  BY <1>1, <1>2, PTL DEF Spec

(* No partial output is ever lost: the journal names every one on disk,      *)
(* whatever fails, is cancelled, is declined or restarts.                    *)
THEOREM PartialReferencedHolds ==
    ASSUME ~Impatient
    PROVE  Spec => []PartialReferenced
<1>1. StudioInv => PartialReferenced
  BY DEF StudioInv, Files, PartialReferenced
<1>2. QED
  BY <1>1, StudioInvariant, PTL

(* An item is shown as being rendered exactly while the queue is at it.      *)
THEOREM RenderingIsActiveHolds ==
    ASSUME ~Impatient
    PROVE  Spec => []RenderingIsActive
<1>1. StudioInv => RenderingIsActive
  BY DEF StudioInv
<1>2. QED
  BY <1>1, StudioInvariant, PTL

(* No output is replaced by a file that was not verified.                    *)
THEOREM NeverBrokenHolds ==
    ASSUME ~Impatient
    PROVE  Spec => []NeverBroken
<1>1. StudioInv => NeverBroken
  BY DEF StudioInv, Files, NeverBroken
<1>2. QED
  BY <1>1, StudioInvariant, PTL

-----------------------------------------------------------------------------
(* Delivery: the worker renders the active item, and "done" means delivered  *)
Delivery ==
    /\ running /\ busy => active = output
    /\ pc \in {"clear", "tell"} \/ events = <<"done">> => disk.final[output] = "delivered"

(* Starting the next item makes it the one that is rendered.                 *)
LEMMA RunNextDelivers ==
    ASSUME NEW st, NEW d, NEW t, ~busy, events = <<>>, pc \in {"off", "cleanup"},
           RunNextFrom(st, d, t), UNCHANGED events
    PROVE  Delivery'
<1>1. CASE NothingWaits(st, d, t)
  BY <1>1 DEF NothingWaits, Delivery, worker
<1>2. ASSUME NEW i, RejectNext(i, st, d, t) PROVE Delivery'
  BY <1>2 DEF RejectNext, Delivery, worker
<1>3. ASSUME NEW i, LaunchNext(i, st, d, t) PROVE Delivery'
  BY <1>3 DEF LaunchNext, Launch, Delivery
<1>4. CASE NextRefused(st, d, t)
  BY <1>4 DEF NextRefused, Delivery, worker
<1>5. QED BY <1>1, <1>2, <1>3, <1>4 DEF RunNextFrom

(* A step of the render thread delivers the active item, and says so only then.*)
LEMMA WorkerDelivers ==
    ASSUME StudioInv, Delivery, RenderThread
    PROVE  Delivery'
<1> USE DEF AtPc, GoOn, Tell, WorkerOnly
<1>1. UNCHANGED <<running, active, busy, output>>
  BY DEF RenderThread, SetUp, Plan, Encode, FinishEncode, FallBack, Verify, Commit,
     ClearJournal, TellDone, Discard, TellCancelled, TellError, CleanUp, flags
<1>2. CASE Commit
  <2>1. /\ pc = "commit" /\ disk.partial[My(output)] = "whole" /\ disk \in Disks
        /\ output \in Outputs /\ events = <<>> /\ events' = <<>>
    BY <1>2 DEF Commit, StudioInv, Types, Flow, Files
  <2>2. pc' = "clear" => disk'.final[output] = "delivered"
    <3>1. My(output)[1] = output /\ disk.final \in [Outputs -> Finals]
      BY <2>1 DEF My, Disks
    <3>2. Committed(disk, My(output)).final[output] = "delivered"
      BY <2>1, <3>1 DEF Committed, Disks
    <3>3. QED BY <1>2, <3>2 DEF Commit
  <2>3. pc' # "tell"
    BY <1>2 DEF Commit
  <2>4. QED BY <1>1, <2>1, <2>2, <2>3 DEF Delivery
<1>3. CASE ClearJournal
  BY <1>1, <1>3 DEF ClearJournal, Cleared, Delivery, StudioInv, Types, Disks
<1>4. CASE TellDone
  BY <1>1, <1>4 DEF TellDone, Delivery
<1>5. CASE TellError \/ TellCancelled
  <2>1. events = <<>> /\ pc' = "cleanup"
    BY <1>5 DEF TellError, TellCancelled, StudioInv, Flow
  <2>2. events' = <<"error">> \/ events' = <<"cancelled">>
    BY <1>5, <2>1 DEF TellError, TellCancelled
  <2>3. events' # <<"done">>
    BY <2>2
  <2>4. QED BY <1>1, <2>1, <2>3 DEF Delivery
<1>6. CASE CleanUp
  BY <1>1, <1>6 DEF CleanUp, Delivery
<1>7. CASE SetUp \/ Plan \/ Encode \/ FinishEncode \/ FallBack \/ Verify \/ Discard
  <2>1. events' = <<>> /\ pc' \notin {"clear", "tell"}
    BY <1>7 DEF SetUp, Plan, Encode, FinishEncode, FallBack, Verify, Discard, StudioInv, Flow
  <2>2. QED BY <1>1, <2>1 DEF Delivery
<1>8. QED
  BY <1>2, <1>3, <1>4, <1>5, <1>6, <1>7 DEF RenderThread

(* Every step keeps that the active item is rendered, and that done means    *)
(* delivered.                                                                *)
LEMMA DeliveryKept ==
    ASSUME ~Impatient, StudioInv, Delivery, [Next]_vars
    PROVE  Delivery'
<1>1. CASE RunNext
  <2>1. timers = 1 /\ running /\ ~busy /\ events = <<>> /\ pc \in {"off", "cleanup"}
    BY <1>1 DEF RunNext, StudioInv, Types, Flow
  <2>2. QED BY <1>1, <2>1, RunNextDelivers DEF RunNext
<1>2. CASE StartQueue
  <2>1. ~busy /\ ~running /\ events = <<>> /\ pc \in {"off", "cleanup"} /\ UNCHANGED events
    BY <1>2 DEF StartQueue, StudioInv, Flow
  <2>2. PICK d \in Prepared(disk) :
          IF \E i \in Queued : status[i] \in Retryable \cup {"Aguardando"}
          THEN RunNextFrom(Requeued, d, timers)
          ELSE disk' = d /\ UNCHANGED <<status, flags, timers, worker, lease>>
    BY <1>2 DEF StartQueue
  <2>3. CASE RunNextFrom(Requeued, d, timers)
    BY <2>1, <2>3, RunNextDelivers
  <2>4. CASE UNCHANGED <<status, flags, timers, worker, lease>>
    BY <2>1, <2>4 DEF Delivery, flags, worker
  <2>5. QED BY <2>2, <2>3, <2>4
<1>3. CASE StartByHand
  <2>1. ~running /\ events = <<>> /\ UNCHANGED <<running, events>> /\ pc' = "setup"
    BY <1>3 DEF StartByHand, Launch, Quiet, StudioInv, Flow
  <2>2. QED BY <2>1 DEF Delivery
<1>4. CASE RecoverInterrupted
  <2>1. pc = "off" /\ ~busy /\ events = <<>> /\ UNCHANGED <<pc, busy, events>>
    BY <1>4 DEF RecoverInterrupted, StudioInv, Flow, worker, flags
  <2>2. QED BY <2>1 DEF Delivery
<1>5. CASE PollEvents
  <2>1. /\ busy' = FALSE /\ pc' \in {"off", "cleanup"}
        /\ \E kind : events = <<kind>> /\ events' = Tail(events)
    BY <1>5 DEF PollEvents, PollDone, PollCancelled, PollError, Report, StudioInv, Types, Flow,
       worker
  <2>2. events' = <<>>
    BY <2>1
  <2>3. QED BY <2>1, <2>2 DEF Delivery
<1>6. CASE Restart
  BY <1>6 DEF Restart, Delivery
<1>7. CASE \/ AddToQueue \/ Cancel \/ UNCHANGED vars
           \/ \E k \in Ids : MoveItem(k)
           \/ \E i \in Ids : RetryItem(i)
           \/ \E gone \in Removable : RemoveItems(gone)
  <2>1. UNCHANGED <<running, busy, active, events, worker, disk>>
    BY <1>7 DEF AddToQueue, Cancel, vars, MoveItem, RetryItem, RemoveItems, flags
  <2>2. QED BY <2>1 DEF Delivery, worker
<1>8. QED
  BY <1>1, <1>2, <1>3, <1>4, <1>5, <1>6, <1>7, WorkerDelivers DEF Next, Buttons

(* An item becomes "Concluído" only when its latest run has been delivered.  *)
THEOREM DoneIsDeliveredHolds ==
    ASSUME ~Impatient
    PROVE  Spec => DoneIsDelivered
<1> DEFINE Honest == \A i \in Ids :
        status[i] # "Concluido" /\ status'[i] = "Concluido" => disk.final[i] = "delivered"
<1>1. Init => Delivery
  BY DEF Init, Delivery
<1>2. StudioInv /\ Delivery /\ [Next]_vars => Delivery'
  BY DeliveryKept
<1>3. StudioInv /\ Delivery /\ [Next]_vars => [Honest]_vars
  <2> SUFFICES ASSUME StudioInv, Delivery, Next,
                      NEW i \in Ids, status[i] # "Concluido", status'[i] = "Concluido"
               PROVE  disk.final[i] = "delivered"
    BY DEF vars
  <2>1. CASE PollDone
    <3>1. running /\ active = i /\ busy /\ Head(events) = "done" /\ events # <<>>
      BY <2>1 DEF PollDone, Report, StudioInv, Types, Flow
    <3>2. \A k : Head(<<k>>) = k
      OBVIOUS
    <3>3. events = <<"done">>
      BY <3>1, <3>2 DEF StudioInv, Types
    <3>4. QED BY <3>1, <3>3 DEF Delivery
  <2>2. CASE PollCancelled \/ PollError
    BY <2>2 DEF PollCancelled, PollError, Report, StudioInv, Types
  <2>3. CASE RunNext
    <3>1. CASE RunNextFrom(status, disk, timers - 1)
      BY <3>1 DEF RunNextFrom, NothingWaits, RejectNext, LaunchNext, NextRefused, StudioInv, Types
    <3>2. CASE UNCHANGED status
      BY <3>2
    <3>3. QED BY <2>3, <3>1, <3>2 DEF RunNext
  <2>4. CASE StartQueue
    <3>1. PICK d \in Prepared(disk) : RunNextFrom(Requeued, d, timers) \/ UNCHANGED status
      BY <2>4 DEF StartQueue
    <3>2. Requeued \in [Ids -> Statuses] /\ Requeued[i] # "Concluido"
      BY DEF Requeued, StudioInv, Types, Statuses
    <3>3. CASE RunNextFrom(Requeued, d, timers)
      BY <3>2, <3>3 DEF RunNextFrom, NothingWaits, RejectNext, LaunchNext, NextRefused
    <3>4. QED BY <3>1, <3>3
  <2>5. CASE Restart
    BY <2>5 DEF Restart, Reloaded
  <2>6. CASE AddToQueue \/ \E j \in Ids : RetryItem(j)
    BY <2>6 DEF AddToQueue, RetryItem, StudioInv, Types
  <2>7. CASE \/ Cancel \/ StartByHand \/ RecoverInterrupted \/ RenderThread
             \/ \E k \in Ids : MoveItem(k)
             \/ \E gone \in Removable : RemoveItems(gone)
    BY <2>7 DEF Cancel, StartByHand, RecoverInterrupted, MoveItem, RemoveItems, RenderThread,
       SetUp, Plan, Encode, FinishEncode, FallBack, Verify, Commit, ClearJournal, TellDone,
       Discard, TellCancelled, TellError, CleanUp, GoOn, Tell, WorkerOnly
  <2>8. QED
    BY <2>1, <2>2, <2>3, <2>4, <2>5, <2>6, <2>7 DEF Next, Buttons, PollEvents
<1>4. QED
  BY <1>1, <1>2, <1>3, StudioInvariant, PTL DEF Spec, DoneIsDelivered
=============================================================================
