-------------------------- MODULE RenderWorkerProofs --------------------------
(* Theorems about RenderWorker, for any number of workers and commands.      *)
EXTENDS MCRenderWorker, FiniteSetTheorems, TLAPS

(* The variables but for the times of the commands have their types.         *)
Shape ==
    /\ job \in JobStates
    /\ owner \in Workers \cup {Nobody}
    /\ pc \in [Workers -> Locations]
    /\ after \in [Workers -> {"boundary", "final"}]
    /\ pause \in [Workers -> BOOLEAN]
    /\ cancel \in [Workers -> BOOLEAN]
    /\ cmd \in [Workers -> Commands]
    /\ place \in [Commands -> Places]
    /\ replied \subseteq Commands

(* The variables have their types initially.                                 *)
LEMMA ShapeInit == Init => Shape
BY WorkerAssumption DEF Init, Shape, JobStates, Locations, Places

(* Every step keeps the types of the variables.                              *)
LEMMA ShapeStep == Shape /\ [Next]_vars => Shape'
<1> SUFFICES ASSUME Shape, [Next]_vars PROVE Shape'
  OBVIOUS
<1> USE WorkerAssumption DEF Goto, At, In, Shape, Locations, Guarded, Handlers, Places
<1>1. ASSUME NEW c \in Commands, Submit(c) PROVE Shape'
  BY <1>1 DEF Submit
<1>2. ASSUME NEW w \in Workers, Launch(w) PROVE Shape'
  BY <1>2 DEF Launch
<1>3. ASSUME NEW w \in Workers, Run(w) PROVE Shape'
  <2>1. CASE Recover(w)       BY <2>1 DEF Recover
  <2>2. CASE EnterRunning(w)  BY <2>2 DEF EnterRunning, EntryStep, JobStates
  <2>3. CASE Heartbeat(w)     BY <2>3 DEF Heartbeat
  <2>4. CASE Execute(w)       BY <2>4 DEF Execute
  <2>5. CASE Claim(w)         BY <2>5 DEF Claim
  <2>6. CASE Handle(w)
    <3>1. pause' \in [Workers -> BOOLEAN] /\ cancel' \in [Workers -> BOOLEAN]
      BY <2>6, Zenon DEF Handle
    <3>2. job' \in JobStates
      BY <2>6 DEF Handle, JobStates
    <3>3. pc' \in [Workers -> Locations]
      BY <2>6 DEF Handle
    <3>4. QED BY <2>6, <3>1, <3>2, <3>3 DEF Handle
  <2>7. CASE Reply(w)         BY <2>7 DEF Reply
  <2>8. CASE Finish(w)        BY <2>8 DEF Finish
  <2>9. CASE Boundary(w)      BY <2>9 DEF Boundary
  <2>10. CASE Conclude(w)     BY <2>10 DEF Conclude, JobStates
  <2>11. CASE MarkPaused(w)   BY <2>11 DEF MarkPaused, JobStates
  <2>12. CASE MarkCancelled(w) BY <2>12 DEF MarkCancelled, JobStates
  <2>13. CASE MarkFailed(w)   BY <2>13 DEF MarkFailed, JobStates
  <2>14. CASE Release(w)      BY <2>14 DEF Release
  <2>15. CASE ReadCommand(w)  BY <2>15 DEF ReadCommand
  <2>16. QED
    BY <1>3, <2>1, <2>2, <2>3, <2>4, <2>5, <2>6, <2>7, <2>8, <2>9, <2>10, <2>11, <2>12,
       <2>13, <2>14, <2>15 DEF Run, Commanded
<1>4. ASSUME NEW w \in Workers, WriteFails(w) PROVE Shape'
  BY <1>4 DEF WriteFails
<1>5. ASSUME NEW w \in Workers, Crash(w) PROVE Shape'
  BY <1>5 DEF Crash
<1>6. ASSUME NEW w \in Workers, Reject(w) PROVE Shape'
  BY <1>6 DEF Reject
<1>7. CASE UNCHANGED vars
  BY <1>7 DEF vars
<1>8. QED
  BY <1>1, <1>2, <1>3, <1>4, <1>5, <1>6, <1>7 DEF Next

(* Type correctness; the times of the commands stay below their number.      *)
THEOREM WorkerTyping ==
    ASSUME IsFiniteSet(Commands)
    PROVE  Spec => []TypeOK
<1>1. Init => TypeOK
  <2>1. Cardinality(Commands) \in Nat
    BY FS_CardinalityType
  <2>2. QED BY <2>1, ShapeInit DEF Init, Shape, TypeOK
<1>2. TypeOK /\ [Next]_vars => TypeOK'
  <2> SUFFICES ASSUME TypeOK, [Next]_vars PROVE TypeOK'
    OBVIOUS
  <2>1. Shape'
    BY ShapeStep DEF TypeOK, Shape
  <2>2. sentAt' \in [Commands -> 0 .. Cardinality(Commands)]
    <3>1. ASSUME NEW c \in Commands, Submit(c)
          PROVE  sentAt' \in [Commands -> 0 .. Cardinality(Commands)]
      <4>1. Commands \ In("unsent") \subseteq Commands \ {c}
        BY <3>1 DEF Submit, In
      <4>2. /\ IsFiniteSet(Commands \ {c})
            /\ Cardinality(Commands \ {c}) = Cardinality(Commands) - 1
        BY FS_RemoveElement
      <4>3. /\ Cardinality(Commands \ In("unsent")) \in Nat
            /\ Cardinality(Commands \ In("unsent")) <= Cardinality(Commands) - 1
        BY <4>1, <4>2, FS_Subset, FS_CardinalityType
      <4>4. 1 + Cardinality(Commands \ In("unsent")) \in 0 .. Cardinality(Commands)
        BY <4>3, FS_CardinalityType
      <4>5. QED BY <3>1, <4>4 DEF Submit, TypeOK
    <3>2. ASSUME NEW w \in Workers,
                 Launch(w) \/ Run(w) \/ Reject(w) \/ WriteFails(w) \/ Crash(w)
          PROVE  UNCHANGED sentAt
      BY <3>2 DEF Launch, Run, Commanded, Recover, EnterRunning, Heartbeat, Execute, Claim,
                  Handle, Reply, Finish, Boundary, Conclude, MarkPaused, MarkCancelled,
                  MarkFailed, Release, ReadCommand, Reject, WriteFails, Crash
    <3>3. QED BY <3>1, <3>2 DEF Next, vars, TypeOK
  <2>3. QED BY <2>1, <2>2 DEF Shape, TypeOK
<1>3. QED
  BY <1>1, <1>2, PTL DEF Spec

-----------------------------------------------------------------------------
(* Whatever is filed away has been answered: a file is moved to "done" by    *)
(* its worker only after its reply, and by a later one only with a reply;    *)
(* and only a file that cannot be read is ever set aside.                    *)
AnsweredInv ==
    /\ Shape
    /\ AnsweredOrRejected
    /\ \A w \in Workers : At(w, "finish") => cmd[w] \in replied

(* Every step keeps what is filed away answered or rejected.                 *)
LEMMA AnsweredStep == AnsweredInv /\ [Next]_vars => AnsweredInv'
<1> SUFFICES ASSUME AnsweredInv, [Next]_vars PROVE AnsweredInv'
  OBVIOUS
<1>1. Shape'
  BY ShapeStep DEF AnsweredInv
<1> USE DEF AnsweredInv, AnsweredOrRejected, In, At, Goto, Shape
<1>2. ASSUME NEW c \in Commands, Submit(c) PROVE AnsweredInv'
  BY <1>1, <1>2 DEF Submit
<1>3. ASSUME NEW w \in Workers, Launch(w) PROVE AnsweredInv'
  BY <1>1, <1>3 DEF Launch
<1>4. ASSUME NEW w \in Workers, Commanded(w) PROVE AnsweredInv'
  <2>1. CASE Claim(w)  BY <1>1, <2>1 DEF Claim
  <2>2. CASE Handle(w) BY <1>1, <2>2 DEF Handle
  <2>3. CASE Reply(w)  BY <1>1, <2>3 DEF Reply
  <2>4. CASE Finish(w) BY <1>1, <2>4 DEF Finish
  <2>5. CASE ReadCommand(w) BY <1>1, <2>5 DEF ReadCommand
  <2>6. QED BY <1>4, <2>1, <2>2, <2>3, <2>4, <2>5 DEF Commanded
<1>5. ASSUME NEW w \in Workers, Recover(w) \/ Reject(w) PROVE AnsweredInv'
  BY <1>1, <1>5 DEF Recover, Recovered, Reject
<1>6. ASSUME NEW w \in Workers,
             \/ EnterRunning(w) \/ Heartbeat(w) \/ Execute(w) \/ Boundary(w) \/ Conclude(w)
             \/ MarkPaused(w) \/ MarkCancelled(w) \/ MarkFailed(w) \/ Release(w)
             \/ WriteFails(w) \/ Crash(w)
      PROVE  AnsweredInv'
  <2>1. /\ UNCHANGED <<place, cmd, replied>>
        /\ \E loc \in Locations \ {"finish"} : pc' = [pc EXCEPT ![w] = loc] \/ UNCHANGED pc
    <3>1. CASE EnterRunning(w) BY <3>1 DEF EnterRunning, Locations, Guarded, Handlers
    <3>2. CASE Heartbeat(w) BY <3>2 DEF Heartbeat, Locations, Guarded, Handlers
    <3>3. CASE Execute(w) BY <3>3 DEF Execute, Locations, Guarded, Handlers
    <3>4. CASE Boundary(w) BY <3>4 DEF Boundary, Locations, Guarded, Handlers
    <3>5. CASE Conclude(w) BY <3>5 DEF Conclude, Locations, Guarded, Handlers
    <3>6. CASE MarkPaused(w) \/ MarkCancelled(w) \/ MarkFailed(w) \/ Release(w)
      BY <3>6 DEF MarkPaused, MarkCancelled, MarkFailed, Release, Locations, Guarded, Handlers
    <3>7. CASE WriteFails(w) \/ Crash(w)
      BY <3>7 DEF WriteFails, Crash, Locations, Guarded, Handlers
    <3>8. QED BY <1>6, <3>1, <3>2, <3>3, <3>4, <3>5, <3>6, <3>7
  <2>2. QED BY <1>1, <2>1
<1>7. CASE UNCHANGED vars
  BY <1>1, <1>7 DEF vars
<1>8. QED
  BY <1>2, <1>3, <1>4, <1>5, <1>6, <1>7 DEF Next, Run

(* No readable command is filed away unanswered, whatever dies, fails or is  *)
(* taken; what is set aside unanswered is a command that could not be read.  *)
THEOREM AnsweredOrRejectedHolds == Spec => []AnsweredOrRejected
<1>1. Init => AnsweredInv
  BY ShapeInit DEF Init, AnsweredInv, AnsweredOrRejected, In, At
<1>2. AnsweredInv => AnsweredOrRejected
  BY DEF AnsweredInv
<1>3. QED
  BY <1>1, <1>2, AnsweredStep, PTL DEF Spec

-----------------------------------------------------------------------------
(* As long as no lease is taken from a running worker, whoever runs is the   *)
(* one that lease.json names.                                                *)
Alone == \A w \in Workers : ~At(w, "off") => owner = w

(* What has been answered is in processing, filed away or set aside, and the *)
(* command a worker is at is in processing, unanswered until it has been     *)
(* executed: nobody gets to execute it another time.                         *)
OnceInv ==
    /\ Shape
    /\ Alone
    /\ \A c \in replied : place[c] \in {"processing", "done", "rejected"}
    /\ \A w \in Workers :
          pc[w] \in {"read", "handle", "reply", "finish"} => place[cmd[w]] = "processing"
    /\ \A w \in Workers : pc[w] \in {"read", "handle"} => cmd[w] \notin replied

(* Without a takeover every step keeps whatever is answered out of the hands *)
(* of a second worker.                                                       *)
LEMMA OnceStep ==
    ASSUME ~Takeover
    PROVE  OnceInv /\ [Next]_vars => OnceInv'
<1> SUFFICES ASSUME OnceInv, [Next]_vars PROVE OnceInv'
  OBVIOUS
<1>1. Shape'
  BY ShapeStep DEF OnceInv
<1> USE WorkerAssumption DEF OnceInv, Alone, In, At, Goto, Shape
<1>2. ASSUME NEW c \in Commands, Submit(c) PROVE OnceInv'
  BY <1>1, <1>2 DEF Submit
<1>3. ASSUME NEW w \in Workers, Launch(w) PROVE OnceInv'
  <2>1. \A v \in Workers : At(v, "off")
    BY <1>3 DEF Launch
  <2>2. QED BY <1>1, <1>3, <2>1 DEF Launch
<1>4. ASSUME NEW w \in Workers, Commanded(w) PROVE OnceInv'
  <2>1. \A v \in Workers \ {w} : At(v, "off")
    BY <1>4 DEF Commanded, Claim, ReadCommand, Handle, Reply, Finish
  <2>2. CASE Claim(w)  BY <1>1, <2>1, <2>2 DEF Claim, Locations
  <2>3. CASE Handle(w) BY <1>1, <2>1, <2>3 DEF Handle
  <2>4. CASE Reply(w)  BY <1>1, <2>1, <2>4 DEF Reply
  <2>5. CASE Finish(w) BY <1>1, <2>1, <2>5 DEF Finish
  <2>6. CASE ReadCommand(w) BY <1>1, <2>1, <2>6 DEF ReadCommand
  <2>7. QED BY <1>4, <2>2, <2>3, <2>4, <2>5, <2>6 DEF Commanded
<1>5. ASSUME NEW w \in Workers, Recover(w) \/ Reject(w) PROVE OnceInv'
  <2>1. \A v \in Workers \ {w} : At(v, "off")
    BY <1>5 DEF Recover, Reject
  <2>2. CASE Recover(w) BY <1>1, <2>1, <2>2 DEF Recover, Recovered
  <2>3. CASE Reject(w)  BY <1>1, <2>1, <2>3 DEF Reject
  <2>4. QED BY <1>5, <2>2, <2>3
<1>6. ASSUME NEW w \in Workers,
             \/ EnterRunning(w) \/ Heartbeat(w) \/ Execute(w) \/ Boundary(w) \/ Conclude(w)
             \/ MarkPaused(w) \/ MarkCancelled(w) \/ MarkFailed(w) \/ WriteFails(w)
      PROVE  OnceInv'
  <2>1. /\ UNCHANGED <<owner, place, cmd, replied>>
        /\ ~At(w, "off")
        /\ \E loc \in Locations \ {"read", "handle", "reply", "finish"} :
               pc' = [pc EXCEPT ![w] = loc] \/ UNCHANGED pc
    <3> USE DEF Locations, Guarded, Handlers
    <3>1. CASE EnterRunning(w) BY <3>1 DEF EnterRunning
    <3>2. CASE Heartbeat(w)    BY <3>2 DEF Heartbeat
    <3>3. CASE Execute(w)      BY <3>3 DEF Execute
    <3>4. CASE Boundary(w)     BY <3>4 DEF Boundary
    <3>5. CASE Conclude(w)     BY <3>5 DEF Conclude
    <3>6. CASE MarkPaused(w) \/ MarkCancelled(w) \/ MarkFailed(w)
      BY <3>6 DEF MarkPaused, MarkCancelled, MarkFailed
    <3>7. CASE WriteFails(w)   BY <3>7 DEF WriteFails
    <3>8. QED BY <1>6, <3>1, <3>2, <3>3, <3>4, <3>5, <3>6, <3>7
  <2>2. QED BY <1>1, <2>1
<1>7. ASSUME NEW w \in Workers, Release(w) PROVE OnceInv'
  <2>1. \A v \in Workers \ {w} : At(v, "off")
    BY <1>7 DEF Release
  <2>2. QED BY <1>1, <1>7, <2>1 DEF Release
<1>8. ASSUME NEW w \in Workers, Crash(w) PROVE OnceInv'
  BY <1>1, <1>8 DEF Crash
<1>9. CASE UNCHANGED vars
  BY <1>1, <1>9 DEF vars
<1>10. QED
  BY <1>2, <1>3, <1>4, <1>5, <1>6, <1>7, <1>8, <1>9 DEF Next, Run

(* Initially nothing is answered, and no worker runs.                        *)
LEMMA OnceInit == Init => OnceInv
BY ShapeInit DEF Init, OnceInv, Alone, At

(* What has been answered is never executed again, whoever dies or fails, as *)
(* long as the lease keeps a second worker out.                              *)
THEOREM HandledOnceHolds ==
    ASSUME ~Takeover
    PROVE  Spec => HandledOnce
<1>1. OnceInv /\ [Next]_vars => [\A w \in Workers : Handle(w) => cmd[w] \notin replied]_vars
  BY DEF OnceInv, Handle, At
<1>2. QED
  BY OnceInit, OnceStep, <1>1, PTL DEF Spec, HandledOnce

-----------------------------------------------------------------------------
(* Where a worker may be while its pause is recorded, and while it runs; and *)
(* where the command it has claimed last is still in its hands.              *)
Pausing == {"poll", "read", "handle", "reply", "finish", "boundary", "final", "pausing",
            "cancelling"}
Running == Pausing \cup {"enter", "beat", "execute", "failing"}
InHand(w) == pc[w] \in {"read", "handle", "reply", "finish"}

(* Until the workers are hurt, a lease in the file is that of a worker that  *)
(* runs; what it has recorded of the job it also remembers, and it comes to  *)
(* the release only when the job is at rest.  A command in processing is in  *)
(* the hands of a worker, and one that was set aside was never answered.     *)
CalmInv ==
    /\ \A w \in Workers : owner = w => ~At(w, "off")
    /\ owner = Nobody => job \notin {"running", "pause_requested"}
    /\ \A w \in Workers : ~At(w, "off") =>
         /\ job = "running" => pc[w] \in Running
         /\ job = "pause_requested" => /\ pc[w] \in Pausing
                                       /\ pause[w] \/ pc[w] \in {"pausing", "cancelling"}
    /\ \A c \in Commands : place[c] = "processing" => \E w \in Workers : InHand(w) /\ cmd[w] = c
    /\ \A c \in Commands : place[c] = "rejected" => c \notin replied

RestInv == OnceInv /\ hurt \in BOOLEAN /\ (~hurt => CalmInv)

(* Until the workers are hurt, an orderly step leaves the job's              *)
(* state in the hands of the worker that runs it.                            *)
LEMMA CalmStep ==
    ASSUME ~Takeover, OnceInv, OnceInv', CalmInv, Orderly
    PROVE  CalmInv'
<1> USE WorkerAssumption DEF OnceInv, CalmInv, Alone, In, At, Goto, Shape, Pausing, Running, InHand
<1>1. ASSUME NEW c \in Commands, Submit(c) PROVE CalmInv'
  BY <1>1 DEF Submit
<1>2. ASSUME NEW w \in Workers, Launch(w) PROVE CalmInv'
  <2>1. \A v \in Workers : At(v, "off")
    BY <1>2 DEF Launch
  <2>2. owner = Nobody
    BY <2>1
  <2>3. QED BY <1>2, <2>1, <2>2 DEF Launch
<1>3. ASSUME NEW w \in Workers, Run(w) PROVE CalmInv'
  <2>1. ~At(w, "off") /\ owner = w /\ \A v \in Workers \ {w} : At(v, "off")
    BY <1>3 DEF Run, Commanded, Recover, EnterRunning, Heartbeat, Execute, Claim, ReadCommand,
                Handle, Reply, Finish, Boundary, Conclude, MarkPaused, MarkCancelled, MarkFailed, Release
  <2> USE <2>1
  <2>2. CASE Recover(w)        BY <2>2 DEF Recover
  <2>3. CASE EnterRunning(w)   BY <2>3 DEF EnterRunning, EntryStep
  <2>4. CASE Heartbeat(w)      BY <2>4 DEF Heartbeat
  <2>5. CASE Execute(w)        BY <2>5 DEF Execute
  <2>6. CASE Claim(w)          BY <2>6 DEF Claim
  <2>7. CASE Handle(w)
    <3>1. pause[w] \/ KindOf[cmd[w]] \in {"pause", "shutdown"} => pause'[w]
      <4>1. pause \in [Workers -> BOOLEAN]
        BY DEF OnceInv, Shape
      <4>2. pause' = [pause EXCEPT ![w] = pause[w] \/ KindOf[cmd[w]] \in {"pause", "shutdown"}]
        BY <2>7 DEF Handle
      <4>3. QED BY ONLY <4>1, <4>2, Zenon
    <3>2. /\ pc' = [pc EXCEPT ![w] = "reply"] /\ owner' = owner
          /\ job' # job => job = "running" /\ job' = "pause_requested" /\ KindOf[cmd[w]] = "pause"
          /\ pc[w] = "handle"
      BY <2>7 DEF Handle
    <3>3. job' = "pause_requested" => pause'[w]
      BY <3>1, <3>2
    <3>4. UNCHANGED <<place, cmd, replied>>
      BY <2>7 DEF Handle
    <3>5. \A c \in Commands :
             place'[c] = "processing" => \E v \in Workers : InHand(v)' /\ cmd'[v] = c
      BY <3>2, <3>4
    <3>6. QED BY <3>2, <3>3, <3>4, <3>5
  <2>8. CASE Reply(w)          BY <2>8 DEF Reply
  <2>9. CASE Finish(w)         BY <2>9 DEF Finish
  <2>10. CASE Boundary(w)      BY <2>10 DEF Boundary
  <2>11. CASE Conclude(w)      BY <2>11 DEF Conclude
  <2>12. CASE MarkPaused(w)    BY <2>12 DEF MarkPaused
  <2>13. CASE MarkCancelled(w) BY <2>13 DEF MarkCancelled
  <2>14. CASE MarkFailed(w)    BY <2>14 DEF MarkFailed
  <2>15. CASE Release(w)       BY <2>15 DEF Release
  <2>16. CASE ReadCommand(w)   BY <2>16 DEF ReadCommand
  <2>17. QED
    BY <1>3, <2>2, <2>3, <2>4, <2>5, <2>6, <2>7, <2>8, <2>9, <2>10, <2>11, <2>12, <2>13, <2>14,
       <2>15, <2>16 DEF Run, Commanded
<1>4. ASSUME NEW w \in Workers, Reject(w), ~Pending(w) PROVE CalmInv'
  <2>1. ~At(w, "off") /\ owner = w /\ \A v \in Workers \ {w} : At(v, "off")
    BY <1>4 DEF Reject
  <2>2. QED BY <1>4, <2>1 DEF Reject, Pending
<1>5. QED
  BY <1>1, <1>2, <1>3, <1>4 DEF Orderly

(* No readable command is lost, and until the workers are hurt a job without *)
(* an owner is at rest and what was set aside was never answered.            *)
THEOREM AnsweredAndAtRestHolds ==
    ASSUME ~Takeover
    PROVE  MCSpec => []AnsweredAndAtRest
<1>1. MCInit => AnsweredInv /\ RestInv
  <2>1. MCInit => AnsweredInv
    BY ShapeInit DEF MCInit, Init, AnsweredInv, AnsweredOrRejected, In, At
  <2>2. MCInit => CalmInv
    BY WorkerAssumption DEF MCInit, Init, CalmInv, At
  <2>3. QED BY <2>1, <2>2, OnceInit DEF MCInit, RestInv
<1>2. AnsweredInv /\ RestInv /\ [MCNext]_all => AnsweredInv' /\ RestInv'
  <2> SUFFICES ASSUME AnsweredInv, RestInv, [MCNext]_all PROVE AnsweredInv' /\ RestInv'
    OBVIOUS
  <2>1. [Next]_vars
    BY DEF MCNext, Orderly, Hurts, Next, all, vars
  <2>2. AnsweredInv'
    BY <2>1, AnsweredStep
  <2>3. OnceInv'
    BY <2>1, OnceStep DEF RestInv
  <2>4. hurt' \in BOOLEAN /\ (~hurt' => CalmInv')
    <3>1. CASE Orderly /\ UNCHANGED hurt
      BY <3>1, <2>3, CalmStep DEF RestInv
    <3>2. CASE Hurts /\ hurt' = TRUE
      BY <3>2
    <3>3. CASE UNCHANGED all
      BY <3>3 DEF all, vars, RestInv, CalmInv, InHand, At
    <3>4. QED BY <3>1, <3>2, <3>3 DEF MCNext
  <2>5. QED BY <2>2, <2>3, <2>4 DEF RestInv
<1>3. AnsweredInv /\ RestInv => AnsweredAndAtRest
  BY DEF AnsweredInv, RestInv, CalmInv, AnsweredAndAtRest, FreeJobAtRest, In
<1>4. QED
  BY <1>1, <1>2, <1>3, PTL DEF MCSpec
=============================================================================
