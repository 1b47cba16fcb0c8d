--------------------------- MODULE KVTransferProofs ---------------------------
(***************************************************************************)
(* Proofs about KVTransfer for every set of workers and requests and every *)
(* number of chunks.                                                       *)
(***************************************************************************)
EXTENDS KVTransfer, TLAPS

\* A worker consumes no chunk that was not emitted, and tracks no chunk that
\* it did not submit.
InOrder ==
    \A w \in Workers, r \in Requests :
        /\ submitted[w][r] <= sched[r]
        /\ \A c \in Chunks : <<r, c>> \in futures[w] => c <= submitted[w][r]

\* A finish notice is the last thing a worker sees of a request.
FinishLast ==
    \A w \in Workers : \A r \in finishSeen[w] :
        /\ status[r] \in {"finished", "freed"}
        /\ submitted[w][r] = sched[r]

\* The two sets of the adapter agree with the futures it holds.
SetsAgree ==
    \A w \in Workers :
        /\ previouslyFinished[w] \subseteq finishSeen[w]
        /\ \A r \in finishedStores[w] : ~Has(futures[w], r)

\* A worker acknowledges a send only when nothing of it is pending.
AcksFinal ==
    \A r \in Requests : \A w \in sendAcks[r] :
        r \in finishSeen[w] /\ ~Has(futures[w], r)

\* The worker w is not done with the load of r, or the scheduler has not
\* consumed its acknowledgement.
LoadOpen(w, r) ==
    w \in recvAcks[r] \/ r \in loads[w] \/ r \in loadSent \ loadSubmitted[w]

\* The load comes before every chunk and is acknowledged once.
LoadFirst ==
    /\ \A r \in Requests :
        /\ status[r] \in {"new", "loading"} => sched[r] = 0
        /\ status[r] = "new" => r \notin loadSent
    /\ \A w \in Workers :
        /\ loadSubmitted[w] \subseteq loadSent
        /\ loads[w] \subseteq loadSubmitted[w]
        /\ \A r \in Requests :
            /\ w \in recvAcks[r] => r \in loadSubmitted[w] \ loads[w]
            /\ LoadOpen(w, r) => /\ status[r] \in {"loading", "finished", "freed"}
                                 /\ sched[r] = 0

IInv ==
    /\ TypeOK
    /\ InOrder
    /\ FinishLast
    /\ FinishTracked
    /\ SetsAgree
    /\ AcksFinal
    /\ LoadFirst
    /\ FreedByAll
    /\ EngineAlive

\* What holds in addition while the server is never lost.
Covered ==
    \A w \in Workers :
        /\ healthy[w]
        /\ storing[w] \subseteq futures[w]
        /\ restoring[w] \subseteq loads[w]

-------------------------------------------------------------------------------
(* Type correctness. *)

LEMMA TypeInit == Init => TypeOK
<1> SUFFICES ASSUME Init PROVE TypeOK
  OBVIOUS
<1>1. /\ status \in [Requests -> Statuses]
      /\ sched \in [Requests -> 0..MaxChunks]
      /\ loadSent \in SUBSET Requests
  BY ChunksAssumption DEF Init, Statuses
<1>2. engineDead \in BOOLEAN
  BY DEF Init
<1>3. submitted \in [Workers -> [Requests -> Nat]]
  BY DEF Init
<1>4. healthy \in [Workers -> BOOLEAN]
  BY DEF Init
<1>5. /\ futures \in [Workers -> SUBSET Stores]
      /\ storing \in [Workers -> SUBSET Stores]
  BY DEF Init
<1>6. /\ sendAcks \in [Requests -> SUBSET Workers]
      /\ recvAcks \in [Requests -> SUBSET Workers]
  BY DEF Init
<1>7. /\ loadSubmitted \in [Workers -> SUBSET Requests]
      /\ finishSeen \in [Workers -> SUBSET Requests]
      /\ loads \in [Workers -> SUBSET Requests]
      /\ finishedStores \in [Workers -> SUBSET Requests]
      /\ previouslyFinished \in [Workers -> SUBSET Requests]
      /\ restoring \in [Workers -> SUBSET Requests]
  BY DEF Init
<1>8. QED BY <1>1, <1>2, <1>3, <1>4, <1>5, <1>6, <1>7 DEF TypeOK

LEMMA TypeScheduler ==
    ASSUME TypeOK, NEW r \in Requests, SchedulerStep(r)
    PROVE  TypeOK'
<1> USE DEF TypeOK, Statuses, schedulerVars, ackVars, submitVars, trackVars,
            serverVars
<1>1. CASE Admit(r) BY <1>1 DEF Admit
<1>2. CASE AdmitLoad(r) BY <1>2 DEF AdmitLoad
<1>3. CASE ScheduleChunk(r) BY <1>3, ChunksAssumption DEF ScheduleChunk
<1>4. CASE FinishRequest(r) BY <1>4 DEF FinishRequest
<1>5. CASE FinishedRecving(r) BY <1>5 DEF FinishedRecving, RecvFails
<1>6. CASE FinishedSending(r) BY <1>6 DEF FinishedSending, SentByAll
<1>7. QED BY <1>1, <1>2, <1>3, <1>4, <1>5, <1>6 DEF SchedulerStep

\* What a poll does to the adapter's sets stays within the requests.
LEMMA TypeProcess ==
    ASSUME TypeOK, NEW w \in Workers, NEW drained \in SUBSET Requests,
           NEW left, NEW F \in SUBSET Requests,
           ProcessFinishedStores(w, drained, left, F)
    PROVE  /\ finishedStores' \in [Workers -> SUBSET Requests]
           /\ previouslyFinished' \in [Workers -> SUBSET Requests]
           /\ sendAcks' \in [Requests -> SUBSET Workers]
BY DEF TypeOK, ProcessFinishedStores

LEMMA TypeReport ==
    ASSUME TypeOK, NEW w \in Workers, NEW done \in SUBSET Requests,
           ReportLoads(w, done)
    PROVE  /\ loads' \in [Workers -> SUBSET Requests]
           /\ recvAcks' \in [Requests -> SUBSET Workers]
BY DEF TypeOK, ReportLoads

LEMMA TypePoll ==
    ASSUME TypeOK, NEW w \in Workers, NEW F \in SUBSET Deliverable(w), Poll(w, F)
    PROVE  TypeOK'
<1> F \in SUBSET Requests BY DEF Deliverable
<1>1. CASE GetFinished(w, F)
  <2>1. Drained(w) \in SUBSET Requests BY DEF Drained
  <2>2. loads[w] \ restoring[w] \in SUBSET Requests BY DEF TypeOK
  <2> HIDE DEF Deliverable
  <2>3. /\ finishedStores' \in [Workers -> SUBSET Requests]
        /\ previouslyFinished' \in [Workers -> SUBSET Requests]
        /\ sendAcks' \in [Requests -> SUBSET Workers]
    BY <1>1, <2>1, TypeProcess DEF GetFinished
  <2>4. /\ loads' \in [Workers -> SUBSET Requests]
        /\ recvAcks' \in [Requests -> SUBSET Workers]
    BY <1>1, <2>2, TypeReport DEF GetFinished, Landed
  <2>5. QED BY <1>1, <2>3, <2>4 DEF GetFinished, TypeOK, Pending,
                schedulerVars, submitVars, serverVars
<1>2. CASE GiveUp(w, F)
  <2>1. {r \in Requests : Has(futures[w], r)} \in SUBSET Requests OBVIOUS
  <2>2. loads[w] \in SUBSET Requests BY DEF TypeOK
  <2>3. /\ finishedStores' \in [Workers -> SUBSET Requests]
        /\ previouslyFinished' \in [Workers -> SUBSET Requests]
        /\ sendAcks' \in [Requests -> SUBSET Workers]
    BY <1>2, <2>1, TypeProcess DEF GiveUp, Abandoned
  <2>4. /\ loads' \in [Workers -> SUBSET Requests]
        /\ recvAcks' \in [Requests -> SUBSET Workers]
    BY <1>2, <2>2, TypeReport DEF GiveUp
  <2>5. QED BY <1>2, <2>3, <2>4 DEF GiveUp, TypeOK,
                schedulerVars, submitVars, serverVars
<1>3. QED BY <1>1, <1>2 DEF Poll

LEMMA TypeWorker ==
    ASSUME TypeOK, NEW w \in Workers, WorkerStep(w)
    PROVE  TypeOK'
<1> USE DEF schedulerVars, ackVars, submitVars, trackVars, serverVars
<1>1. ASSUME NEW r \in Requests, SubmitStore(w, r) PROVE TypeOK'
  <2>1. <<r, submitted[w][r] + 1>> \in Stores
    BY <1>1, ChunksAssumption DEF TypeOK, SubmitStore, StartStore, Stores, Chunks
  <2>2. /\ submitted' \in [Workers -> [Requests -> Nat]]
        /\ finishedStores' \in [Workers -> SUBSET Requests]
    BY <1>1 DEF TypeOK, SubmitStore, StartStore
  <2>3. futures' \in [Workers -> SUBSET Stores]
    BY <1>1, <2>1 DEF TypeOK, SubmitStore, StartStore
  <2>4. storing' \in [Workers -> SUBSET Stores]
    BY <1>1, <2>1 DEF TypeOK, SubmitStore, StartStore
  <2>5. QED BY <1>1, <2>2, <2>3, <2>4 DEF TypeOK, SubmitStore, StartStore
<1>2. ASSUME NEW r \in Requests, SubmitRetrieve(w, r) PROVE TypeOK'
  BY <1>2 DEF TypeOK, SubmitRetrieve
<1>3. ASSUME NEW F \in SUBSET Deliverable(w), Poll(w, F) PROVE TypeOK'
  BY <1>3, TypePoll
<1>4. CASE HeartbeatFlips(w) BY <1>4 DEF TypeOK, HeartbeatFlips
<1>5. QED BY <1>1, <1>2, <1>3, <1>4 DEF WorkerStep

-------------------------------------------------------------------------------
(* The inductive invariant. *)

LEMMA IInvInit == Init => IInv
<1> SUFFICES ASSUME Init PROVE IInv
  OBVIOUS
<1>1. TypeOK BY TypeInit
<1>2. \A w \in Workers, r \in Requests : ~Has(futures[w], r)
  BY DEF Init, Has
<1>3. InOrder BY DEF Init, InOrder
<1>4. FinishLast /\ FinishTracked /\ SetsAgree /\ AcksFinal
  BY DEF Init, FinishLast, FinishTracked, SetsAgree, AcksFinal
<1>5. LoadFirst BY DEF Init, LoadFirst, LoadOpen
<1>6. FreedByAll /\ EngineAlive BY DEF Init, FreedByAll, EngineAlive
<1>7. QED BY <1>1, <1>3, <1>4, <1>5, <1>6 DEF IInv

LEMMA AdmitInv ==
    ASSUME IInv, NEW r \in Requests, Admit(r)
    PROVE  IInv'
<1> USE DEF schedulerVars, ackVars, submitVars, trackVars, serverVars
<1>1. TypeOK'
  BY TypeScheduler DEF SchedulerStep, IInv
<1>2. InOrder'
  BY DEF IInv, TypeOK, Statuses, Admit, InOrder
<1>3. FinishLast'
  BY DEF IInv, TypeOK, Statuses, Admit, FinishLast
<1>4. FinishTracked'
  BY DEF IInv, TypeOK, Statuses, Admit, FinishTracked
<1>5. SetsAgree'
  BY DEF IInv, TypeOK, Statuses, Admit, SetsAgree
<1>6. AcksFinal'
  BY DEF IInv, TypeOK, Statuses, Admit, AcksFinal
<1>7. LoadFirst'
  BY DEF IInv, TypeOK, Statuses, Admit, LoadFirst, LoadOpen
<1>8. FreedByAll'
  BY DEF IInv, TypeOK, Statuses, Admit, FreedByAll
<1>9. EngineAlive'
  BY DEF IInv, TypeOK, Statuses, Admit, EngineAlive
<1>10. QED BY <1>1, <1>2, <1>3, <1>4, <1>5, <1>6, <1>7, <1>8, <1>9 DEF IInv

LEMMA AdmitLoadInv ==
    ASSUME IInv, NEW r \in Requests, AdmitLoad(r)
    PROVE  IInv'
<1> USE DEF schedulerVars, ackVars, submitVars, trackVars, serverVars
<1>1. TypeOK'
  BY TypeScheduler DEF SchedulerStep, IInv
<1>2. InOrder'
  BY DEF IInv, TypeOK, Statuses, AdmitLoad, InOrder
<1>3. FinishLast'
  BY DEF IInv, TypeOK, Statuses, AdmitLoad, FinishLast
<1>4. FinishTracked'
  BY DEF IInv, TypeOK, Statuses, AdmitLoad, FinishTracked
<1>5. SetsAgree'
  BY DEF IInv, TypeOK, Statuses, AdmitLoad, SetsAgree
<1>6. AcksFinal'
  BY DEF IInv, TypeOK, Statuses, AdmitLoad, AcksFinal
<1>7. LoadFirst'
  BY DEF IInv, TypeOK, Statuses, AdmitLoad, LoadFirst, LoadOpen
<1>8. FreedByAll'
  BY DEF IInv, TypeOK, Statuses, AdmitLoad, FreedByAll
<1>9. EngineAlive'
  BY DEF IInv, TypeOK, Statuses, AdmitLoad, EngineAlive
<1>10. QED BY <1>1, <1>2, <1>3, <1>4, <1>5, <1>6, <1>7, <1>8, <1>9 DEF IInv

LEMMA ScheduleChunkInv ==
    ASSUME IInv, NEW r \in Requests, ScheduleChunk(r)
    PROVE  IInv'
<1> USE DEF schedulerVars, ackVars, submitVars, trackVars, serverVars
<1>1. TypeOK'
  BY TypeScheduler DEF SchedulerStep, IInv
<1>2. InOrder'
  BY DEF IInv, TypeOK, Statuses, ScheduleChunk, InOrder
<1>3. FinishLast'
  BY DEF IInv, TypeOK, Statuses, ScheduleChunk, FinishLast
<1>4. FinishTracked'
  BY DEF IInv, TypeOK, Statuses, ScheduleChunk, FinishTracked
<1>5. SetsAgree'
  BY DEF IInv, TypeOK, Statuses, ScheduleChunk, SetsAgree
<1>6. AcksFinal'
  BY DEF IInv, TypeOK, Statuses, ScheduleChunk, AcksFinal
<1>7. LoadFirst'
  BY DEF IInv, TypeOK, Statuses, ScheduleChunk, LoadFirst, LoadOpen
<1>8. FreedByAll'
  BY DEF IInv, TypeOK, Statuses, ScheduleChunk, FreedByAll
<1>9. EngineAlive'
  BY DEF IInv, TypeOK, Statuses, ScheduleChunk, EngineAlive
<1>10. QED BY <1>1, <1>2, <1>3, <1>4, <1>5, <1>6, <1>7, <1>8, <1>9 DEF IInv

LEMMA FinishRequestInv ==
    ASSUME IInv, NEW r \in Requests, FinishRequest(r)
    PROVE  IInv'
<1> USE DEF schedulerVars, ackVars, submitVars, trackVars, serverVars
<1>1. TypeOK'
  BY TypeScheduler DEF SchedulerStep, IInv
<1>2. InOrder'
  BY DEF IInv, TypeOK, Statuses, FinishRequest, InOrder
<1>3. FinishLast'
  BY DEF IInv, TypeOK, Statuses, FinishRequest, FinishLast
<1>4. FinishTracked'
  BY DEF IInv, TypeOK, Statuses, FinishRequest, FinishTracked
<1>5. SetsAgree'
  BY DEF IInv, TypeOK, Statuses, FinishRequest, SetsAgree
<1>6. AcksFinal'
  BY DEF IInv, TypeOK, Statuses, FinishRequest, AcksFinal
<1>7. LoadFirst'
  BY DEF IInv, TypeOK, Statuses, FinishRequest, LoadFirst, LoadOpen
<1>8. FreedByAll'
  BY DEF IInv, TypeOK, Statuses, FinishRequest, FreedByAll
<1>9. EngineAlive'
  BY DEF IInv, TypeOK, Statuses, FinishRequest, EngineAlive
<1>10. QED BY <1>1, <1>2, <1>3, <1>4, <1>5, <1>6, <1>7, <1>8, <1>9 DEF IInv

LEMMA FinishedRecvingInv ==
    ASSUME IInv, NEW r \in Requests, FinishedRecving(r)
    PROVE  IInv'
<1> USE DEF schedulerVars, ackVars, submitVars, trackVars, serverVars
<1>1. TypeOK'
  BY TypeScheduler DEF SchedulerStep, IInv
<1>2. InOrder'
  BY DEF IInv, TypeOK, Statuses, FinishedRecving, RecvFails, InOrder
<1>3. FinishLast'
  BY DEF IInv, TypeOK, Statuses, FinishedRecving, RecvFails, FinishLast
<1>4. FinishTracked'
  BY DEF IInv, TypeOK, Statuses, FinishedRecving, RecvFails, FinishTracked
<1>5. SetsAgree'
  BY DEF IInv, TypeOK, Statuses, FinishedRecving, RecvFails, SetsAgree
<1>6. AcksFinal'
  BY DEF IInv, TypeOK, Statuses, FinishedRecving, RecvFails, AcksFinal
<1>7. LoadFirst'
  BY DEF IInv, TypeOK, Statuses, FinishedRecving, RecvFails, LoadFirst, LoadOpen
<1>8. FreedByAll'
  <2>1. \A w \in Workers : LoadOpen(w, r)
    BY DEF FinishedRecving, LoadOpen
  <2>2. \A w \in Workers : sched[r] = 0 /\ submitted[w][r] = 0
    BY <2>1 DEF IInv, LoadFirst, InOrder, TypeOK
  <2>3. \A w \in Workers : ~Has(futures[w], r)
    <3> SUFFICES ASSUME NEW w \in Workers, NEW c \in Chunks,
                        <<r, c>> \in futures[w]
                 PROVE  FALSE
      BY DEF Has
    <3>1. c <= submitted[w][r] BY DEF IInv, InOrder
    <3>2. QED BY <2>2, <3>1, ChunksAssumption DEF Chunks
  <2>4. QED BY <2>2, <2>3 DEF IInv, TypeOK, FinishedRecving, RecvFails, FreedByAll
<1>9. EngineAlive'
  <2>1. PICK w \in Workers : LoadOpen(w, r)
    BY WorkersAssumption DEF FinishedRecving, LoadOpen
  <2>2. status[r] \notin {"new", "running"}
    BY <2>1 DEF IInv, LoadFirst
  <2>3. QED BY <2>2, Zenon DEF IInv, FinishedRecving, RecvFails, EngineAlive
<1>10. QED BY <1>1, <1>2, <1>3, <1>4, <1>5, <1>6, <1>7, <1>8, <1>9 DEF IInv

LEMMA FinishedSendingInv ==
    ASSUME IInv, NEW r \in Requests, FinishedSending(r)
    PROVE  IInv'
<1> USE DEF schedulerVars, ackVars, submitVars, trackVars, serverVars
<1>1. TypeOK'
  BY TypeScheduler DEF SchedulerStep, IInv
<1>2. InOrder'
  BY DEF IInv, TypeOK, Statuses, FinishedSending, SentByAll, InOrder
<1>3. FinishLast'
  BY DEF IInv, TypeOK, Statuses, FinishedSending, SentByAll, FinishLast
<1>4. FinishTracked'
  BY DEF IInv, TypeOK, Statuses, FinishedSending, SentByAll, FinishTracked
<1>5. SetsAgree'
  BY DEF IInv, TypeOK, Statuses, FinishedSending, SentByAll, SetsAgree
<1>6. AcksFinal'
  BY DEF IInv, TypeOK, Statuses, FinishedSending, SentByAll, AcksFinal
<1>7. LoadFirst'
  BY DEF IInv, TypeOK, Statuses, FinishedSending, SentByAll, LoadFirst, LoadOpen
<1>2a. \A w \in Workers : /\ r \in finishSeen[w]
                          /\ ~Has(futures[w], r)
                          /\ submitted[w][r] = sched[r]
                          /\ status[r] \in {"finished", "freed"}
  BY DEF IInv, FinishedSending, SentByAll, AcksFinal, FinishLast
<1>8. FreedByAll'
  BY <1>2a DEF IInv, TypeOK, FinishedSending, SentByAll, FreedByAll
<1>9. EngineAlive'
  <2>1. status[r] \in {"finished", "freed"}
    BY <1>2a, WorkersAssumption
  <2>2. QED BY <2>1, Zenon DEF IInv, FinishedSending, SentByAll, EngineAlive
<1>10. QED BY <1>1, <1>2, <1>3, <1>4, <1>5, <1>6, <1>7, <1>8, <1>9 DEF IInv

LEMMA SubmitStoreInv ==
    ASSUME IInv, NEW w \in Workers, NEW r \in Requests, SubmitStore(w, r)
    PROVE  IInv'
<1> USE DEF schedulerVars, ackVars, submitVars, trackVars, serverVars
<1>1. TypeOK'
  BY TypeWorker DEF WorkerStep, IInv
<1>a. submitted[w][r] < sched[r] /\ r \notin finishSeen[w]
  BY DEF IInv, TypeOK, SubmitStore, StartStore, FinishLast
<1>b. \A x \in Workers, q \in Requests :
          (x # w \/ q # r) => (Has(futures'[x], q) <=> Has(futures[x], q))
  BY DEF IInv, TypeOK, SubmitStore, StartStore, Has
<1>2. InOrder'
  <2> SUFFICES ASSUME NEW x \in Workers, NEW q \in Requests
               PROVE  /\ submitted'[x][q] <= sched'[q]
                      /\ \A c \in Chunks :
                            <<q, c>> \in futures'[x] => c <= submitted'[x][q]
    BY DEF InOrder
  <2>1. CASE x # w \/ q # r
    BY <2>1 DEF IInv, TypeOK, InOrder, SubmitStore, StartStore
  <2>2. CASE x = w /\ q = r
    <3>1. submitted'[w][r] = submitted[w][r] + 1
      BY DEF IInv, TypeOK, SubmitStore, StartStore
    <3>2. submitted[w][r] \in Nat /\ sched'[r] = sched[r] /\ sched[r] \in Nat
      BY ChunksAssumption DEF IInv, TypeOK, SubmitStore, StartStore
    <3>3. ASSUME NEW c \in Chunks, <<r, c>> \in futures'[w]
          PROVE  c <= submitted[w][r] + 1
      <4>1. <<r, c>> \in futures[w] \/ c = submitted[w][r] + 1
        BY <3>3 DEF IInv, TypeOK, SubmitStore, StartStore
      <4>2. c \in Nat
        BY ChunksAssumption DEF Chunks
      <4>3. <<r, c>> \in futures[w] => c <= submitted[w][r]
        BY DEF IInv, InOrder
      <4>4. QED BY <3>2, <4>1, <4>2, <4>3
    <3>4. QED BY <1>a, <2>2, <3>1, <3>2, <3>3
  <2>3. QED BY <2>1, <2>2
<1>3. FinishLast'
  BY DEF IInv, TypeOK, SubmitStore, StartStore, FinishLast, Has
<1>4. FinishTracked'
  <2> SUFFICES ASSUME NEW x \in Workers, NEW q \in finishSeen[x]
               PROVE  /\ q \in previouslyFinished[x] <=> Has(futures'[x], q)
                      /\ q \notin finishedStores'[x]
    BY DEF FinishTracked, SubmitStore, StartStore
  <2>1. q \in Requests /\ (x # w \/ q # r)
    BY <1>a DEF IInv, TypeOK
  <2>2. Has(futures'[x], q) <=> Has(futures[x], q)
    BY <1>b, <2>1
  <2>3. finishedStores'[x] \subseteq finishedStores[x]
    BY DEF IInv, TypeOK, SubmitStore, StartStore
  <2>4. QED BY <2>2, <2>3 DEF IInv, FinishTracked
<1>5. SetsAgree'
  BY DEF IInv, TypeOK, SubmitStore, StartStore, SetsAgree, Has
<1>6. AcksFinal'
  <2> SUFFICES ASSUME NEW q \in Requests, NEW x \in sendAcks[q]
               PROVE  q \in finishSeen[x] /\ ~Has(futures'[x], q)
    BY DEF AcksFinal, SubmitStore, StartStore
  <2>1. x \in Workers /\ q \in finishSeen[x] /\ ~Has(futures[x], q)
    BY DEF IInv, TypeOK, AcksFinal
  <2>2. x # w \/ q # r
    BY <1>a, <2>1
  <2>3. QED BY <1>b, <2>1, <2>2
<1>7. LoadFirst'
  BY DEF IInv, TypeOK, SubmitStore, StartStore, LoadFirst, LoadOpen, Has
<1>8. FreedByAll'
  BY DEF IInv, TypeOK, SubmitStore, StartStore, FreedByAll, Has
<1>9. EngineAlive'
  BY DEF IInv, TypeOK, SubmitStore, StartStore, EngineAlive, Has
<1>10. QED BY <1>1, <1>2, <1>3, <1>4, <1>5, <1>6, <1>7, <1>8, <1>9 DEF IInv

LEMMA SubmitRetrieveInv ==
    ASSUME IInv, NEW w \in Workers, NEW r \in Requests, SubmitRetrieve(w, r)
    PROVE  IInv'
<1> USE DEF schedulerVars, ackVars, submitVars, trackVars, serverVars
<1>1. TypeOK'
  BY TypeWorker DEF WorkerStep, IInv
<1>2. InOrder'
  BY DEF IInv, TypeOK, SubmitRetrieve, InOrder
<1>3. FinishLast'
  BY DEF IInv, TypeOK, SubmitRetrieve, FinishLast
<1>4. FinishTracked'
  BY DEF IInv, TypeOK, SubmitRetrieve, FinishTracked
<1>5. SetsAgree'
  BY DEF IInv, TypeOK, SubmitRetrieve, SetsAgree
<1>6. AcksFinal'
  BY DEF IInv, TypeOK, SubmitRetrieve, AcksFinal
<1>7. LoadFirst'
  BY DEF IInv, TypeOK, SubmitRetrieve, LoadFirst, LoadOpen
<1>8. FreedByAll'
  BY DEF IInv, TypeOK, SubmitRetrieve, FreedByAll
<1>9. EngineAlive'
  BY DEF IInv, TypeOK, SubmitRetrieve, EngineAlive
<1>10. QED BY <1>1, <1>2, <1>3, <1>4, <1>5, <1>6, <1>7, <1>8, <1>9 DEF IInv

LEMMA HeartbeatFlipsInv ==
    ASSUME IInv, NEW w \in Workers, HeartbeatFlips(w)
    PROVE  IInv'
<1> USE DEF schedulerVars, ackVars, submitVars, trackVars, serverVars
<1>1. TypeOK'
  BY TypeWorker DEF WorkerStep, IInv
<1>2. InOrder'
  BY DEF IInv, TypeOK, HeartbeatFlips, InOrder
<1>3. FinishLast'
  BY DEF IInv, TypeOK, HeartbeatFlips, FinishLast
<1>4. FinishTracked'
  BY DEF IInv, TypeOK, HeartbeatFlips, FinishTracked
<1>5. SetsAgree'
  BY DEF IInv, TypeOK, HeartbeatFlips, SetsAgree
<1>6. AcksFinal'
  BY DEF IInv, TypeOK, HeartbeatFlips, AcksFinal
<1>7. LoadFirst'
  BY DEF IInv, TypeOK, HeartbeatFlips, LoadFirst, LoadOpen
<1>8. FreedByAll'
  BY DEF IInv, TypeOK, HeartbeatFlips, FreedByAll
<1>9. EngineAlive'
  BY DEF IInv, TypeOK, HeartbeatFlips, EngineAlive
<1>10. QED BY <1>1, <1>2, <1>3, <1>4, <1>5, <1>6, <1>7, <1>8, <1>9 DEF IInv

LEMMA StoreCompletesInv ==
    ASSUME IInv, NEW w \in Workers, NEW r \in Requests, NEW c \in Chunks, StoreCompletes(w, r, c)
    PROVE  IInv'
<1> USE DEF schedulerVars, ackVars, submitVars, trackVars, serverVars
<1>1. TypeOK'
  BY DEF IInv, TypeOK, StoreCompletes
<1>2. InOrder'
  BY DEF IInv, TypeOK, StoreCompletes, InOrder
<1>3. FinishLast'
  BY DEF IInv, TypeOK, StoreCompletes, FinishLast
<1>4. FinishTracked'
  BY DEF IInv, TypeOK, StoreCompletes, FinishTracked
<1>5. SetsAgree'
  BY DEF IInv, TypeOK, StoreCompletes, SetsAgree
<1>6. AcksFinal'
  BY DEF IInv, TypeOK, StoreCompletes, AcksFinal
<1>7. LoadFirst'
  BY DEF IInv, TypeOK, StoreCompletes, LoadFirst, LoadOpen
<1>8. FreedByAll'
  BY DEF IInv, TypeOK, StoreCompletes, FreedByAll
<1>9. EngineAlive'
  BY DEF IInv, TypeOK, StoreCompletes, EngineAlive
<1>10. QED BY <1>1, <1>2, <1>3, <1>4, <1>5, <1>6, <1>7, <1>8, <1>9 DEF IInv

LEMMA LoadCompletesInv ==
    ASSUME IInv, NEW w \in Workers, NEW r \in Requests, LoadCompletes(w, r)
    PROVE  IInv'
<1> USE DEF schedulerVars, ackVars, submitVars, trackVars, serverVars
<1>1. TypeOK'
  BY DEF IInv, TypeOK, LoadCompletes
<1>2. InOrder'
  BY DEF IInv, TypeOK, LoadCompletes, InOrder
<1>3. FinishLast'
  BY DEF IInv, TypeOK, LoadCompletes, FinishLast
<1>4. FinishTracked'
  BY DEF IInv, TypeOK, LoadCompletes, FinishTracked
<1>5. SetsAgree'
  BY DEF IInv, TypeOK, LoadCompletes, SetsAgree
<1>6. AcksFinal'
  BY DEF IInv, TypeOK, LoadCompletes, AcksFinal
<1>7. LoadFirst'
  BY DEF IInv, TypeOK, LoadCompletes, LoadFirst, LoadOpen
<1>8. FreedByAll'
  BY DEF IInv, TypeOK, LoadCompletes, FreedByAll
<1>9. EngineAlive'
  BY DEF IInv, TypeOK, LoadCompletes, EngineAlive
<1>10. QED BY <1>1, <1>2, <1>3, <1>4, <1>5, <1>6, <1>7, <1>8, <1>9 DEF IInv

\* The future poll leaves exactly the pending stores; a finish notice is
\* taken only after everything else of its request.
LEMMA PollCases ==
    ASSUME IInv, NEW w \in Workers, NEW F \in SUBSET Deliverable(w), Poll(w, F)
    PROVE  \E left \in SUBSET futures[w], done \in SUBSET loads[w] :
             LET drained == {r \in Requests :
                                 Has(futures[w], r) /\ ~Has(left, r)}
             IN  /\ futures' = [futures EXCEPT ![w] = left]
                 /\ finishSeen' = [finishSeen EXCEPT ![w] = @ \cup F]
                 /\ ProcessFinishedStores(w, drained, left, F)
                 /\ ReportLoads(w, done)
                 /\ UNCHANGED <<schedulerVars, submitVars>>
<1>1. CASE GetFinished(w, F)
  <2>1. Pending(w) \in SUBSET futures[w]
    BY DEF Pending
  <2>2. loads[w] \ restoring[w] \in SUBSET loads[w]
    OBVIOUS
  <2>3. QED BY <1>1, <2>1, <2>2 DEF GetFinished, Landed, Drained
<1>2. CASE GiveUp(w, F)
  <2>1. {} \in SUBSET futures[w] /\ loads[w] \in SUBSET loads[w]
    OBVIOUS
  <2>2. {r \in Requests : Has(futures[w], r)}
          = {r \in Requests : Has(futures[w], r) /\ ~Has({}, r)}
    BY DEF Has
  <2>3. QED BY <1>2, <2>1, <2>2 DEF GiveUp, Abandoned
<1>3. QED BY <1>1, <1>2 DEF Poll

\* _process_finished_stores element by element: what becomes of a request q
\* in the two sets of the worker, and when its send is reported.
Processed(w, left, F) ==
    /\ \A x \in Workers \ {w} :
         /\ finishedStores'[x] = finishedStores[x]
         /\ previouslyFinished'[x] = previouslyFinished[x]
    /\ \A q \in Requests :
         LET drained == Has(futures[w], q) /\ ~Has(left, q)
             stored  == q \in finishedStores[w] \/ drained
             awaited == \/ q \in previouslyFinished[w]
                        \/ q \in F /\ (stored \/ Has(left, q))
             direct  == q \in F /\ ~stored /\ ~Has(left, q)
         IN  /\ q \in finishedStores'[w] <=> stored /\ ~awaited
             /\ q \in previouslyFinished'[w] <=> awaited /\ ~stored
             /\ \A x \in Workers : x \in sendAcks'[q] <=>
                   \/ x \in sendAcks[q]
                   \/ x = w /\ (direct \/ (stored /\ awaited))

LEMMA ProcessElements ==
    ASSUME IInv, NEW w \in Workers, NEW left \in SUBSET futures[w],
           NEW F \in SUBSET Requests,
           ProcessFinishedStores(w, {r \in Requests :
                        Has(futures[w], r) /\ ~Has(left, r)}, left, F)
    PROVE  Processed(w, left, F)
<1> DEFINE drained == {r \in Requests : Has(futures[w], r) /\ ~Has(left, r)}
           stores  == finishedStores[w] \cup drained
           direct  == {r \in F : r \notin stores /\ ~Has(left, r)}
           waiting == previouslyFinished[w] \cup (F \ direct)
           sent    == direct \cup (stores \cap waiting)
<1>1. /\ finishedStores' = [finishedStores EXCEPT ![w] = stores \ waiting]
      /\ previouslyFinished' =
            [previouslyFinished EXCEPT ![w] = waiting \ stores]
      /\ sendAcks' = [r \in Requests |-> IF r \in sent
                                         THEN sendAcks[r] \cup {w}
                                         ELSE sendAcks[r]]
  BY DEF ProcessFinishedStores
<1>2. /\ finishedStores \in [Workers -> SUBSET Requests]
      /\ previouslyFinished \in [Workers -> SUBSET Requests]
  BY DEF IInv, TypeOK
<1> HIDE DEF sent, waiting, direct, stores, drained
<1>3. /\ finishedStores'[w] = stores \ waiting
      /\ previouslyFinished'[w] = waiting \ stores
      /\ \A x \in Workers \ {w} :
            /\ finishedStores'[x] = finishedStores[x]
            /\ previouslyFinished'[x] = previouslyFinished[x]
  BY <1>1, <1>2
<1>4. \A q \in Requests : sendAcks'[q] = IF q \in sent THEN sendAcks[q] \cup {w}
                                                      ELSE sendAcks[q]
  BY <1>1
<1>5. ASSUME NEW q \in Requests
      PROVE  /\ q \in stores <=> \/ q \in finishedStores[w]
                                 \/ Has(futures[w], q) /\ ~Has(left, q)
             /\ q \in direct <=> q \in F /\ q \notin stores /\ ~Has(left, q)
             /\ q \in waiting <=> q \in previouslyFinished[w]
                                   \/ (q \in F /\ q \notin direct)
             /\ q \in sent <=> q \in direct \/ (q \in stores /\ q \in waiting)
  BY Zenon DEF stores, drained, direct, waiting, sent
<1>6. QED BY <1>3, <1>4, <1>5 DEF Processed

LEMMA PollInv ==
    ASSUME IInv, NEW w \in Workers, NEW F \in SUBSET Deliverable(w), Poll(w, F)
    PROVE  IInv'
<1> DEFINE drained(left) ==
        {r \in Requests : Has(futures[w], r) /\ ~Has(left, r)}
<1>1. PICK left \in SUBSET futures[w], done \in SUBSET loads[w] :
          /\ futures' = [futures EXCEPT ![w] = left]
          /\ finishSeen' = [finishSeen EXCEPT ![w] = @ \cup F]
          /\ ProcessFinishedStores(w, drained(left), left, F)
          /\ ReportLoads(w, done)
          /\ UNCHANGED <<schedulerVars, submitVars>>
  BY PollCases
<1>2. \A q \in F : /\ q \in Requests /\ q \notin finishSeen[w]
                   /\ status[q] \in {"finished", "freed"}
                   /\ submitted[w][q] = sched[q]
  BY DEF Deliverable
<1>3. UNCHANGED <<status, sched, loadSent, engineDead, submitted, loadSubmitted>>
  BY <1>1 DEF schedulerVars, submitVars
<1>4. /\ futures'[w] = left /\ finishSeen'[w] = finishSeen[w] \cup F
      /\ \A x \in Workers \ {w} : /\ futures'[x] = futures[x]
                                 /\ finishSeen'[x] = finishSeen[x]
      /\ \A x \in Workers : futures'[x] \subseteq futures[x]
  BY <1>1 DEF IInv, TypeOK
<1>5. \A x \in Workers, q \in Requests :
          Has(futures'[x], q) => Has(futures[x], q)
  BY <1>4, Zenon DEF Has
<1>6. F \in SUBSET Requests
  BY <1>2
<1> HIDE DEF drained
<1>7. Processed(w, left, F)
  <2>1. ProcessFinishedStores(w, {r \in Requests :
                    Has(futures[w], r) /\ ~Has(left, r)}, left, F)
    BY <1>1 DEF drained
  <2>2. QED BY <2>1, <1>6, ProcessElements
<1>8. ASSUME NEW q \in Requests
      PROVE  /\ q \in finishSeen[w] => /\ q \in previouslyFinished[w]
                                            <=> Has(futures[w], q)
                                       /\ q \notin finishedStores[w]
             /\ q \in previouslyFinished[w] => q \in finishSeen[w]
             /\ q \in finishedStores[w] => ~Has(futures[w], q)
             /\ Has(left, q) => Has(futures[w], q)
  BY <1>4, <1>5 DEF IInv, FinishTracked, SetsAgree
<1>9. TypeOK'
  BY TypePoll DEF IInv
<1>10. InOrder'
  BY <1>3, <1>4 DEF IInv, InOrder
<1>11. FinishLast'
  BY <1>2, <1>3, <1>4 DEF IInv, FinishLast
<1>12. FinishTracked'
  <2> SUFFICES ASSUME NEW x \in Workers, NEW q \in finishSeen'[x]
               PROVE  /\ q \in previouslyFinished'[x] <=> Has(futures'[x], q)
                      /\ q \notin finishedStores'[x]
    BY DEF FinishTracked
  <2>1. q \in Requests
    BY <1>9 DEF TypeOK
  <2>2. CASE x = w
    BY <1>2, <1>4, <1>7, <1>8, <2>1, <2>2 DEF Processed
  <2>3. CASE x # w
    BY <1>4, <1>7, <2>3 DEF Processed, IInv, FinishTracked
  <2>4. QED BY <2>2, <2>3
<1>13. SetsAgree'
  <2> SUFFICES ASSUME NEW x \in Workers
               PROVE  /\ previouslyFinished'[x] \subseteq finishSeen'[x]
                      /\ \A q \in finishedStores'[x] : ~Has(futures'[x], q)
    BY DEF SetsAgree
  <2>1. finishedStores'[x] \subseteq Requests /\ previouslyFinished'[x] \subseteq Requests
    BY <1>9 DEF TypeOK
  <2>2. CASE x = w
    BY <1>4, <1>7, <1>8, <2>1, <2>2 DEF Processed
  <2>3. CASE x # w
    BY <1>4, <1>7, <2>3 DEF Processed, IInv, SetsAgree
  <2>4. QED BY <2>2, <2>3
<1>14. AcksFinal'
  <2> SUFFICES ASSUME NEW q \in Requests, NEW x \in sendAcks'[q]
               PROVE  q \in finishSeen'[x] /\ ~Has(futures'[x], q)
    BY DEF AcksFinal
  <2>1. x \in Workers
    BY <1>9 DEF TypeOK
  <2>2. CASE x \in sendAcks[q]
    BY <1>4, <1>5, <2>1, <2>2 DEF IInv, AcksFinal
  <2>3. CASE x \notin sendAcks[q]
    BY <1>4, <1>7, <1>8, <2>1, <2>3 DEF Processed
  <2>4. QED BY <2>2, <2>3
<1>15. LoadFirst'
  <2>1. /\ \A x \in Workers : loads'[x] \subseteq loads[x]
        /\ loads'[w] = loads[w] \ done
        /\ \A q \in Requests, x \in Workers : x \in recvAcks'[q] <=>
              x \in recvAcks[q] \/ (x = w /\ q \in done)
    BY <1>1 DEF ReportLoads, IInv, TypeOK
  <2>2. QED BY <1>1, <1>3, <2>1 DEF IInv, LoadFirst, LoadOpen
<1>16. FreedByAll'
  BY <1>3, <1>5 DEF IInv, FreedByAll
<1>17. EngineAlive'
  BY <1>3 DEF IInv, EngineAlive
<1>18. QED BY <1>9, <1>10, <1>11, <1>12, <1>13, <1>14, <1>15, <1>16, <1>17
           DEF IInv

-------------------------------------------------------------------------------
(* The theorems. *)

LEMMA IInvStutter == ASSUME IInv, UNCHANGED vars PROVE IInv'
<1> USE DEF vars, schedulerVars, ackVars, submitVars, trackVars, serverVars
<1>1. TypeOK' BY DEF IInv, TypeOK
<1>2. InOrder' /\ FinishLast' /\ FinishTracked' /\ SetsAgree' /\ AcksFinal'
  BY DEF IInv, InOrder, FinishLast, FinishTracked, SetsAgree, AcksFinal
<1>3. LoadFirst' BY DEF IInv, LoadFirst, LoadOpen
<1>4. FreedByAll' /\ EngineAlive' BY DEF IInv, FreedByAll, EngineAlive
<1>5. QED BY <1>1, <1>2, <1>3, <1>4 DEF IInv

LEMMA IInvStep == ASSUME IInv, [Next]_vars PROVE IInv'
<1>1. ASSUME NEW r \in Requests, SchedulerStep(r) PROVE IInv'
  BY <1>1, AdmitInv, AdmitLoadInv, ScheduleChunkInv, FinishRequestInv,
     FinishedRecvingInv, FinishedSendingInv DEF SchedulerStep
<1>2. ASSUME NEW w \in Workers, WorkerStep(w) PROVE IInv'
  <2>1. ASSUME NEW r \in Requests, SubmitStore(w, r) PROVE IInv'
    BY <2>1, SubmitStoreInv
  <2>2. ASSUME NEW r \in Requests, SubmitRetrieve(w, r) PROVE IInv'
    BY <2>2, SubmitRetrieveInv
  <2>3. ASSUME NEW F \in SUBSET Deliverable(w), Poll(w, F) PROVE IInv'
    BY <2>3, PollInv
  <2>4. CASE HeartbeatFlips(w)
    BY <2>4, HeartbeatFlipsInv
  <2>5. QED BY <1>2, <2>1, <2>2, <2>3, <2>4 DEF WorkerStep
<1>3. ASSUME NEW w \in Workers, ServerStep(w) PROVE IInv'
  BY <1>3, StoreCompletesInv, LoadCompletesInv DEF ServerStep
<1>4. CASE UNCHANGED vars
  BY <1>4, IInvStutter
<1>5. QED BY <1>1, <1>2, <1>3, <1>4 DEF Next

\* The inductive invariant holds in every reachable state, whether or not
\* the LMCache server stays reachable.
THEOREM Inductive == Spec => []IInv
<1>1. Init => IInv BY IInvInit
<1>2. IInv /\ [Next]_vars => IInv' BY IInvStep
<1>3. QED BY <1>1, <1>2, PTL DEF Spec

\* Every variable keeps its type.
THEOREM TypeCorrect == Spec => []TypeOK
<1>1. IInv => TypeOK BY DEF IInv
<1>2. QED BY <1>1, Inductive, PTL

\* A request is freed only after every worker has submitted all of its
\* chunks and tracks none of them, even across a lost server.
THEOREM FreedOnlyByAll == Spec => []FreedByAll
<1>1. IInv => FreedByAll BY DEF IInv
<1>2. QED BY <1>1, Inductive, PTL

\* No transfer completion reaches an assertion of the scheduler.
THEOREM EngineNeverDies == Spec => []EngineAlive
<1>1. IInv => EngineAlive BY DEF IInv
<1>2. QED BY <1>1, Inductive, PTL

\* After a finish notice an adapter remembers a request exactly while
\* stores of it are pending.
THEOREM FinishIsTracked == Spec => []FinishTracked
<1>1. IInv => FinishTracked BY DEF IInv
<1>2. QED BY <1>1, Inductive, PTL

-------------------------------------------------------------------------------
(* While the server is never lost, tracked transfers cover the real ones. *)

LEMMA CoveredStep ==
    ASSUME ~HeartbeatMayFail, IInv, Covered, [Next]_vars
    PROVE  Covered'
<1> USE DEF vars, schedulerVars, ackVars, submitVars, trackVars, serverVars
<1>1. ASSUME NEW r \in Requests, SchedulerStep(r) PROVE Covered'
  BY <1>1 DEF SchedulerStep, Admit, AdmitLoad, ScheduleChunk, FinishRequest,
              FinishedRecving, RecvFails, FinishedSending, SentByAll, Covered
<1>2. ASSUME NEW w \in Workers, NEW r \in Requests, SubmitStore(w, r)
      PROVE  Covered'
  BY <1>2 DEF SubmitStore, StartStore, Covered, IInv, TypeOK
<1>3. ASSUME NEW w \in Workers, NEW r \in Requests, SubmitRetrieve(w, r)
      PROVE  Covered'
  BY <1>3 DEF SubmitRetrieve, Covered, IInv, TypeOK
<1>4. ASSUME NEW w \in Workers, NEW F \in SUBSET Deliverable(w), Poll(w, F)
      PROVE  Covered'
  <2>1. GetFinished(w, F)
    BY <1>4 DEF Poll, GiveUp, Covered
  <2>2. /\ futures' = [futures EXCEPT ![w] = futures[w] \cap storing[w]]
        /\ loads' = [loads EXCEPT ![w] = @ \ (loads[w] \ restoring[w])]
        /\ UNCHANGED <<healthy, storing, restoring>>
    BY <2>1 DEF GetFinished, Landed, Pending, ReportLoads
  <2>3. QED BY <2>2 DEF Covered, IInv, TypeOK
<1>5. ASSUME NEW w \in Workers, HeartbeatFlips(w) PROVE Covered'
  BY <1>5 DEF HeartbeatFlips
<1>6. ASSUME NEW w \in Workers, ServerStep(w) PROVE Covered'
  <2>1. ASSUME NEW r \in Requests, LoadCompletes(w, r) PROVE Covered'
    BY <2>1 DEF LoadCompletes, Covered, IInv, TypeOK
  <2>2. ASSUME NEW r \in Requests, NEW c \in Chunks, StoreCompletes(w, r, c)
        PROVE  Covered'
    BY <2>2 DEF StoreCompletes, Covered, IInv, TypeOK
  <2>3. QED BY <1>6, <2>1, <2>2 DEF ServerStep
<1>7. CASE UNCHANGED vars
  BY <1>7 DEF Covered
<1>8. QED BY <1>1, <1>2, <1>3, <1>4, <1>5, <1>6, <1>7 DEF Next, WorkerStep

THEOREM CoveredAlways == ASSUME ~HeartbeatMayFail PROVE Spec => []Covered
<1>1. Init => Covered BY DEF Init, Covered
<1>2. IInv /\ Covered /\ [Next]_vars => Covered' BY CoveredStep
<1>3. QED BY <1>1, <1>2, Inductive, PTL DEF Spec

\* While the server is never lost, no worker's store reads blocks that were
\* returned to the pool.
THEOREM FreedIsQuiet == ASSUME ~HeartbeatMayFail PROVE Spec => []FreedQuiet
<1>1. IInv /\ Covered => FreedQuiet
  BY DEF IInv, Covered, FreedByAll, FreedQuiet, Has
<1>2. QED BY <1>1, Inductive, CoveredAlways, PTL

\* While the server is never lost, a request computes only on a prefix that
\* every worker has loaded.
THEOREM RunsOnlyLoaded == ASSUME ~HeartbeatMayFail PROVE Spec => []RunsLoaded
<1>1. ASSUME IInv, Covered, NEW r \in loadSent, status[r] = "running",
             NEW w \in Workers
      PROVE  r \in loadSubmitted[w] /\ r \notin restoring[w]
  <2>1. r \in Requests BY <1>1 DEF IInv, TypeOK
  <2>2. ~LoadOpen(w, r) BY <1>1, <2>1 DEF IInv, LoadFirst
  <2>3. QED BY <1>1, <2>2 DEF LoadOpen, Covered
<1>2. IInv /\ Covered => RunsLoaded BY <1>1 DEF RunsLoaded
<1>3. QED BY <1>2, Inductive, CoveredAlways, PTL

-------------------------------------------------------------------------------
(* The engine, the adapters and the server implement BlockLease. *)

\* The mapped variables.
Held == {r \in Requests : HoldsBlocks(r)}
Used == {r \in Requests : status[r] # "new"}
ReadsOf(copies) ==
    UNION {{<<p[1], <<w, p[2]>> >> : p \in copies[w]} : w \in Workers}
Reads == ReadsOf(storing)

\* A read of the lease is a copy in progress of one worker.
LEMMA ReadsOfCopies ==
    ASSUME NEW copies \in [Workers -> SUBSET Stores]
    PROVE  /\ ReadsOf(copies) \subseteq Requests \X (Workers \X Chunks)
           /\ \A q \in Requests, x \in Workers, d \in Chunks :
                  <<q, <<x, d>> >> \in ReadsOf(copies) <=> <<q, d>> \in copies[x]
<1>1. ASSUME NEW w \in Workers, NEW p \in copies[w]
      PROVE  /\ p[1] \in Requests /\ p[2] \in Chunks
             /\ p = <<p[1], p[2]>>
  BY <1>1 DEF Stores
<1>2. \A e : e \in ReadsOf(copies) <=>
          \E w \in Workers : \E p \in copies[w] : e = <<p[1], <<w, p[2]>> >>
  BY DEF ReadsOf
<1>3. ASSUME NEW q \in Requests, NEW x \in Workers, NEW d \in Chunks,
             <<q, <<x, d>> >> \in ReadsOf(copies)
      PROVE  <<q, d>> \in copies[x]
  <2>1. PICK w \in Workers : \E p \in copies[w] :
            <<q, <<x, d>> >> = <<p[1], <<w, p[2]>> >>
    BY <1>2, <1>3
  <2>2. PICK p \in copies[w] : <<q, <<x, d>> >> = <<p[1], <<w, p[2]>> >>
    BY <2>1
  <2>3. q = p[1] /\ x = w /\ d = p[2]
    BY <2>2
  <2>4. QED BY <1>1, <2>3
<1>4. ASSUME NEW q \in Requests, NEW x \in Workers, NEW d \in Chunks,
             <<q, d>> \in copies[x]
      PROVE  <<q, <<x, d>> >> \in ReadsOf(copies)
  BY <1>2, <1>4
<1>5. QED BY <1>1, <1>2, <1>3, <1>4

\* A step that leaves the server's stores and the life cycles alone stutters.
LEMMA LeaseStutter ==
    ASSUME UNCHANGED <<status, storing>>
    PROVE  UNCHANGED <<Held, Used, Reads>>
BY DEF Held, Used, Reads, ReadsOf, HoldsBlocks

\* What one scheduler step does to the lease.
LEMMA LeaseScheduler ==
    ASSUME IInv, IInv', Covered, Covered', NEW r \in Requests, SchedulerStep(r)
    PROVE  [Lease!LeaseNext]_(Lease!leaseVars)
<1> USE DEF schedulerVars, ackVars, submitVars, trackVars, serverVars
<1>1. Reads' = Reads
  BY DEF SchedulerStep, Admit, AdmitLoad, ScheduleChunk, FinishRequest,
         FinishedRecving, RecvFails, FinishedSending, SentByAll, Reads,
         ReadsOf
<1>2. \/ /\ r \notin Used
         /\ Held' = Held \cup {r}
         /\ Used' = Used \cup {r}
      \/ /\ r \in Held
         /\ status'[r] = "freed"
         /\ Held' = Held \ {r}
         /\ Used' = Used
      \/ Held' = Held /\ Used' = Used
  <2> USE DEF IInv, TypeOK, Held, Used, HoldsBlocks
  <2>1. CASE Admit(r) BY <2>1 DEF Admit
  <2>2. CASE AdmitLoad(r) BY <2>2 DEF AdmitLoad
  <2>3. CASE ScheduleChunk(r) BY <2>3 DEF ScheduleChunk
  <2>4. CASE FinishRequest(r) BY <2>4 DEF FinishRequest
  <2>5. CASE FinishedRecving(r) /\ status[r] = "loading"
    BY <2>5 DEF FinishedRecving, RecvFails
  <2>6. CASE FinishedRecving(r) /\ status[r] = "finished"
    BY <2>6 DEF FinishedRecving, RecvFails
  <2>7. CASE FinishedRecving(r) /\ status[r] \notin {"loading", "finished"}
    BY <2>7 DEF FinishedRecving, RecvFails
  <2>8. CASE FinishedSending(r) /\ status[r] = "finished"
    BY <2>8 DEF FinishedSending, SentByAll
  <2>9. CASE FinishedSending(r) /\ status[r] # "finished"
    BY <2>9 DEF FinishedSending, SentByAll
  <2>10. QED BY <2>1, <2>2, <2>3, <2>4, <2>5, <2>6, <2>7, <2>8, <2>9
             DEF SchedulerStep
<1>3. status'[r] = "freed" => \A t \in Workers \X Chunks : <<r, t>> \notin Reads
  <2> SUFFICES ASSUME status'[r] = "freed", NEW w \in Workers, NEW c \in Chunks
               PROVE  <<r, <<w, c>> >> \notin Reads
    OBVIOUS
  <2>1. ~Has(futures'[w], r)
    BY DEF IInv, FreedByAll
  <2>2. <<r, c>> \notin storing'[w]
    BY <2>1 DEF Covered, Has
  <2>3. QED BY <1>1, <2>2, ReadsOfCopies DEF Reads, IInv, TypeOK
<1>4. QED BY <1>1, <1>2, <1>3 DEF Lease!LeaseNext, Lease!Acquire,
             Lease!Release, Lease!leaseVars, Held, Used, Reads, ReadsOf

LEMMA LeaseWorker ==
    ASSUME IInv, IInv', NEW w \in Workers, WorkerStep(w)
    PROVE  [Lease!LeaseNext]_(Lease!leaseVars)
<1> USE DEF schedulerVars, ackVars, submitVars, trackVars, serverVars
<1>1. ASSUME NEW r \in Requests, SubmitStore(w, r)
      PROVE  [Lease!LeaseNext]_(Lease!leaseVars)
  <2>1. PICK c \in Chunks : c = submitted[w][r] + 1 /\ sched[r] # 0
    BY <1>1, ChunksAssumption DEF IInv, TypeOK, SubmitStore, StartStore, Chunks
  <2>2. r \in Held
    BY <1>1, <2>1 DEF IInv, TypeOK, Statuses, LoadFirst, FreedByAll, Held,
                      HoldsBlocks, SubmitStore, StartStore
  <2>3. storing' = [storing EXCEPT ![w] = @ \cup {<<r, c>>}]
    BY <1>1, <2>1 DEF SubmitStore, StartStore
  <2>4. Reads' = Reads \cup {<<r, <<w, c>> >>}
    <3>1. /\ Reads \subseteq Requests \X (Workers \X Chunks)
          /\ Reads' \subseteq Requests \X (Workers \X Chunks)
      BY ReadsOfCopies DEF Reads, IInv, TypeOK
    <3>2. ASSUME NEW q \in Requests, NEW x \in Workers, NEW d \in Chunks
          PROVE  <<q, <<x, d>> >> \in Reads' <=>
                     <<q, <<x, d>> >> \in Reads \cup {<<r, <<w, c>> >>}
      <4>1. /\ <<q, <<x, d>> >> \in Reads <=> <<q, d>> \in storing[x]
            /\ <<q, <<x, d>> >> \in Reads' <=> <<q, d>> \in storing'[x]
        BY ReadsOfCopies DEF Reads, IInv, TypeOK
      <4>2. storing'[x] = IF x = w THEN storing[x] \cup {<<r, c>>}
                                   ELSE storing[x]
        BY <2>3 DEF IInv, TypeOK
      <4>3. /\ <<q, <<x, d>> >> = <<r, <<w, c>> >> <=> (q = r /\ x = w /\ d = c)
            /\ <<q, d>> = <<r, c>> <=> (q = r /\ d = c)
        OBVIOUS
      <4>4. QED BY <4>1, <4>2, <4>3
    <3>3. <<r, <<w, c>> >> \in Requests \X (Workers \X Chunks)
      BY <2>1
    <3>4. QED BY <3>1, <3>2, <3>3
  <2>5. Held' = Held /\ Used' = Used
    BY <1>1 DEF SubmitStore, StartStore, Held, Used, HoldsBlocks
  <2>6. Lease!StartRead(r, <<w, c>>)
    BY <2>2, <2>4, <2>5 DEF Lease!StartRead, Held, Used, Reads, ReadsOf
  <2>7. <<w, c>> \in Workers \X Chunks
    BY <2>1
  <2>8. QED BY <2>6, <2>7 DEF Lease!LeaseNext
<1>2. ASSUME NEW r \in Requests, SubmitRetrieve(w, r)
      PROVE  UNCHANGED <<status, storing>>
  BY <1>2 DEF SubmitRetrieve
<1>3. ASSUME NEW F \in SUBSET Deliverable(w), Poll(w, F)
      PROVE  UNCHANGED <<status, storing>>
  BY <1>3 DEF Poll, GetFinished, GiveUp
<1>4. HeartbeatFlips(w) => UNCHANGED <<status, storing>>
  BY DEF HeartbeatFlips
<1>5. UNCHANGED <<status, storing>> => UNCHANGED Lease!leaseVars
  BY LeaseStutter DEF Lease!leaseVars, Held, Used, Reads, ReadsOf
<1>6. QED BY <1>1, <1>2, <1>3, <1>4, <1>5 DEF WorkerStep

LEMMA LeaseServer ==
    ASSUME IInv, IInv', NEW w \in Workers, ServerStep(w)
    PROVE  [Lease!LeaseNext]_(Lease!leaseVars)
<1> USE DEF schedulerVars, ackVars, submitVars, trackVars, serverVars
<1>1. ASSUME NEW r \in Requests, NEW c \in Chunks, StoreCompletes(w, r, c)
      PROVE  [Lease!LeaseNext]_(Lease!leaseVars)
  <2>1. Reads' = Reads \ {<<r, <<w, c>> >>} /\ <<r, <<w, c>> >> \in Reads
    <3>1. /\ storing' = [storing EXCEPT ![w] = @ \ {<<r, c>>}]
          /\ <<r, c>> \in storing[w]
      BY <1>1 DEF StoreCompletes
    <3>2. \A x \in Workers, q \in Requests, d \in Chunks :
              <<q, d>> \in storing'[x] <=>
                  /\ <<q, d>> \in storing[x]
                  /\ x # w \/ q # r \/ d # c
      <4>1. storing'[w] = storing[w] \ {<<r, c>>}
        BY <3>1 DEF IInv, TypeOK
      <4>2. \A x \in Workers \ {w} : storing'[x] = storing[x]
        BY <3>1 DEF IInv, TypeOK
      <4> SUFFICES ASSUME NEW x \in Workers, NEW q \in Requests, NEW d \in Chunks
                   PROVE  <<q, d>> \in storing'[x] <=>
                              /\ <<q, d>> \in storing[x]
                              /\ (x # w \/ q # r \/ d # c)
        OBVIOUS
      <4>3. <<q, d>> = <<r, c>> <=> (q = r /\ d = c)
        OBVIOUS
      <4>4. QED BY <4>1, <4>2, <4>3
    <3>3. <<r, <<w, c>> >> \in Reads
      BY <3>1, ReadsOfCopies DEF Reads, IInv, TypeOK
    <3>4. ASSUME NEW q \in Requests, NEW x \in Workers, NEW d \in Chunks
          PROVE  <<q, <<x, d>> >> \in Reads' <=>
                     <<q, <<x, d>> >> \in Reads \ {<<r, <<w, c>> >>}
      <4>1. <<q, <<x, d>> >> \in Reads <=> <<q, d>> \in storing[x]
        BY ReadsOfCopies DEF Reads, IInv, TypeOK
      <4>2. <<q, <<x, d>> >> \in Reads' <=> <<q, d>> \in storing'[x]
        BY ReadsOfCopies DEF Reads, IInv, TypeOK
      <4>3. <<q, <<x, d>> >> = <<r, <<w, c>> >> <=> (q = r /\ x = w /\ d = c)
        OBVIOUS
      <4>4. QED BY <3>2, <4>1, <4>2, <4>3
    <3>5. Reads' \subseteq Requests \X (Workers \X Chunks)
      BY ReadsOfCopies DEF Reads, IInv, TypeOK
    <3>6. Reads \subseteq Requests \X (Workers \X Chunks)
      BY ReadsOfCopies DEF Reads, IInv, TypeOK
    <3>7. QED BY <3>3, <3>4, <3>5, <3>6
  <2>2. Held' = Held /\ Used' = Used
    BY <1>1 DEF StoreCompletes, Held, Used, HoldsBlocks
  <2>3. Lease!EndRead(r, <<w, c>>)
    BY <2>1, <2>2 DEF Lease!EndRead, Held, Used, Reads, ReadsOf
  <2>4. QED BY <2>3 DEF Lease!LeaseNext
<1>2. ASSUME NEW r \in Requests, LoadCompletes(w, r)
      PROVE  UNCHANGED Lease!leaseVars
  BY <1>2, LeaseStutter DEF LoadCompletes, Lease!leaseVars, Held, Used, Reads, ReadsOf
<1>3. QED BY <1>1, <1>2 DEF ServerStep

\* While the server is never lost, blocks are leased and read as BlockLease
\* says: no copy starts on returned blocks, none outlives the lease.
THEOREM ImplementsLease == ASSUME ~HeartbeatMayFail PROVE Spec => LeaseKept
<1>1. Init => Lease!LeaseInit
  BY DEF Init, Lease!LeaseInit, HoldsBlocks
<1>2. ASSUME IInv, IInv', Covered, Covered', [Next]_vars
      PROVE  [Lease!LeaseNext]_(Lease!leaseVars)
  <2>1. CASE UNCHANGED vars
    BY <2>1, LeaseStutter DEF vars, schedulerVars, serverVars,
       Lease!leaseVars, Held, Used, Reads, ReadsOf
  <2>2. QED BY <1>2, <2>1, LeaseScheduler, LeaseWorker, LeaseServer DEF Next
<1>3. QED BY <1>1, <1>2, Inductive, CoveredAlways, PTL
          DEF Spec, LeaseKept, Lease!LeaseSpec

================================================================================
