------------------------------ MODULE KVTransfer ------------------------------
(***************************************************************************)
(* The asynchronous KV transfers of a prefill: the vLLM scheduler, one     *)
(* LMCache worker adapter per GPU, and the LMCache server that performs    *)
(* the copies.  A request whose prefix is cached loads it first; then each *)
(* chunked-prefill step stores one chunk.  A finished request keeps its    *)
(* GPU blocks until every worker has reported that its stores are over.    *)
(*                                                                         *)
(* The scheduler output reaches every worker in order.  The part of that   *)
(* stream about one request is load, chunk 1, chunk 2, ..., finish, so a   *)
(* worker's position in it is a counter: the chunks it has submitted       *)
(* against the chunks the scheduler has emitted.                           *)
(***************************************************************************)
EXTENDS Naturals, FiniteSets

CONSTANTS Workers,          \* the worker processes (TP ranks)
          Requests,         \* requests ever submitted to the engine
          MaxChunks,        \* bound: prefill chunks of a request
          HeartbeatMayFail  \* whether the LMCache server may be lost

ASSUME WorkersAssumption == Workers # {} /\ IsFiniteSet(Workers)
ASSUME ChunksAssumption == MaxChunks \in Nat
ASSUME HeartbeatAssumption == HeartbeatMayFail \in BOOLEAN

VARIABLES
    status,             \* scheduler: life cycle of each request
    sched,              \* scheduler: chunks emitted for each request
    loadSent,           \* scheduler: requests whose prefix load was emitted
    engineDead,         \* scheduler: an assertion has killed EngineCore
    sendAcks,           \* aggregator: workers that reported the send of r
    recvAcks,           \* aggregator: workers that reported the load of r
    submitted,          \* worker: chunks of r whose store was submitted
    loadSubmitted,      \* worker: requests whose retrieve was submitted
    finishSeen,         \* worker: finish notices already delivered
    futures,            \* worker: store_futures, as <<request, chunk>> pairs
    loads,              \* worker: the keys of retrieve_futures
    finishedStores,     \* worker: finished_stores
    previouslyFinished, \* worker: previously_finished
    healthy,            \* worker: the heartbeat still answers
    storing,            \* server: stores being copied out of GPU blocks
    restoring           \* server: loads being copied into GPU blocks

schedulerVars == <<status, sched, loadSent, engineDead>>
ackVars == <<sendAcks, recvAcks>>
submitVars == <<submitted, loadSubmitted>>
trackVars == <<finishSeen, futures, loads, finishedStores, previouslyFinished>>
serverVars == <<storing, restoring>>
vars == <<schedulerVars, ackVars, submitVars, trackVars, healthy, serverVars>>

Chunks == 1..MaxChunks
Stores == Requests \X Chunks
Statuses == {"new", "loading", "running", "finished", "freed"}

\* The scheduler still owns blocks for such a request.
HoldsBlocks(r) == status[r] \in {"loading", "running", "finished"}

Has(pairs, r) == \E c \in Chunks : <<r, c>> \in pairs

TypeOK ==
    /\ status \in [Requests -> Statuses]
    /\ sched \in [Requests -> 0..MaxChunks]
    /\ loadSent \in SUBSET Requests
    /\ engineDead \in BOOLEAN
    /\ sendAcks \in [Requests -> SUBSET Workers]
    /\ recvAcks \in [Requests -> SUBSET Workers]
    /\ submitted \in [Workers -> [Requests -> Nat]]
    /\ loadSubmitted \in [Workers -> SUBSET Requests]
    /\ finishSeen \in [Workers -> SUBSET Requests]
    /\ futures \in [Workers -> SUBSET Stores]
    /\ loads \in [Workers -> SUBSET Requests]
    /\ finishedStores \in [Workers -> SUBSET Requests]
    /\ previouslyFinished \in [Workers -> SUBSET Requests]
    /\ healthy \in [Workers -> BOOLEAN]
    /\ storing \in [Workers -> SUBSET Stores]
    /\ restoring \in [Workers -> SUBSET Requests]

Init ==
    /\ status = [r \in Requests |-> "new"]
    /\ sched = [r \in Requests |-> 0]
    /\ loadSent = {}
    /\ engineDead = FALSE
    /\ sendAcks = [r \in Requests |-> {}]
    /\ recvAcks = [r \in Requests |-> {}]
    /\ submitted = [w \in Workers |-> [r \in Requests |-> 0]]
    /\ loadSubmitted = [w \in Workers |-> {}]
    /\ finishSeen = [w \in Workers |-> {}]
    /\ futures = [w \in Workers |-> {}]
    /\ loads = [w \in Workers |-> {}]
    /\ finishedStores = [w \in Workers |-> {}]
    /\ previouslyFinished = [w \in Workers |-> {}]
    /\ healthy = [w \in Workers |-> TRUE]
    /\ storing = [w \in Workers |-> {}]
    /\ restoring = [w \in Workers |-> {}]

-------------------------------------------------------------------------------
(* The scheduler. *)

\* A request with no cached prefix is given blocks and starts to compute.
Admit(r) ==
    /\ status[r] = "new"
    /\ status' = [status EXCEPT ![r] = "running"]
    /\ UNCHANGED <<sched, loadSent, engineDead, ackVars, submitVars,
                   trackVars, healthy, serverVars>>

\* A request with a cached prefix is given blocks and waits for the load.
AdmitLoad(r) ==
    /\ status[r] = "new"
    /\ status' = [status EXCEPT ![r] = "loading"]
    /\ loadSent' = loadSent \cup {r}
    /\ UNCHANGED <<sched, engineDead, ackVars, submitVars, trackVars, healthy,
                   serverVars>>

\* One chunked-prefill step; its chunk is to be stored.
ScheduleChunk(r) ==
    /\ status[r] = "running"
    /\ sched[r] < MaxChunks
    /\ sched' = [sched EXCEPT ![r] = @ + 1]
    /\ UNCHANGED <<status, loadSent, engineDead, ackVars, submitVars,
                   trackVars, healthy, serverVars>>

\* The request stops, or the client aborts it, even while it still loads.
\* The connector asks for the blocks to be kept (delay_free_blocks).
FinishRequest(r) ==
    /\ status[r] \in {"loading", "running"}
    /\ status' = [status EXCEPT ![r] = "finished"]
    /\ UNCHANGED <<sched, loadSent, engineDead, ackVars, submitVars,
                   trackVars, healthy, serverVars>>

\* Mutant: the assertion that the patch replaced with a guard.
RecvFailsUnguarded(r) == status[r] \in {"new", "running", "freed"}

\* The recv loop skips a freed request and asserts what is left to assert.
RecvFails(r) == status[r] \in {"new", "running"}

\* Every worker has reported the load of r.  A request that is already freed
\* is skipped; one that waits may run; a finished one gives its blocks back;
\* in any other state the scheduler's assertion fails.
FinishedRecving(r) ==
    /\ recvAcks[r] = Workers
    /\ recvAcks' = [recvAcks EXCEPT ![r] = {}]
    /\ status' = [status EXCEPT ![r] = CASE @ = "loading"  -> "running"
                                         [] @ = "finished" -> "freed"
                                         [] OTHER -> @]
    /\ engineDead' = (engineDead \/ RecvFails(r))
    /\ UNCHANGED <<sched, loadSent, sendAcks, submitVars, trackVars, healthy,
                   serverVars>>

\* Mutant: the first worker's report is enough.
SentByFirst(r) == sendAcks[r] # {}

SentByAll(r) == sendAcks[r] = Workers

\* Every worker has reported the send of r: its blocks are returned, unless
\* they already were.  _free_blocks asserts that the request has finished.
FinishedSending(r) ==
    /\ SentByAll(r)
    /\ sendAcks' = [sendAcks EXCEPT ![r] = {}]
    /\ status' = [status EXCEPT ![r] = IF @ = "finished" THEN "freed" ELSE @]
    /\ engineDead' = (engineDead \/ status[r] \notin {"finished", "freed"})
    /\ UNCHANGED <<sched, loadSent, recvAcks, submitVars, trackVars, healthy,
                   serverVars>>

-------------------------------------------------------------------------------
(* The worker adapter. *)

\* The next chunk of r goes to the server.
StartStore(w, r) ==
    /\ submitted[w][r] < sched[r]
    /\ r \in loadSent => r \in loadSubmitted[w]
    /\ submitted' = [submitted EXCEPT ![w][r] = @ + 1]
    /\ storing' = [storing EXCEPT ![w] = @ \cup {<<r, submitted[w][r] + 1>>}]
    /\ UNCHANGED <<schedulerVars, ackVars, loadSubmitted, finishSeen, loads,
                   previouslyFinished, healthy, restoring>>

\* Mutants of submit_store_request: the future is filed under the chunk
\* before; the request stays in finished_stores; the new future replaces the
\* older ones of the request.
SubmitStoreOffByOne(w, r) ==
    /\ StartStore(w, r)
    /\ finishedStores' = [finishedStores EXCEPT ![w] = @ \ {r}]
    /\ futures' = [futures EXCEPT ![w] = @ \cup {<<r, submitted[w][r]>>}]

SubmitStoreKeepsFinished(w, r) ==
    /\ StartStore(w, r)
    /\ futures' = [futures EXCEPT ![w] = @ \cup {<<r, submitted[w][r] + 1>>}]
    /\ UNCHANGED finishedStores

SubmitStoreOverwrites(w, r) ==
    /\ StartStore(w, r)
    /\ finishedStores' = [finishedStores EXCEPT ![w] = @ \ {r}]
    /\ futures' = [futures EXCEPT ![w] = {p \in @ : p[1] # r}
                                             \cup {<<r, submitted[w][r] + 1>>}]

\* submit_store_request.
SubmitStore(w, r) ==
    /\ StartStore(w, r)
    /\ finishedStores' = [finishedStores EXCEPT ![w] = @ \ {r}]
    /\ futures' = [futures EXCEPT ![w] = @ \cup {<<r, submitted[w][r] + 1>>}]

\* submit_retrieve_request for the cached prefix of r.
SubmitRetrieve(w, r) ==
    /\ r \in loadSent \ loadSubmitted[w]
    /\ loadSubmitted' = [loadSubmitted EXCEPT ![w] = @ \cup {r}]
    /\ loads' = [loads EXCEPT ![w] = @ \cup {r}]
    /\ restoring' = [restoring EXCEPT ![w] = @ \cup {r}]
    /\ UNCHANGED <<schedulerVars, ackVars, submitted, finishSeen, futures,
                   finishedStores, previouslyFinished, healthy, storing>>

\* Finish notices that follow everything w has consumed of their request.
Deliverable(w) ==
    {r \in Requests : /\ status[r] \in {"finished", "freed"}
                      /\ r \notin finishSeen[w]
                      /\ submitted[w][r] = sched[r]
                      /\ r \in loadSent => r \in loadSubmitted[w]}

\* _process_finished_stores: drained requests have no store left, "left" are
\* the futures still tracked, F the requests the engine says are finished.
ProcessFinishedStores(w, drained, left, F) ==
    LET stores  == finishedStores[w] \cup drained
        direct  == {r \in F : r \notin stores /\ ~Has(left, r)}
        waiting == previouslyFinished[w] \cup (F \ direct)
        sent    == direct \cup (stores \cap waiting)
    IN /\ finishedStores' = [finishedStores EXCEPT ![w] = stores \ waiting]
       /\ previouslyFinished' =
              [previouslyFinished EXCEPT ![w] = waiting \ stores]
       /\ sendAcks' = [r \in Requests |-> IF r \in sent
                                          THEN sendAcks[r] \cup {w}
                                          ELSE sendAcks[r]]

\* The loads w reports in this step.
ReportLoads(w, done) ==
    /\ loads' = [loads EXCEPT ![w] = @ \ done]
    /\ recvAcks' = [r \in Requests |-> IF r \in done THEN recvAcks[r] \cup {w}
                                                     ELSE recvAcks[r]]

\* _poll_store_futures: what is still pending.
Pending(w) == futures[w] \cap storing[w]

\* ... and the requests with nothing left.
Drained(w) == {r \in Requests : Has(futures[w], r) /\ ~Has(Pending(w), r)}

\* Mutant: no query of the retrieve futures.
LandedUnqueried(w) == loads[w]

\* The retrieves whose future answers.
Landed(w) == loads[w] \ restoring[w]

\* get_finished while the server answers.
GetFinished(w, F) ==
    /\ healthy[w]
    /\ finishSeen' = [finishSeen EXCEPT ![w] = @ \cup F]
    /\ futures' = [futures EXCEPT ![w] = Pending(w)]
    /\ ProcessFinishedStores(w, Drained(w), Pending(w), F)
    /\ ReportLoads(w, Landed(w))
    /\ UNCHANGED <<schedulerVars, submitVars, healthy, serverVars>>

\* Mutant: nobody is told which stores were abandoned.
AbandonedNone(w) == {}

Abandoned(w) == {r \in Requests : Has(futures[w], r)}

\* get_finished once the server is lost: every transfer counts as over.
GiveUp(w, F) ==
    /\ ~healthy[w]
    /\ finishSeen' = [finishSeen EXCEPT ![w] = @ \cup F]
    /\ futures' = [futures EXCEPT ![w] = {}]
    /\ ProcessFinishedStores(w, Abandoned(w), {}, F)
    /\ ReportLoads(w, loads[w])
    /\ UNCHANGED <<schedulerVars, submitVars, healthy, serverVars>>

\* What one engine step asks of w.
Poll(w, F) == GetFinished(w, F) \/ GiveUp(w, F)

\* The heartbeat thread notices that the server is lost, or back.
HeartbeatFlips(w) ==
    /\ HeartbeatMayFail
    /\ healthy' = [healthy EXCEPT ![w] = ~@]
    /\ UNCHANGED <<schedulerVars, ackVars, submitVars, trackVars, serverVars>>

-------------------------------------------------------------------------------
(* The LMCache server completes copies in any order. *)

StoreCompletes(w, r, c) ==
    /\ <<r, c>> \in storing[w]
    /\ storing' = [storing EXCEPT ![w] = @ \ {<<r, c>>}]
    /\ UNCHANGED <<schedulerVars, ackVars, submitVars, trackVars, healthy,
                   restoring>>

LoadCompletes(w, r) ==
    /\ r \in restoring[w]
    /\ restoring' = [restoring EXCEPT ![w] = @ \ {r}]
    /\ UNCHANGED <<schedulerVars, ackVars, submitVars, trackVars, healthy,
                   storing>>

SchedulerStep(r) ==
    \/ Admit(r)
    \/ AdmitLoad(r)
    \/ ScheduleChunk(r)
    \/ FinishRequest(r)
    \/ FinishedRecving(r)
    \/ FinishedSending(r)

WorkerStep(w) ==
    \/ \E r \in Requests : SubmitStore(w, r) \/ SubmitRetrieve(w, r)
    \/ \E F \in SUBSET Deliverable(w) : Poll(w, F)
    \/ HeartbeatFlips(w)

ServerStep(w) ==
    \E r \in Requests :
        LoadCompletes(w, r) \/ \E c \in Chunks : StoreCompletes(w, r, c)

\* A dead engine takes no step.
Next ==
    /\ ~engineDead
    /\ \/ \E r \in Requests : SchedulerStep(r)
       \/ \E w \in Workers : WorkerStep(w) \/ ServerStep(w)

Spec == Init /\ [][Next]_vars

(* The engine loop keeps stepping, so outputs are consumed, get_finished is  *)
(* called with whatever is deliverable and completions are applied; a server *)
(* that answers completes its copies.  Nothing obliges a request to finish.  *)
Fairness ==
    /\ \A w \in Workers :
        /\ WF_vars(Poll(w, Deliverable(w)))
        /\ \A r \in Requests :
            /\ WF_vars(SubmitStore(w, r))
            /\ WF_vars(SubmitRetrieve(w, r))
            /\ WF_vars(LoadCompletes(w, r))
            /\ \A c \in Chunks : WF_vars(StoreCompletes(w, r, c))
    /\ \A r \in Requests :
        /\ WF_vars(FinishedSending(r))
        /\ WF_vars(FinishedRecving(r))

FairSpec == Spec /\ Fairness

-------------------------------------------------------------------------------
(* Properties. *)

\* Blocks that went back to the pool are not being read by a store of any
\* worker: the reason submit_store_request discards the request from
\* finished_stores and keeps every chunk's future.
FreedQuiet ==
    \A r \in Requests : status[r] = "freed" =>
        \A w \in Workers : ~Has(storing[w], r)

\* Late completions, also of aborted requests, never reach the scheduler's assertions
\* (the two guards of _update_from_kv_xfer_finished).
EngineAlive == ~engineDead

\* A request runs only after every worker's copy of its prefix has landed.
RunsLoaded ==
    \A r \in loadSent : status[r] = "running" =>
        \A w \in Workers : r \in loadSubmitted[w] /\ r \notin restoring[w]

\* Once a worker has seen a finish notice it remembers the request exactly
\* while stores are pending, so it reports the send once and leaks nothing.
FinishTracked ==
    \A w \in Workers : \A r \in finishSeen[w] :
        /\ r \in previouslyFinished[w] <=> Has(futures[w], r)
        /\ r \notin finishedStores[w]

\* The scheduler never frees a request on the acknowledgements of some of
\* its workers: while one has not submitted or drained its chunks, the
\* blocks stay.
FreedByAll ==
    \A r \in Requests : status[r] = "freed" =>
        \A w \in Workers : submitted[w][r] = sched[r] /\ ~Has(futures[w], r)

\* Every finished request gives its blocks back in the end.
EventuallyFreed ==
    \A r \in Requests : status[r] = "finished" ~> status[r] = "freed"

\* The engine, the adapters and the server keep the lease on the blocks.
Lease == INSTANCE BlockLease WITH
    Transfers <- Workers \X Chunks,
    held  <- {r \in Requests : HoldsBlocks(r)},
    used  <- {r \in Requests : status[r] # "new"},
    reads <- UNION {{<<p[1], <<w, p[2]>>>> : p \in storing[w]} : w \in Workers}

LeaseKept == Lease!LeaseSpec
================================================================================
