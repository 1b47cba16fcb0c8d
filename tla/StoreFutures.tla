----------------------------- MODULE StoreFutures -----------------------------
(***************************************************************************)
(* The bookkeeping of one LMCache worker adapter in full: per request a    *)
(* list of store futures and a list of the CUDA events exported with them, *)
(* and one future and one event per retrieve.  The server keeps completing *)
(* copies while _poll_store_futures walks the lists, so the walk is one    *)
(* step per future.                                                        *)
(***************************************************************************)
EXTENDS Naturals, Sequences, FiniteSets

CONSTANTS Requests,
          MaxStores         \* bound: store submissions in a behaviour

ASSUME StoresAssumption == MaxStores \in Nat

VARIABLES
    storeFutures,    \* store_futures; <<>> when the key is absent
    storeEvents,     \* store_events, likewise
    retrieveFutures, \* the keys of retrieve_futures
    retrieveEvents,  \* the keys of retrieve_events
    retrieved,       \* requests whose prefix load was submitted
    copying,         \* server: stores whose blocks it still reads
    restoring,       \* server: retrieves it still writes
    submitted,       \* stores submitted so far; they are numbered from 1
    results,         \* how often the result of each store was read
    drained,         \* finished_requests of the last completed poll
    poll,            \* the poll in progress
    raised,          \* the future/event mismatch was raised
    healthy          \* the heartbeat still answers

dictVars == <<storeFutures, storeEvents>>
retrieveVars == <<retrieveFutures, retrieveEvents, retrieved>>
serverVars == <<copying, restoring>>
vars == <<dictVars, retrieveVars, serverVars, submitted, results, drained,
          poll, raised, healthy>>

Stores == 1..MaxStores

\* A poll: the requests of its snapshot still to visit; the pairs of the
\* current request still to visit; the pending lists; the requests drained.
Idle == [todo |-> {}, current |-> {}, futures |-> <<>>, events |-> <<>>,
         pendingFutures |-> <<>>, pendingEvents |-> <<>>, finished |-> {},
         active |-> FALSE]

IsListed(list, s) == \E i \in DOMAIN list : list[i] = s

TypeOK ==
    /\ storeFutures \in [Requests -> Seq(Stores)]
    /\ storeEvents \in [Requests -> Seq(Stores)]
    /\ retrieveFutures \subseteq Requests
    /\ retrieveEvents \subseteq Requests
    /\ retrieved \subseteq Requests
    /\ copying \subseteq 1..submitted
    /\ restoring \subseteq retrieved
    /\ submitted \in 0..MaxStores
    /\ results \in [Stores -> Nat]
    /\ drained \subseteq Requests
    /\ poll.todo \subseteq Requests
    /\ poll.current \subseteq Requests /\ Cardinality(poll.current) <= 1
    /\ \A list \in {poll.futures, poll.events, poll.pendingFutures,
                    poll.pendingEvents} : list \in Seq(Stores)
    /\ poll.finished \subseteq Requests
    /\ {poll.active, raised, healthy} \subseteq BOOLEAN

Init ==
    /\ storeFutures = [r \in Requests |-> <<>>]
    /\ storeEvents = [r \in Requests |-> <<>>]
    /\ retrieveFutures = {} /\ retrieveEvents = {} /\ retrieved = {}
    /\ copying = {} /\ restoring = {}
    /\ submitted = 0
    /\ results = [s \in Stores |-> 0]
    /\ drained = {}
    /\ poll = Idle
    /\ raised = FALSE
    /\ healthy = TRUE

\* The adapter is one thread: nothing is submitted during a poll, and nothing
\* runs after the mismatch was raised.
Free == ~poll.active /\ ~raised

-------------------------------------------------------------------------------
(* Submissions. *)

\* Mutant: the dictionaries keep one future and one event per request.
FileOverwriting(lists, r, s) == [lists EXCEPT ![r] = <<s>>]

\* Mutant: the number of the next store is filed.
FileNext(lists, r, s) == [lists EXCEPT ![r] = Append(@, s + 1)]

\* setdefault(request_id, []).append
File(lists, r, s) == [lists EXCEPT ![r] = Append(@, s)]

\* submit_store_request.
SubmitStore(r) ==
    /\ Free
    /\ submitted < MaxStores
    /\ submitted' = submitted + 1
    /\ storeFutures' = File(storeFutures, r, submitted + 1)
    /\ storeEvents' = File(storeEvents, r, submitted + 1)
    /\ copying' = copying \cup {submitted + 1}
    /\ UNCHANGED <<retrieveVars, restoring, results, drained, poll, raised,
                   healthy>>

\* submit_retrieve_request.
SubmitRetrieve(r) ==
    /\ Free
    /\ r \notin retrieved
    /\ retrieved' = retrieved \cup {r}
    /\ retrieveFutures' = retrieveFutures \cup {r}
    /\ retrieveEvents' = retrieveEvents \cup {r}
    /\ restoring' = restoring \cup {r}
    /\ UNCHANGED <<dictVars, copying, submitted, results, drained, poll,
                   raised, healthy>>

-------------------------------------------------------------------------------
(* get_finished. *)

\* The snapshot list(self.store_futures.items()).
PollStart ==
    /\ Free
    /\ healthy
    /\ poll' = [Idle EXCEPT !.active = TRUE,
                            !.todo = {r \in Requests : storeFutures[r] # <<>>}]
    /\ UNCHANGED <<dictVars, retrieveVars, serverVars, submitted, results,
                   drained, raised, healthy>>

\* The next request of the snapshot; its two lists must be equally long.
PollRequest(r) ==
    /\ poll.active /\ ~raised
    /\ poll.current = {}
    /\ r \in poll.todo
    /\ raised' = (Len(storeFutures[r]) # Len(storeEvents[r]))
    /\ poll' = [poll EXCEPT !.todo = @ \ {r}, !.current = {r},
                            !.futures = storeFutures[r],
                            !.events = storeEvents[r],
                            !.pendingFutures = <<>>, !.pendingEvents = <<>>]
    /\ UNCHANGED <<dictVars, retrieveVars, serverVars, submitted, results,
                   drained, healthy>>

\* Mutant: the event of an answered future is kept.
KeepEventAlways(event, isPending) == <<event>>

\* What the loop appends to pending_events.
KeepEvent(event, isPending) == IF isPending THEN <<event>> ELSE <<>>

\* Mutant: the result is read whether or not the future has answered.
ReadsAlways(future) == TRUE

ReadsResult(future) == future \notin copying

\* One turn of the zip loop.
PollFuture ==
    /\ poll.active /\ ~raised
    /\ poll.futures # <<>>
    /\ LET future == Head(poll.futures)
           event  == Head(poll.events)
       IN /\ poll' = [poll EXCEPT
                !.futures = Tail(@),
                !.events = Tail(@),
                !.pendingFutures =
                    @ \o (IF future \in copying THEN <<future>> ELSE <<>>),
                !.pendingEvents = @ \o KeepEvent(event, future \in copying)]
          /\ results' = [results EXCEPT
                ![future] = IF ReadsResult(future) THEN @ + 1 ELSE @]
    /\ UNCHANGED <<dictVars, retrieveVars, serverVars, submitted, drained,
                   raised, healthy>>

\* After the loop: write the pending lists back, or pop the request.
PollWriteBack(r) ==
    /\ poll.active /\ ~raised
    /\ poll.current = {r}
    /\ poll.futures = <<>>
    /\ storeFutures' = [storeFutures EXCEPT ![r] = poll.pendingFutures]
    /\ storeEvents' = [storeEvents EXCEPT ![r] = poll.pendingEvents]
    /\ poll' = [poll EXCEPT !.current = {},
                            !.finished = IF poll.pendingFutures = <<>>
                                         THEN @ \cup {r} ELSE @]
    /\ UNCHANGED <<retrieveVars, serverVars, submitted, results, drained,
                   raised, healthy>>

\* The poll returns; retrieves whose future answers are removed with their
\* events.
PollEnd ==
    /\ poll.active /\ ~raised
    /\ poll.current = {} /\ poll.todo = {}
    /\ drained' = poll.finished
    /\ retrieveFutures' = retrieveFutures \cap restoring
    /\ retrieveEvents' = retrieveEvents \ (retrieveFutures \ restoring)
    /\ poll' = Idle
    /\ UNCHANGED <<dictVars, retrieved, serverVars, submitted, results, raised,
                   healthy>>

ClearedEvents == [r \in Requests |-> <<>>]

\* get_finished once the server is lost: all four dictionaries are cleared.
GiveUp ==
    /\ Free
    /\ ~healthy
    /\ drained' = {r \in Requests : storeFutures[r] # <<>>}
    /\ storeFutures' = [r \in Requests |-> <<>>]
    /\ storeEvents' = ClearedEvents
    /\ retrieveFutures' = {}
    /\ retrieveEvents' = {}
    /\ UNCHANGED <<retrieved, serverVars, submitted, results, poll, raised,
                   healthy>>

\* The heartbeat thread finds the server gone, or merely slow to answer.
HeartbeatLost ==
    /\ healthy
    /\ healthy' = FALSE
    /\ UNCHANGED <<dictVars, retrieveVars, serverVars, submitted, results,
                   drained, poll, raised>>

-------------------------------------------------------------------------------
(* The server, which is another process, at any time. *)

StoreCompletes(s) ==
    /\ s \in copying
    /\ copying' = copying \ {s}
    /\ UNCHANGED <<dictVars, retrieveVars, restoring, submitted, results,
                   drained, poll, raised, healthy>>

RetrieveCompletes(r) ==
    /\ r \in restoring
    /\ restoring' = restoring \ {r}
    /\ UNCHANGED <<dictVars, retrieveVars, copying, submitted, results,
                   drained, poll, raised, healthy>>

PollStep ==
    \/ PollStart
    \/ \E r \in Requests : PollRequest(r) \/ PollWriteBack(r)
    \/ PollFuture
    \/ PollEnd

Next ==
    \/ \E r \in Requests : \/ SubmitStore(r) \/ SubmitRetrieve(r)
                           \/ RetrieveCompletes(r)
    \/ \E s \in Stores : StoreCompletes(s)
    \/ PollStep
    \/ GiveUp
    \/ HeartbeatLost

Spec == Init /\ [][Next]_vars

(* get_finished is called at every engine step and its loop terminates; a    *)
(* server that answers completes its copies.                                 *)
FairSpec ==
    /\ Spec
    /\ WF_vars(PollStep)
    /\ WF_vars(GiveUp)
    /\ \A s \in Stores : WF_vars(StoreCompletes(s))
    /\ \A r \in Requests : WF_vars(RetrieveCompletes(r))

-------------------------------------------------------------------------------
(* Properties. *)

\* "Keep the exporting event alive until the receiving process finishes the
\* transfer": while the server reads or writes blocks, the adapter still
\* holds the event that the transfer was given.
EventOutlivesTransfer ==
    /\ \A s \in copying : \E r \in Requests : IsListed(storeEvents[r], s)
    /\ restoring \subseteq retrieveEvents

\* The same for as long as the heartbeat answers: neither a later chunk, a
\* partly drained list nor a poll in progress drops the event of a copy that
\* still runs.
EventHeldWhileHealthy == healthy => EventOutlivesTransfer

\* The fail-closed length check of _poll_store_futures never fires.
NeverRaises == ~raised

\* The result of a store is read at most once, and no future is dropped
\* unread while the heartbeat answers.
ResultOnce ==
    \A s \in 1..submitted :
        /\ results[s] <= 1
        /\ healthy /\ (\A r \in Requests : ~IsListed(storeFutures[r], s))
             => results[s] = 1

\* Every chunk's future is eventually answered and its result read, however
\* many chunks of the request were submitted in the meantime, unless the
\* heartbeat is lost.
EveryResultRead ==
    \A s \in Stores : s \in copying ~> results[s] = 1 \/ ~healthy
================================================================================
