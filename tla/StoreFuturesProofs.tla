-------------------------- MODULE StoreFuturesProofs --------------------------
(***************************************************************************)
(* Proofs about StoreFutures for every set of requests and every number of *)
(* stores: why the length check never fires, why no event is dropped under *)
(* a copy and why no result is read twice.                                 *)
(***************************************************************************)
EXTENDS StoreFutures, FiniteSetTheorems, SequenceTheorems, TLAPS

\* No store occurs twice in a list.
NoRepeat(list) == \A i, j \in DOMAIN list : list[i] = list[j] => i = j

\* The fields a poll has.
Polls == [todo : SUBSET Requests, current : SUBSET Requests,
          futures : Seq(Stores), events : Seq(Stores),
          pendingFutures : Seq(Stores), pendingEvents : Seq(Stores),
          finished : SUBSET Requests, active : BOOLEAN]

Types ==
    /\ storeFutures \in [Requests -> Seq(Stores)]
    /\ storeEvents \in [Requests -> Seq(Stores)]
    /\ retrieveFutures \in SUBSET Requests
    /\ retrieveEvents \in SUBSET Requests
    /\ retrieved \in SUBSET Requests
    /\ copying \in SUBSET (1..submitted)
    /\ restoring \in SUBSET retrieved
    /\ submitted \in 0..MaxStores
    /\ results \in [Stores -> 0..1]
    /\ drained \in SUBSET Requests
    /\ poll \in Polls
    /\ raised \in BOOLEAN
    /\ healthy \in BOOLEAN

\* Futures and events are kept in step everywhere, so that the lists the
\* length check compares are the same list.
InStep ==
    /\ storeEvents = storeFutures
    /\ retrieveEvents = retrieveFutures
    /\ poll.events = poll.futures
    /\ poll.pendingEvents = poll.pendingFutures
    /\ ~raised

\* A poll visits one request at a time and each request once; those it found
\* drained have no future left.
OneVisit ==
    /\ ~poll.active => poll = Idle
    /\ poll.current = {} => poll.futures = <<>>
    /\ \A r, q \in poll.current : r = q /\ r \notin poll.todo
    /\ \A r \in poll.finished :
        r \notin poll.todo \cup poll.current /\ storeFutures[r] = <<>>

\* A store is listed once, under one request.
ListedOnce ==
    /\ \A r \in Requests : NoRepeat(storeFutures[r])
    /\ \A r \in Requests, s \in Stores :
        IsListed(storeFutures[r], s) => s <= submitted
    /\ \A r, q \in Requests, s \in Stores :
        IsListed(storeFutures[r], s) /\ IsListed(storeFutures[q], s) => r = q

\* The list of the request a poll is at is split in three: what it has still
\* to visit, what it keeps, and what it has read.
Walk ==
    \A r \in poll.current :
        /\ NoRepeat(poll.futures) /\ NoRepeat(poll.pendingFutures)
        /\ \A s \in Stores :
            /\ ~(IsListed(poll.futures, s) /\ IsListed(poll.pendingFutures, s))
            /\ IsListed(poll.futures, s) \/ IsListed(poll.pendingFutures, s)
                 => IsListed(storeFutures[r], s) /\ results[s] = 0
            /\ IsListed(storeFutures[r], s)
                 => \/ IsListed(poll.futures, s)
                    \/ IsListed(poll.pendingFutures, s)
                    \/ results[s] = 1

\* No result was read of a store that is still to come, still copied, or
\* listed where the poll is not.
Unread ==
    \A s \in Stores :
        /\ s > submitted \/ s \in copying => results[s] = 0
        /\ \A r \in Requests :
            IsListed(storeFutures[r], s) /\ r \notin poll.current
              => results[s] = 0

\* While the heartbeat answers, nothing unread is unlisted.
Held ==
    healthy =>
        /\ \A s \in 1..submitted :
            results[s] = 1 \/ \E r \in Requests : IsListed(storeFutures[r], s)
        /\ restoring \subseteq retrieveFutures

IInv == Types /\ InStep /\ OneVisit /\ ListedOnce /\ Walk /\ Unread /\ Held

-------------------------------------------------------------------------------
(* Lists. *)

LEMMA EmptyList == NoRepeat(<<>>) /\ \A s : ~IsListed(<<>>, s)
BY DEF IsListed, NoRepeat

LEMMA AppendList ==
    ASSUME NEW list \in Seq(Stores), NEW s \in Stores
    PROVE  /\ Append(list, s) \in Seq(Stores)
           /\ \A t : IsListed(Append(list, s), t) <=> IsListed(list, t) \/ t = s
           /\ NoRepeat(list) /\ ~IsListed(list, s) => NoRepeat(Append(list, s))
<1>1. /\ Append(list, s) \in Seq(Stores)
      /\ Len(Append(list, s)) = Len(list) + 1
      /\ Append(list, s)[Len(list) + 1] = s
      /\ \A i \in 1..Len(list) : Append(list, s)[i] = list[i]
  BY AppendProperties
<1>2. /\ Len(list) \in Nat
      /\ DOMAIN list = 1..Len(list)
      /\ DOMAIN Append(list, s) = 1..(Len(list) + 1)
  BY <1>1, LenProperties
<1>3. \A t : IsListed(Append(list, s), t) <=> IsListed(list, t) \/ t = s
  BY <1>1, <1>2 DEF IsListed
<1>4. NoRepeat(list) /\ ~IsListed(list, s) => NoRepeat(Append(list, s))
  BY <1>1, <1>2 DEF IsListed, NoRepeat
<1>5. QED BY <1>1, <1>3, <1>4

LEMMA TailList ==
    ASSUME NEW list \in Seq(Stores), list # <<>>
    PROVE  /\ Head(list) \in Stores /\ Tail(list) \in Seq(Stores)
           /\ \A t : IsListed(list, t) <=> t = Head(list) \/ IsListed(Tail(list), t)
           /\ NoRepeat(list) =>
                NoRepeat(Tail(list)) /\ ~IsListed(Tail(list), Head(list))
<1>1. /\ Head(list) \in Stores /\ Tail(list) \in Seq(Stores)
      /\ Len(Tail(list)) = Len(list) - 1
      /\ \A i \in 1..Len(Tail(list)) : Tail(list)[i] = list[i + 1]
  BY HeadTailProperties
<1>2. /\ Len(list) \in Nat \ {0} /\ Head(list) = list[1]
      /\ DOMAIN list = 1..Len(list)
      /\ DOMAIN Tail(list) = 1..(Len(list) - 1)
  BY <1>1, LenProperties, EmptySeq
<1>3. ASSUME NEW t
      PROVE  IsListed(list, t) <=> t = Head(list) \/ IsListed(Tail(list), t)
  <2>1. ASSUME IsListed(list, t), t # Head(list)
        PROVE  IsListed(Tail(list), t)
    <3>1. PICK i \in 1..Len(list) : list[i] = t
      BY <2>1, <1>2 DEF IsListed
    <3>2. i - 1 \in 1..(Len(list) - 1) /\ Tail(list)[i - 1] = t
      BY <3>1, <2>1, <1>1, <1>2
    <3>3. QED BY <3>2, <1>2 DEF IsListed
  <2>2. t = Head(list) => IsListed(list, t)
    BY <1>2 DEF IsListed
  <2>3. ASSUME IsListed(Tail(list), t)
        PROVE  IsListed(list, t)
    <3>1. PICK i \in 1..(Len(list) - 1) : Tail(list)[i] = t
      BY <2>3, <1>2 DEF IsListed
    <3>2. i + 1 \in 1..Len(list) /\ list[i + 1] = t
      BY <3>1, <1>1, <1>2
    <3>3. QED BY <3>2, <1>2 DEF IsListed
  <2>4. QED BY <2>1, <2>2, <2>3
<1>4. ASSUME NoRepeat(list)
      PROVE  NoRepeat(Tail(list)) /\ ~IsListed(Tail(list), Head(list))
  BY <1>1, <1>2, <1>4 DEF IsListed, NoRepeat
<1>5. QED BY <1>1, <1>3, <1>4

\* Appending one element or none is Append, or nothing.
LEMMA KeepOne ==
    ASSUME NEW list \in Seq(Stores), NEW s \in Stores
    PROVE  list \o <<s>> = Append(list, s) /\ list \o <<>> = list
BY AppendIsConcat, ConcatEmptySeq

\* What a poll record is made of.
LEMMA PollFields ==
    ASSUME poll \in Polls
    PROVE  /\ poll.todo \in SUBSET Requests /\ poll.current \in SUBSET Requests
           /\ poll.futures \in Seq(Stores) /\ poll.events \in Seq(Stores)
           /\ poll.pendingFutures \in Seq(Stores)
           /\ poll.pendingEvents \in Seq(Stores)
           /\ poll.finished \in SUBSET Requests /\ poll.active \in BOOLEAN
BY DEF Polls

LEMMA IdlePoll == Idle \in Polls
BY EmptySeq DEF Idle, Polls

-------------------------------------------------------------------------------
(* The invariant holds at the start and is kept by every action. *)

LEMMA InitIInv == Init => IInv
<1> SUFFICES ASSUME Init PROVE IInv
  OBVIOUS
<1>1. Types
  <2>1. <<>> \in Seq(Stores) BY EmptySeq
  <2>2. copying \in SUBSET (1..submitted) /\ submitted \in 0..MaxStores
    BY StoresAssumption DEF Init
  <2>3. storeFutures \in [Requests -> Seq(Stores)]
    BY <2>1 DEF Init
  <2>4. storeEvents \in [Requests -> Seq(Stores)]
    BY <2>1 DEF Init
  <2>5. results \in [Stores -> 0..1] BY DEF Init
  <2>6. poll \in Polls BY IdlePoll DEF Init
  <2>7. QED BY <2>2, <2>3, <2>4, <2>5, <2>6 DEF Init, Types
<1>2. InStep /\ OneVisit
  BY DEF Init, InStep, OneVisit, Idle
<1>3. ListedOnce /\ Walk /\ Unread
  BY EmptyList DEF Init, ListedOnce, Walk, Unread, Idle
<1>4. Held
  BY StoresAssumption DEF Init, Held
<1>5. QED BY <1>1, <1>2, <1>3, <1>4 DEF IInv

LEMMA SubmitStoreIInv ==
    ASSUME IInv, NEW r \in Requests, SubmitStore(r)
    PROVE  IInv'
<1> USE DEF IInv, Types, dictVars, retrieveVars
<1> DEFINE n == submitted + 1
<1>1. n \in Stores /\ submitted \in Nat /\ submitted' = n
  BY StoresAssumption DEF SubmitStore, Stores
<1>2. /\ storeFutures' = [storeFutures EXCEPT ![r] = Append(@, n)]
      /\ storeEvents' = storeFutures'
      /\ copying' = copying \cup {n}
      /\ UNCHANGED <<retrieveFutures, retrieveEvents, retrieved, restoring,
                     results, drained, poll, raised, healthy>>
  BY DEF SubmitStore, File, InStep
<1>3. poll = Idle
  BY DEF SubmitStore, Free, OneVisit
<1>4. \A q \in Requests, t \in Stores :
         IsListed(storeFutures'[q], t)
           <=> IsListed(storeFutures[q], t) \/ (q = r /\ t = n)
  BY <1>1, <1>2, AppendList
<1>5. \A q \in Requests : ~IsListed(storeFutures[q], n)
  BY <1>1 DEF ListedOnce
<1> HIDE DEF n
<1>6. storeFutures' \in [Requests -> Seq(Stores)]
  BY <1>1, <1>2, AppendList
<1>7. Types'
  <2>1. copying' \in SUBSET (1..submitted') BY <1>1, <1>2 DEF n
  <2>2. submitted' \in 0..MaxStores BY <1>1, StoresAssumption DEF Stores
  <2>3. QED BY <1>2, <1>6, <2>1, <2>2
<1>8. InStep' BY <1>2 DEF InStep
<1>9. OneVisit' BY <1>2, <1>3 DEF OneVisit, Idle
<1>10. ListedOnce'
  <2>1. \A q \in Requests : NoRepeat(storeFutures'[q])
    BY <1>1, <1>2, <1>5, AppendList DEF ListedOnce
  <2>2. \A q \in Requests, t \in Stores :
           IsListed(storeFutures'[q], t) => t <= submitted'
    BY <1>1, <1>4 DEF ListedOnce, n, Stores
  <2>3. \A p, q \in Requests, t \in Stores :
           IsListed(storeFutures'[p], t) /\ IsListed(storeFutures'[q], t)
             => p = q
    <3> SUFFICES ASSUME NEW p \in Requests, NEW q \in Requests,
                        NEW t \in Stores,
                        IsListed(storeFutures'[p], t),
                        IsListed(storeFutures'[q], t)
                 PROVE  p = q
      OBVIOUS
    <3>1. CASE t = n BY <1>1, <1>4, <1>5, <3>1
    <3>2. CASE t # n BY <1>4, <3>2 DEF ListedOnce
    <3>3. QED BY <3>1, <3>2
  <2>4. QED BY <2>1, <2>2, <2>3 DEF ListedOnce
<1>11. Walk' BY <1>2, <1>3 DEF Walk, Idle
<1>12. Unread'
  <2>1. results[n] = 0 BY <1>1 DEF Unread, n
  <2>2. SUFFICES ASSUME NEW s \in Stores
                 PROVE  /\ s > submitted' \/ s \in copying' => results[s] = 0
                        /\ \A q \in Requests :
                             IsListed(storeFutures'[q], s)
                               /\ q \notin poll.current => results[s] = 0
    BY <1>2 DEF Unread
  <2>3. s > submitted' => s > submitted
    BY <1>1 DEF n, Stores
  <2>4. QED BY <1>2, <1>4, <2>1, <2>3 DEF Unread
<1>13. Held'
  <2>1. ASSUME healthy, NEW s \in 1..submitted'
        PROVE  results[s] = 1 \/ \E q \in Requests : IsListed(storeFutures'[q], s)
    <3>1. s \in 1..submitted \/ s = n BY <1>1 DEF n
    <3>2. s \in Stores BY <1>1, StoresAssumption DEF Stores
    <3>3. QED BY <1>4, <2>1, <3>1, <3>2 DEF Held
  <2>2. QED BY <1>2, <2>1 DEF Held
<1>14. QED BY <1>7, <1>8, <1>9, <1>10, <1>11, <1>12, <1>13

LEMMA SubmitRetrieveIInv ==
    ASSUME IInv, NEW r \in Requests, SubmitRetrieve(r)
    PROVE  IInv'
<1> USE DEF IInv, SubmitRetrieve, dictVars
<1>1. Types' BY DEF Types
<1>2. InStep' BY DEF InStep
<1>3. OneVisit' BY DEF OneVisit
<1>4. ListedOnce' BY DEF ListedOnce
<1>5. Walk' BY DEF Walk
<1>6. Unread' BY DEF Unread
<1>7. Held' BY DEF Held
<1>8. QED BY <1>1, <1>2, <1>3, <1>4, <1>5, <1>6, <1>7

LEMMA PollStartIInv == ASSUME IInv, PollStart PROVE IInv'
<1> USE DEF IInv, PollStart, dictVars, retrieveVars, serverVars
<1>1. /\ poll'.active = TRUE /\ poll'.todo \in SUBSET Requests
      /\ poll'.current = {} /\ poll'.finished = {}
      /\ poll'.futures = <<>> /\ poll'.events = <<>>
      /\ poll'.pendingFutures = <<>> /\ poll'.pendingEvents = <<>>
      /\ poll' \in Polls
  BY EmptySeq DEF Idle, Polls
<1>2. poll.current = {}
  BY DEF Free, OneVisit, Idle
<1>3. Types' BY <1>1 DEF Types
<1>4. InStep' BY <1>1 DEF InStep
<1>5. OneVisit' BY <1>1 DEF OneVisit
<1>6. ListedOnce' BY DEF ListedOnce
<1>7. Walk' BY <1>1 DEF Walk
<1>8. Unread' BY <1>1, <1>2 DEF Unread
<1>9. Held' BY DEF Held
<1>10. QED BY <1>3, <1>4, <1>5, <1>6, <1>7, <1>8, <1>9

\* The poll visits a request: it has still to visit the whole list.
LEMMA PollRequestIInv ==
    ASSUME IInv, NEW r \in Requests, PollRequest(r)
    PROVE  IInv'
<1> USE DEF IInv, PollRequest, dictVars, retrieveVars, serverVars
<1>1. /\ poll'.active = poll.active /\ poll'.todo = poll.todo \ {r}
      /\ poll'.current = {r} /\ poll'.finished = poll.finished
      /\ poll'.futures = storeFutures[r] /\ poll'.events = storeEvents[r]
      /\ poll'.pendingFutures = <<>> /\ poll'.pendingEvents = <<>>
  BY DEF Types, Polls
<1>2. poll' \in Polls
  BY EmptySeq DEF Types, Polls
<1>3. raised' = FALSE
  BY DEF InStep
<1>4. Types' BY <1>2, <1>3 DEF Types
<1>5. InStep' BY <1>1, <1>3 DEF InStep
<1>6. OneVisit' BY <1>1 DEF OneVisit
<1>7. ListedOnce' BY DEF ListedOnce
<1>8. Walk'
  <2>1. NoRepeat(storeFutures[r]) BY DEF ListedOnce
  <2>2. \A s \in Stores : IsListed(storeFutures[r], s) => results[s] = 0
    BY DEF Unread
  <2>3. QED BY <1>1, <2>1, <2>2, EmptyList DEF Walk
<1>9. Unread' BY <1>1 DEF Unread
<1>10. Held' BY DEF Held
<1>11. QED BY <1>4, <1>5, <1>6, <1>7, <1>8, <1>9, <1>10

\* One future of the list moves to the pending list or has its result read.
LEMMA PollFutureIInv == ASSUME IInv, PollFuture PROVE IInv'
<1> DEFINE future == Head(poll.futures)
           kept == IF future \in copying THEN <<future>> ELSE <<>>
<1>1. /\ poll.active /\ poll.futures # <<>>
      /\ poll.futures \in Seq(Stores) /\ poll.pendingFutures \in Seq(Stores)
      /\ poll.events = poll.futures /\ poll.pendingEvents = poll.pendingFutures
      /\ poll \in Polls
  BY PollFields DEF IInv, Types, InStep, PollFuture
<1>2. /\ future \in Stores /\ Tail(poll.futures) \in Seq(Stores)
      /\ \A t : IsListed(poll.futures, t)
                  <=> t = future \/ IsListed(Tail(poll.futures), t)
      /\ NoRepeat(poll.futures) =>
           NoRepeat(Tail(poll.futures)) /\ ~IsListed(Tail(poll.futures), future)
  BY <1>1, TailList
<1>3. PICK r \in poll.current : TRUE
  BY <1>1 DEF IInv, OneVisit
<1>4. r \in Requests /\ poll.current = {r}
  BY <1>1, <1>3, PollFields DEF IInv, OneVisit
<1>5. /\ NoRepeat(poll.futures) /\ NoRepeat(poll.pendingFutures)
      /\ results[future] = 0
      /\ IsListed(storeFutures[r], future)
      /\ ~IsListed(poll.pendingFutures, future)
  BY <1>2, <1>3 DEF IInv, Walk
<1>6. /\ poll' = [poll EXCEPT !.futures = Tail(@), !.events = Tail(@),
                              !.pendingFutures = @ \o kept,
                              !.pendingEvents = @ \o kept]
      /\ results' = [results EXCEPT
            ![future] = IF future \in copying THEN @ ELSE @ + 1]
      /\ UNCHANGED <<storeFutures, storeEvents, retrieveFutures,
                     retrieveEvents, retrieved, copying, restoring, submitted,
                     drained, raised, healthy>>
  BY <1>1 DEF PollFuture, KeepEvent, ReadsResult, dictVars, retrieveVars,
              serverVars
<1> DEFINE pending == poll.pendingFutures \o kept
<1>7. pending = IF future \in copying THEN Append(poll.pendingFutures, future)
                                      ELSE poll.pendingFutures
  BY <1>1, <1>2, KeepOne
<1> HIDE DEF future, pending
<1>8. /\ pending \in Seq(Stores)
      /\ \A t : IsListed(pending, t)
                  <=> \/ IsListed(poll.pendingFutures, t)
                      \/ t = future /\ future \in copying
      /\ NoRepeat(pending)
  <2>1. CASE future \in copying
    BY <1>1, <1>2, <1>5, <1>7, <2>1, AppendList
  <2>2. CASE future \notin copying BY <1>1, <1>5, <1>7, <2>2
  <2>3. QED BY <2>1, <2>2
<1>9. \A s \in Stores :
         results'[s] = IF s = future /\ future \notin copying THEN 1
                                                              ELSE results[s]
  BY <1>2, <1>5, <1>6 DEF IInv, Types
<1>10. results' \in [Stores -> 0..1]
  BY <1>2, <1>5, <1>6 DEF IInv, Types
<1> HIDE DEF kept
<1>11. /\ poll'.futures = Tail(poll.futures) /\ poll'.events = Tail(poll.futures)
       /\ poll'.pendingFutures = pending /\ poll'.pendingEvents = pending
       /\ poll'.todo = poll.todo /\ poll'.current = poll.current
       /\ poll'.finished = poll.finished /\ poll'.active = poll.active
       /\ poll' \in Polls
  BY <1>1, <1>2, <1>6, <1>8 DEF Polls, pending
<1>12. Types' BY <1>6, <1>10, <1>11 DEF IInv, Types
<1>13. InStep' BY <1>6, <1>11 DEF IInv, InStep
<1>14. OneVisit' BY <1>1, <1>3, <1>6, <1>11 DEF IInv, OneVisit
<1>15. ListedOnce' BY <1>6 DEF IInv, ListedOnce
<1>16. Walk'
  <2>1. SUFFICES
          /\ NoRepeat(Tail(poll.futures)) /\ NoRepeat(pending)
          /\ \A s \in Stores :
              /\ ~(IsListed(Tail(poll.futures), s) /\ IsListed(pending, s))
              /\ IsListed(Tail(poll.futures), s) \/ IsListed(pending, s)
                   => IsListed(storeFutures[r], s) /\ results'[s] = 0
              /\ IsListed(storeFutures[r], s)
                   => \/ IsListed(Tail(poll.futures), s)
                      \/ IsListed(pending, s)
                      \/ results'[s] = 1
    BY <1>4, <1>6, <1>11 DEF Walk
  <2>2. ASSUME NEW s \in Stores
        PROVE  /\ ~(IsListed(poll.futures, s) /\ IsListed(poll.pendingFutures, s))
               /\ IsListed(poll.futures, s) \/ IsListed(poll.pendingFutures, s)
                    => IsListed(storeFutures[r], s) /\ results[s] = 0
               /\ IsListed(storeFutures[r], s)
                    => \/ IsListed(poll.futures, s)
                       \/ IsListed(poll.pendingFutures, s)
                       \/ results[s] = 1
    BY <1>3 DEF IInv, Walk
  <2>3. QED BY <1>2, <1>5, <1>8, <1>9, <2>2
<1>17. Unread'
  <2>1. \A s \in Stores : (s > submitted \/ s \in copying) => s # future \/ future \in copying
    BY <1>4, <1>5 DEF IInv, ListedOnce, Types, Stores
  <2>2. SUFFICES ASSUME NEW s \in Stores
                 PROVE  /\ s > submitted \/ s \in copying => results'[s] = 0
                        /\ \A q \in Requests :
                             IsListed(storeFutures[q], s) /\ q \notin poll.current
                               => results'[s] = 0
    BY <1>6, <1>11 DEF Unread
  <2>3. s > submitted \/ s \in copying => results'[s] = 0
    BY <1>9, <2>1 DEF IInv, Unread
  <2>4. ASSUME NEW q \in Requests, IsListed(storeFutures[q], s),
               q \notin poll.current
        PROVE  results'[s] = 0
    <3>1. s # future BY <1>4, <1>5, <2>4 DEF IInv, ListedOnce
    <3>2. QED BY <1>9, <2>4, <3>1 DEF IInv, Unread
  <2>5. QED BY <2>3, <2>4
<1>18. Held'
  <2>1. ASSUME healthy, NEW s \in 1..submitted
        PROVE  results'[s] = 1 \/ \E q \in Requests : IsListed(storeFutures[q], s)
    <3>1. s \in Stores BY StoresAssumption DEF IInv, Types, Stores
    <3>2. QED BY <1>9, <2>1, <3>1 DEF IInv, Held
  <2>2. QED BY <1>6, <2>1 DEF IInv, Held
<1>19. QED BY <1>12, <1>13, <1>14, <1>15, <1>16, <1>17, <1>18 DEF IInv

\* What is written back is the unread part of the list.
LEMMA WriteBackIInv ==
    ASSUME IInv, NEW r \in Requests, PollWriteBack(r)
    PROVE  IInv'
<1>1. /\ poll.active /\ poll.current = {r} /\ poll.futures = <<>>
      /\ poll.pendingFutures \in Seq(Stores)
      /\ poll.pendingEvents = poll.pendingFutures
      /\ poll \in Polls
  BY PollFields DEF IInv, Types, InStep, PollWriteBack
<1>2. /\ storeFutures' = [storeFutures EXCEPT ![r] = poll.pendingFutures]
      /\ storeEvents' = storeFutures'
      /\ UNCHANGED <<retrieveFutures, retrieveEvents, retrieved, copying,
                     restoring, submitted, results, drained, raised, healthy>>
  BY <1>1 DEF IInv, InStep, PollWriteBack, retrieveVars, serverVars
<1>3. /\ poll'.todo = poll.todo /\ poll'.current = {}
      /\ poll'.futures = <<>> /\ poll'.events = poll.events
      /\ poll'.pendingFutures = poll.pendingFutures
      /\ poll'.pendingEvents = poll.pendingEvents
      /\ poll'.active = poll.active
      /\ poll'.finished = IF poll.pendingFutures = <<>>
                          THEN poll.finished \cup {r} ELSE poll.finished
      /\ poll' \in Polls
  BY <1>1 DEF PollWriteBack, Polls
<1>4. storeFutures' \in [Requests -> Seq(Stores)]
  BY <1>1, <1>2 DEF IInv, Types
<1>5. /\ storeFutures'[r] = poll.pendingFutures
      /\ \A q \in Requests \ {r} : storeFutures'[q] = storeFutures[q]
  BY <1>2 DEF IInv, Types
<1>6. /\ NoRepeat(poll.pendingFutures)
      /\ \A s \in Stores :
          /\ IsListed(poll.pendingFutures, s)
               => IsListed(storeFutures[r], s) /\ results[s] = 0
          /\ IsListed(storeFutures[r], s)
               => IsListed(poll.pendingFutures, s) \/ results[s] = 1
  BY <1>1, EmptyList DEF IInv, Walk
<1>7. Types' BY <1>2, <1>3, <1>4 DEF IInv, Types
<1>8. InStep' BY <1>1, <1>2, <1>3 DEF IInv, InStep
<1>9. OneVisit'
  <2>1. r \notin poll.todo BY <1>1 DEF IInv, OneVisit
  <2>2. QED BY <1>1, <1>2, <1>3, <1>5, <2>1, PollFields DEF IInv, OneVisit
<1>10. ListedOnce'
  <2>1. \A q \in Requests : NoRepeat(storeFutures'[q])
    BY <1>5, <1>6 DEF IInv, ListedOnce
  <2>2. \A q \in Requests, s \in Stores :
           IsListed(storeFutures'[q], s) => IsListed(storeFutures[q], s)
    BY <1>5, <1>6
  <2>3. QED BY <1>2, <2>1, <2>2 DEF IInv, ListedOnce
<1>11. Walk' BY <1>3 DEF Walk
<1>12. Unread'
  <2>1. \A q \in Requests, s \in Stores :
           IsListed(storeFutures'[q], s) => results[s] = 0
    BY <1>1, <1>5, <1>6 DEF IInv, Unread
  <2>2. QED BY <1>2, <2>1 DEF IInv, Unread
<1>13. Held'
  <2>1. ASSUME healthy, NEW s \in 1..submitted
        PROVE  results[s] = 1 \/ \E q \in Requests : IsListed(storeFutures'[q], s)
    <3>1. s \in Stores BY StoresAssumption DEF IInv, Types, Stores
    <3>2. CASE results[s] = 1 BY <3>2
    <3>3. CASE results[s] # 1
      <4>1. PICK q \in Requests : IsListed(storeFutures[q], s)
        BY <2>1, <3>3 DEF IInv, Held
      <4>2. IsListed(storeFutures'[q], s)
        BY <1>5, <1>6, <3>1, <3>3, <4>1
      <4>3. QED BY <4>2
    <3>4. QED BY <3>2, <3>3
  <2>2. QED BY <1>2, <2>1 DEF IInv, Held
<1>14. QED BY <1>7, <1>8, <1>9, <1>10, <1>11, <1>12, <1>13 DEF IInv

LEMMA PollEndIInv == ASSUME IInv, PollEnd PROVE IInv'
<1> USE DEF IInv, PollEnd, dictVars, serverVars
<1>1. Types'
  <2>1. poll' \in Polls BY IdlePoll
  <2>2. drained' \in SUBSET Requests BY PollFields DEF Types
  <2>3. QED BY <2>1, <2>2 DEF Types
<1>2. InStep' BY DEF InStep, Idle
<1>3. OneVisit' BY DEF OneVisit, Idle
<1>4. ListedOnce' BY DEF ListedOnce
<1>5. Walk' BY DEF Walk, Idle
<1>6. Unread' BY DEF Unread, Idle
<1>7. Held' BY DEF Held
<1>8. QED BY <1>1, <1>2, <1>3, <1>4, <1>5, <1>6, <1>7

\* All four dictionaries are cleared together.
LEMMA GiveUpIInv == ASSUME IInv, GiveUp PROVE IInv'
<1> USE DEF IInv, GiveUp, ClearedEvents, serverVars
<1>1. storeFutures' \in [Requests -> Seq(Stores)]
  <2>1. <<>> \in Seq(Stores) BY EmptySeq
  <2>2. QED BY <2>1
<1>2. \A r \in Requests, s \in Stores : ~IsListed(storeFutures'[r], s)
  BY EmptyList
<1>3. Types' BY <1>1 DEF Types
<1>4. InStep' BY DEF InStep
<1>5. OneVisit' BY DEF OneVisit, Free, Idle
<1>6. ListedOnce' BY <1>2, EmptyList DEF ListedOnce
<1>7. Walk' BY DEF Walk, OneVisit, Free, Idle
<1>8. Unread' BY <1>2 DEF Unread
<1>9. Held' BY DEF Held
<1>10. QED BY <1>3, <1>4, <1>5, <1>6, <1>7, <1>8, <1>9

\* The heartbeat thread and the server touch nothing of the adapter's.
LEMMA OutsideIInv ==
    ASSUME IInv,
           \/ HeartbeatLost
           \/ \E s \in Stores : StoreCompletes(s)
           \/ \E r \in Requests : RetrieveCompletes(r)
           \/ UNCHANGED vars
    PROVE  IInv'
<1> USE DEF IInv, HeartbeatLost, StoreCompletes, RetrieveCompletes, vars,
            dictVars, retrieveVars, serverVars
<1>1. /\ UNCHANGED <<storeFutures, storeEvents, retrieveFutures,
                     retrieveEvents, retrieved, submitted, results, drained,
                     poll, raised>>
      /\ copying' \subseteq copying
      /\ restoring' \subseteq restoring
      /\ healthy' = FALSE \/ healthy' = healthy
  OBVIOUS
<1> HIDE DEF HeartbeatLost, StoreCompletes, RetrieveCompletes, vars
<1>2. Types'
  BY <1>1 DEF Types
<1>3. InStep' BY <1>1 DEF InStep
<1>4. OneVisit' BY <1>1 DEF OneVisit
<1>5. ListedOnce' BY <1>1 DEF ListedOnce
<1>6. Walk' BY <1>1 DEF Walk
<1>7. Unread' BY <1>1 DEF Unread
<1>8. Held' BY <1>1 DEF Held
<1>9. QED BY <1>2, <1>3, <1>4, <1>5, <1>6, <1>7, <1>8

LEMMA StepIInv == ASSUME IInv, [Next]_vars PROVE IInv'
BY SubmitStoreIInv, SubmitRetrieveIInv, PollStartIInv, PollRequestIInv,
   PollFutureIInv, WriteBackIInv, PollEndIInv, GiveUpIInv, OutsideIInv
   DEF Next, PollStep

\* The invariant holds in every reachable state.
LEMMA Inductive == Spec => []IInv
<1>1. Init => IInv BY InitIInv
<1>2. IInv /\ [Next]_vars => IInv' BY StepIInv
<1>3. QED BY <1>1, <1>2, PTL DEF Spec

-------------------------------------------------------------------------------
\* Every variable of the adapter keeps its type, whatever the server does
\* during a poll.
THEOREM FuturesTypes == Spec => []TypeOK
<1>1. IInv => TypeOK
  <2> SUFFICES ASSUME IInv PROVE TypeOK
    OBVIOUS
  <2>1. Cardinality(poll.current) <= 1
    <3>1. CASE poll.current = {} BY <3>1, FS_EmptySet
    <3>2. CASE poll.current # {}
      <4>1. PICK r \in poll.current : TRUE BY <3>2
      <4>2. poll.current = {r} BY <4>1 DEF IInv, OneVisit
      <4>3. QED BY <4>2, FS_Singleton
    <3>3. QED BY <3>1, <3>2
  <2>2. results \in [Stores -> Nat] BY DEF IInv, Types
  <2>3. QED BY <2>1, <2>2, PollFields DEF IInv, Types, TypeOK
<1>2. QED BY <1>1, Inductive, PTL

LEMMA EventIsHeld == ASSUME IInv PROVE EventHeldWhileHealthy
<1> SUFFICES ASSUME healthy PROVE EventOutlivesTransfer
  BY DEF EventHeldWhileHealthy
<1>1. ASSUME NEW s \in copying
      PROVE  \E r \in Requests : IsListed(storeEvents[r], s)
  <2>1. s \in 1..submitted /\ s \in Stores
    BY <1>1, StoresAssumption DEF IInv, Types, Stores
  <2>2. results[s] = 0 BY <1>1, <2>1 DEF IInv, Unread
  <2>3. QED BY <2>1, <2>2 DEF IInv, InStep, Held
<1>2. restoring \subseteq retrieveEvents BY DEF IInv, InStep, Held
<1>3. QED BY <1>1, <1>2 DEF EventOutlivesTransfer

\* While the heartbeat answers, the event of every copy that still runs is
\* held, through later chunks, partly drained lists and polls in progress.
THEOREM EventHeld == Spec => []EventHeldWhileHealthy
<1>1. IInv => EventHeldWhileHealthy BY EventIsHeld
<1>2. QED BY <1>1, Inductive, PTL

\* The length check of _poll_store_futures compares a list with itself: the
\* error it guards against cannot be raised.
THEOREM LengthsAgree == Spec => []NeverRaises
<1>1. IInv => NeverRaises BY DEF IInv, InStep, NeverRaises
<1>2. QED BY <1>1, Inductive, PTL

\* Each result is read at most once, and a future leaves the dictionaries
\* unread only when the server is given up.
THEOREM ReadOnce == Spec => []ResultOnce
<1>1. IInv => ResultOnce
  <2> SUFFICES ASSUME IInv, NEW s \in 1..submitted
               PROVE  /\ results[s] <= 1
                      /\ healthy /\ (\A r \in Requests :
                                        ~IsListed(storeFutures[r], s))
                           => results[s] = 1
    BY DEF ResultOnce
  <2>1. s \in Stores BY StoresAssumption DEF IInv, Types, Stores
  <2>2. QED BY <2>1 DEF IInv, Types, Held
<1>2. QED BY <1>1, Inductive, PTL

\* A poll that returns names only requests whose futures have all answered:
\* none of theirs is still listed, and while the heartbeat answers each store
\* that is still copied is listed, with its event, under another request.
DrainedIsAnswered ==
    [][PollEnd =>
          /\ \A r \in drained' : storeFutures'[r] = <<>>
          /\ healthy => \A s \in copying :
                \E r \in Requests \ drained' : IsListed(storeEvents'[r], s)]_vars

\* What the connector is told of a request's stores is true.
THEOREM DrainedAnswered == Spec => DrainedIsAnswered
<1>1. ASSUME IInv, PollEnd
      PROVE  /\ \A r \in drained' : storeFutures'[r] = <<>>
             /\ healthy => \A s \in copying :
                   \E r \in Requests \ drained' : IsListed(storeEvents'[r], s)
  <2>1. \A r \in drained' : storeFutures'[r] = <<>>
    BY <1>1 DEF IInv, OneVisit, PollEnd, dictVars
  <2>2. ASSUME healthy, NEW s \in copying
        PROVE  \E r \in Requests \ drained' : IsListed(storeEvents'[r], s)
    <3>1. PICK r \in Requests : IsListed(storeEvents[r], s)
      BY <1>1, <2>2, EventIsHeld
         DEF EventHeldWhileHealthy, EventOutlivesTransfer
    <3>2. storeEvents' = storeEvents /\ storeFutures' = storeEvents
      BY <1>1 DEF IInv, InStep, PollEnd, dictVars
    <3>3. r \notin drained'
      BY <2>1, <3>1, <3>2, EmptyList
    <3>4. QED BY <3>1, <3>2, <3>3
  <2>3. QED BY <2>1, <2>2
<1>2. QED BY <1>1, Inductive, PTL DEF Spec, DrainedIsAnswered
================================================================================
