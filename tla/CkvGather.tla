----------------------------- MODULE CkvGather -----------------------------
(***************************************************************************)
(* Sparse attention over a cache split between the ranks of a decode-      *)
(* context-parallel group.  Every rank runs the same batches, layer by     *)
(* layer, each on its own stream and at its own pace.  For a pure prefill  *)
(* batch the ranks gather the compressed-KV records of the batch's         *)
(* requests into an arena (one per worker, shared by all layers) and       *)
(* attend with their local heads; any other batch takes the stock path,    *)
(* which gathers the query, attends over the local part of the cache and   *)
(* merges the partial results.                                             *)
(*                                                                         *)
(* A collective is matched by its place in each rank's sequence of         *)
(* collectives.  It moves one rank's buffer to one other rank at a time    *)
(* and a rank's stream goes on when everything it sends and receives has   *)
(* been moved.                                                             *)
(***************************************************************************)
EXTENDS CkvLayout, FiniteSetsExt, Sequences

CONSTANTS Requests,     \* rows of the batch: 0 .. some number
          Layers,       \* number of attention layers
          MinTokens,    \* VLLM_B12X_MLA_CKV_GATHER_MIN_TOKENS
          MaxQuery,     \* bound: new tokens of a request in a batch
          MaxLen,       \* bound: tokens of a request
          MaxBatches    \* bound: batches the scheduler issues

ASSUME BatchAssumption ==
  /\ Requests \subseteq Nat /\ IsFiniteSet(Requests)
  /\ Layers \in Nat \ {0} /\ MinTokens \in Nat
  /\ MaxQuery \in Nat /\ MaxLen \in Nat /\ MaxBatches \in Nat

VARIABLES plan,       \* the batches scheduled so far
          batch,      \* per rank: how many batches it has taken up
          layer,      \* per rank: the layer it runs, counted from 1
          pc,         \* per rank: the next kernel of its stream
          cache,      \* per rank: (layer, request, local index) -> token
          local,      \* per rank: its part of the arena, before the gather
          gathered,   \* per rank: the arena's gathered part
          selected,   \* per rank: ckv_page_table_1, the slots to attend to
          op,         \* per rank: collectives it has issued
          call,       \* per rank: kind and size of the last of them
          got         \* per rank: ranks whose buffer it has received

vars == <<plan, batch, layer, pc, cache, local, gathered, selected, op, call,
          got>>

Tokens == 0 .. MaxLen - 1
LayerIds == 1 .. Layers
Blank == <<>>                     \* a zeroed or never written record
Records == LayerIds \X Requests \X Tokens
Steps == {"idle", "write", "remap", "gather", "issue", "collective", "attend",
          "partial"}
Kinds == {"none", "ckv", "query", "merge"}

-----------------------------------------------------------------------------
(***************************************************************************)
(* A batch and its metadata.                                               *)
(***************************************************************************)
Batches == [query : [Requests -> 0 .. MaxQuery], len : [Requests -> 0 .. MaxLen]]

Rows(b) == {q \in Requests : b.query[q] > 0}
NumTokens(b) == MapThenSumSet(LAMBDA q : b.query[q], Rows(b))

\* Decode rows have one new token; they make the batch mixed.
PurePrefill(b) == \A q \in Rows(b) : b.query[q] > 1

RankLen(b, rank, q) == LocalLen(b.len[q], rank)

RankStart(b, rank, q) ==
  MapThenSumSet(LAMBDA p : RankLen(b, rank, p), {p \in Rows(b) : p < q})

RankTotal(b, rank) ==
  MapThenSumSet(LAMBDA q : RankLen(b, rank, q), Rows(b))

\* A variant that pads to the rank's own total.
SizesOwn(b, rank) ==
  [mine   |-> RankTotal(b, rank),
   padded |-> PadToBlock(RankTotal(b, rank))]

\* What a rank works out about the sizes of the gather.
Sizes(b, rank) ==
  [mine   |-> RankTotal(b, rank),
   padded |-> PadToBlock(Max({RankTotal(b, r) : r \in Ranks}))]

\* A variant that holds the rank's own tokens against the capacity.
EligibleOwn(b, rank) ==
  /\ PurePrefill(b)
  /\ \E q \in Rows(b) : b.query[q] > MinTokens
  /\ NumTokens(b) > MinTokens
  /\ Sizes(b, rank).mine > 0
  /\ Sizes(b, rank).mine <= LocalCapacity

\* A variant that forgets the arena's capacity.
EligibleUnbounded(b, rank) ==
  /\ PurePrefill(b)
  /\ \E q \in Rows(b) : b.query[q] > MinTokens
  /\ NumTokens(b) > MinTokens

\* Every condition that a rank puts to a batch before it chooses the gather.
Eligible(b, rank) ==
  /\ PurePrefill(b)
  /\ \E q \in Rows(b) : b.query[q] > MinTokens
  /\ NumTokens(b) > MinTokens
  /\ Sizes(b, rank).padded > 0
  /\ Sizes(b, rank).padded <= LocalCapacity
  /\ Sizes(b, rank).mine <= Sizes(b, rank).padded

Current(rank) == plan[batch[rank]]

-----------------------------------------------------------------------------
TypeOK ==
  /\ plan \in Seq(Batches) /\ Len(plan) <= MaxBatches
  /\ batch \in [Ranks -> 0 .. Len(plan)]
  /\ layer \in [Ranks -> LayerIds]
  /\ pc \in [Ranks -> Steps]
  /\ cache \in [Ranks -> [LayerIds \X Requests \X Tokens -> Records \cup {Blank}]]
  /\ local \in [Ranks -> [0 .. LocalCapacity - 1 -> Records \cup {Blank}]]
  /\ gathered \in
       [Ranks -> [0 .. DcpSize * LocalCapacity - 1 -> Records \cup {Blank}]]
  /\ selected \in [Ranks -> SUBSET (0 .. DcpSize * LocalCapacity - 1)]
  /\ op \in [Ranks -> Nat]
  /\ call \in [Ranks -> [kind : Kinds, size : 0 .. LocalCapacity]]
  /\ got \in [Ranks -> SUBSET Ranks]

Init ==
  /\ plan = <<>>
  /\ batch = [r \in Ranks |-> 0]
  /\ layer = [r \in Ranks |-> 1]
  /\ pc = [r \in Ranks |-> "idle"]
  /\ cache = [r \in Ranks |-> [k \in LayerIds \X Requests \X Tokens |-> Blank]]
  /\ local = [r \in Ranks |-> [i \in 0 .. LocalCapacity - 1 |-> Blank]]
  /\ gathered =
       [r \in Ranks |-> [i \in 0 .. DcpSize * LocalCapacity - 1 |-> Blank]]
  /\ selected = [r \in Ranks |-> {}]
  /\ op = [r \in Ranks |-> 0]
  /\ call = [r \in Ranks |-> [kind |-> "none", size |-> 0]]
  /\ got = [r \in Ranks |-> {}]

-----------------------------------------------------------------------------
(***************************************************************************)
(* The scheduler issues a batch; all ranks will run it.  A request goes on *)
(* from the length it reached.                                             *)
(***************************************************************************)
Reached(q) == IF plan = <<>> THEN 0 ELSE plan[Len(plan)].len[q]

Schedule ==
  /\ Len(plan) < MaxBatches
  /\ \E query \in [Requests -> 0 .. MaxQuery] :
       LET len == [q \in Requests |-> Reached(q) + query[q]]
       IN  /\ \E q \in Requests : query[q] > 0
           /\ \A q \in Requests : len[q] <= MaxLen
           /\ Cardinality({q \in Requests : query[q] > 0}) <= MaxSeqs
           /\ plan' = Append(plan, [query |-> query, len |-> len])
  /\ UNCHANGED <<batch, layer, pc, cache, local, gathered, selected, op, call, got>>

TakeBatch(r) ==
  /\ pc[r] = "idle"
  /\ batch[r] < Len(plan)
  /\ batch' = [batch EXCEPT ![r] = @ + 1]
  /\ layer' = [layer EXCEPT ![r] = 1]
  /\ pc' = [pc EXCEPT ![r] = "write"]
  /\ UNCHANGED <<plan, cache, local, gathered, selected, op, call, got>>

\* The layer's records of the new tokens go to the ranks that own them.  The
\* rank then chooses its path; on the stock path the query is gathered first.
WriteCache(r) ==
  /\ pc[r] = "write"
  /\ LET b == Current(r)
         new == {k \in Requests \X Tokens :
                   /\ k[2] < b.len[k[1]]
                   /\ k[2] >= b.len[k[1]] - b.query[k[1]]
                   /\ Owner(k[2]) = r}
         At(k) == <<layer[r], k[1], LocalIndex(k[2])>>
     IN  cache' = [cache EXCEPT ![r] =
           [key \in DOMAIN @ |->
              IF \E k \in new : key = At(k)
              THEN LET k == CHOOSE k \in new : key = At(k)
                   IN  <<layer[r], k[1], k[2]>>
              ELSE @[key]]]
  /\ IF Eligible(Current(r), r)
     THEN /\ pc' = [pc EXCEPT ![r] = "remap"]
          /\ UNCHANGED <<op, call, got>>
     ELSE /\ pc' = [pc EXCEPT ![r] = "collective"]
          /\ op' = [op EXCEPT ![r] = @ + 1]
          /\ call' = [call EXCEPT ![r] = [kind |-> "query", size |-> 0]]
          /\ got' = [got EXCEPT ![r] = {}]
  /\ UNCHANGED <<plan, batch, layer, local, gathered, selected>>

-----------------------------------------------------------------------------
(***************************************************************************)
(* The gather path.  The indexer's selection is any set of the batch's     *)
(* tokens; the largest one, all of them, shows every slot.                 *)
(***************************************************************************)
Wanted(b) == {k \in Requests \X Tokens : k[1] \in Rows(b) /\ k[2] < b.len[k[1]]}

Slot(b, r, q, tok) ==
  GatheredSlot(tok, RankStart(b, Owner(tok), q), Sizes(b, r).padded)

Remap(r) ==
  /\ pc[r] = "remap"
  /\ LET b == Current(r)
     IN  selected' = [selected EXCEPT ![r] =
           {Slot(b, r, k[1], k[2]) : k \in
              {w \in Wanted(b) :
                 LocalIndex(w[2]) < RankLen(b, Owner(w[2]), w[1])}}]
  /\ pc' = [pc EXCEPT ![r] = "gather"]
  /\ UNCHANGED <<plan, batch, layer, cache, local, gathered, op, call, got>>

\* The rank's own records, request after request, then zeros up to the padded
\* size; what lies beyond stays as an earlier gather left it.
GatherLocal(r) ==
  /\ pc[r] = "gather"
  /\ LET b == Current(r)
         Holder(i) == {q \in Rows(b) :
                         /\ RankStart(b, r, q) <= i
                         /\ i < RankStart(b, r, q) + RankLen(b, r, q)}
     IN  local' = [local EXCEPT ![r] =
           [i \in DOMAIN @ |->
              IF i < Sizes(b, r).mine
              THEN LET q == CHOOSE q \in Holder(i) : TRUE
                   IN  cache[r][<<layer[r], q, i - RankStart(b, r, q)>>]
              ELSE IF i < Sizes(b, r).padded THEN Blank ELSE @[i]]]
  /\ pc' = [pc EXCEPT ![r] = "issue"]
  /\ UNCHANGED <<plan, batch, layer, cache, gathered, selected, op, call, got>>

AllGather(r) ==
  /\ pc[r] = "issue"
  /\ pc' = [pc EXCEPT ![r] = "collective"]
  /\ op' = [op EXCEPT ![r] = @ + 1]
  /\ call' = [call EXCEPT ![r] =
                [kind |-> "ckv", size |-> Sizes(Current(r), r).padded]]
  /\ got' = [got EXCEPT ![r] = {}]
  /\ UNCHANGED <<plan, batch, layer, cache, local, gathered, selected>>

-----------------------------------------------------------------------------
(***************************************************************************)
(* Collectives.  src's buffer reaches dst once both have issued the call,  *)
(* which src's stream has not left yet.                                    *)
(***************************************************************************)
InCall(r) == pc[r] = "collective"

Transfer(src, dst) ==
  /\ InCall(dst) /\ op[src] = op[dst] /\ src \notin got[dst]
  /\ call[src] = call[dst]
  /\ got' = [got EXCEPT ![dst] = @ \cup {src}]
  /\ gathered' =
       IF call[dst].kind # "ckv" THEN gathered
       ELSE [gathered EXCEPT ![dst] =
               [i \in DOMAIN @ |->
                  IF i \div call[src].size = src
                  THEN local[src][i % call[src].size]
                  ELSE @[i]]]
  /\ UNCHANGED <<plan, batch, layer, pc, cache, local, selected, op, call>>

\* A variant that lets the stream go on when it has received everything.
CallDoneReceived(r) == got[r] = Ranks

\* All the rank is to receive is here, and all it is to send has left: the
\* other rank has it, or has gone on to a later call.
CallDone(r) ==
  /\ got[r] = Ranks
  /\ \A d \in Ranks : op[d] > op[r] \/ (op[d] = op[r] /\ r \in got[d])

NextLayer(r) ==
  IF layer[r] < Layers
  THEN /\ layer' = [layer EXCEPT ![r] = @ + 1]
       /\ pc' = [pc EXCEPT ![r] = "write"]
  ELSE /\ pc' = [pc EXCEPT ![r] = "idle"]
       /\ UNCHANGED layer

\* The stream goes on to the attention kernel, or after the merge to the next
\* layer.
LeaveCall(r) ==
  /\ InCall(r) /\ CallDone(r)
  /\ \/ /\ call[r].kind = "ckv"
        /\ pc' = [pc EXCEPT ![r] = "attend"]
        /\ UNCHANGED layer
     \/ /\ call[r].kind = "query"
        /\ pc' = [pc EXCEPT ![r] = "partial"]
        /\ UNCHANGED layer
     \/ /\ call[r].kind = "merge"
        /\ NextLayer(r)
  /\ UNCHANGED <<plan, batch, cache, local, gathered, selected, op, call, got>>

\* Local heads attend to the selected slots of the gathered records.
Attend(r) ==
  /\ pc[r] = "attend"
  /\ NextLayer(r)
  /\ UNCHANGED <<plan, batch, cache, local, gathered, selected, op, call, got>>

\* All heads attend to the local part of the cache; the partial results of the
\* ranks are then merged.
AttendPartial(r) ==
  /\ pc[r] = "partial"
  /\ pc' = [pc EXCEPT ![r] = "collective"]
  /\ op' = [op EXCEPT ![r] = @ + 1]
  /\ call' = [call EXCEPT ![r] = [kind |-> "merge", size |-> 0]]
  /\ got' = [got EXCEPT ![r] = {}]
  /\ UNCHANGED <<plan, batch, layer, cache, local, gathered, selected>>

RankStep(r) ==
  \/ TakeBatch(r) \/ WriteCache(r)
  \/ Remap(r) \/ GatherLocal(r) \/ AllGather(r)
  \/ LeaveCall(r) \/ Attend(r) \/ AttendPartial(r)

Next ==
  \/ Schedule
  \/ \E r \in Ranks : RankStep(r)
  \/ \E src, dst \in Ranks : Transfer(src, dst)

Spec == Init /\ [][Next]_vars

\* Kernels of a stream and the transfers of a matched collective complete.
Fairness ==
  /\ \A r \in Ranks : WF_vars(RankStep(r))
  /\ \A src, dst \in Ranks : WF_vars(Transfer(src, dst))

FairSpec == Spec /\ Fairness

-----------------------------------------------------------------------------
(***************************************************************************)
(* Properties.                                                             *)
(***************************************************************************)

\* For as long as the attention kernel of a layer may run, the slots it reads
\* hold the records of that layer for exactly the tokens of its batch, those
\* written by other ranks included: no record of another layer or an earlier
\* batch, no padding, none missing and none overwritten by a later gather.
AttendsOwnRecords ==
  \A r \in Ranks : pc[r] = "attend" =>
    {gathered[r][i] : i \in selected[r]}
      = {<<layer[r], k[1], k[2]>> : k \in Wanted(Current(r))}

\* Ranks that wait in the same collective issued the same one, with the same
\* size: each chose the path of the batch and the padding by itself.
CallsMatch ==
  \A r, s \in Ranks : InCall(r) /\ InCall(s) /\ op[r] = op[s] => call[r] = call[s]

\* No rank waits for ever in a collective: every scheduled batch is run to its
\* last layer by every rank.
BatchesFinish ==
  \A n \in 1 .. MaxBatches :
    Len(plan) >= n ~> \A r \in Ranks : batch[r] > n \/ (batch[r] = n /\ pc[r] = "idle")
=============================================================================
