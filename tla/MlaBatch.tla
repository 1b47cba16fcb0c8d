------------------------------ MODULE MlaBatch ------------------------------
(***************************************************************************)
(* The batch an MLA attention layer is given and the group of ranks that   *)
(* runs it.  Requests with one new token are decodes and come first; the   *)
(* others are prefills, those that already have tokens in the cache before *)
(* those that start afresh.                                                *)
(***************************************************************************)
EXTENDS Naturals, Sequences, FiniteSetsExt

CONSTANTS GroupSizes,     \* the sizes of the context-parallel group to cover
          Run,            \* cp_kv_cache_interleave_size
          PageSize,       \* block_size of the cache
          MaxNumSeqs,     \* requests of a batch
          MaxModelLen,    \* tokens of a request
          WorkspaceCap    \* 64 * 1024 in the code

VARIABLES dcp,            \* dcp_world_size
          sparse,         \* the layer's implementation is a sparse one
          decodes,        \* sequence lengths of the decodes
          prefills        \* cached and new tokens of the prefills

batchVars == <<dcp, sparse, decodes, prefills>>

\* The deal of a request's tokens to the ranks of a group of n.
Layout(n) == INSTANCE CkvLayout
  WITH DcpSize <- n, Interleave <- Run, BlockSize <- PageSize, MaxTokens <- 0, MaxSeqs <- MaxNumSeqs

Cdiv(x, y) == (x + y - 1) \div y

Group == 0 .. dcp - 1
Prefills == 1 .. Len(prefills)

\* The configured workspace, in tokens.
WorkspaceSize ==
  LET wanted == Max({8 * MaxModelLen, 4 * MaxNumSeqs * PageSize})
  IN  Max({Min({wanted, WorkspaceCap}), MaxNumSeqs * PageSize})

ASSUME GeometryAssumption ==
  /\ GroupSizes \subseteq Nat \ {0}
  /\ {Run, PageSize, MaxNumSeqs, MaxModelLen, WorkspaceCap} \subseteq Nat \ {0}

Context(p) == prefills[p].context
SeqLen(p) == prefills[p].context + prefills[p].query

\* The order the batch is given in.
Ordered == \A p, q \in Prefills : p < q /\ Context(p) = 0 => Context(q) = 0

QueryTokens(requests) ==
  MapThenSumSet(LAMBDA p : requests[p].query, 1 .. Len(requests))

NumPrefillTokens == QueryTokens(prefills)

\* Rows that go to the absorbed (MQA) kernels and to the expanded (MHA) ones.
NumMqaTokens == Len(decodes) + (IF sparse THEN NumPrefillTokens ELSE 0)
NumMhaTokens == IF sparse THEN 0 ELSE NumPrefillTokens

MaxQueryLen ==
  Max({1} \cup {prefills[p].query : p \in Prefills})

LongestSeq ==
  Max({decodes[d] : d \in 1 .. Len(decodes)} \cup {SeqLen(p) : p \in Prefills})

\* A variant that takes every rank's share to be the even one.
DecodeMaxLenEven == Cdiv(LongestSeq, dcp)

\* The bound on a rank's keys of a decode, worked out without asking any rank.
DecodeMaxLen ==
  IF dcp > 1 THEN Cdiv(LongestSeq, dcp * Run) * Run ELSE LongestSeq

=============================================================================
