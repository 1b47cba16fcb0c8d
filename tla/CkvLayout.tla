----------------------------- MODULE CkvLayout -----------------------------
(***************************************************************************)
(* Where the compressed-KV record of a token lives when the cache of one   *)
(* request is split over the ranks of a decode-context-parallel group, and *)
(* where it lands when the ranks gather their parts into one buffer.       *)
(*                                                                         *)
(* A request's tokens are dealt to the ranks in runs of Interleave; a rank *)
(* keeps its own tokens densely, under local indices 0, 1, ...  For a      *)
(* gather every rank lays the local tokens of the batch's requests one     *)
(* request after the other, pads them to a common number of tokens, and    *)
(* the padded buffers are concatenated in rank order.                      *)
(***************************************************************************)
EXTENDS Naturals

CONSTANTS DcpSize,      \* dcp_world_size: ranks in the group
          Interleave,   \* cp_kv_cache_interleave_size: tokens dealt at a time
          BlockSize,    \* tokens of a cache page, the unit of padding
          MaxTokens,    \* VLLM_B12X_MLA_CKV_GATHER_MAX_TOKENS
          MaxSeqs       \* max_num_seqs: requests of a batch

ASSUME SizesAssumption ==
  /\ DcpSize \in Nat \ {0}
  /\ Interleave \in Nat \ {0}
  /\ BlockSize \in Nat \ {0}
  /\ MaxTokens \in Nat
  /\ MaxSeqs \in Nat

Ranks == 0 .. DcpSize - 1
Stride == DcpSize * Interleave

Cdiv(x, y) == (x + y - 1) \div y

\* A variant that forgets the position inside a run of Interleave tokens.
LocalIndexOfRun(tok) == (tok \div Stride) * Interleave

\* The rank that keeps a token, and the token's index among those it keeps.
Owner(tok) == (tok \div Interleave) % DcpSize
LocalIndex(tok) == (tok \div Stride) * Interleave + (tok % Interleave)

\* The token a rank keeps under a local index.
GlobalPosition(local, rank) ==
  (local \div Interleave) * Stride + rank * Interleave + (local % Interleave)

\* How many of a request's first len tokens the rank keeps.
LocalLen(len, rank) ==
  LET rest == len % Stride
      over == IF rest > rank * Interleave THEN rest - rank * Interleave ELSE 0
  IN  (len \div Stride) * Interleave
        + (IF over < Interleave THEN over ELSE Interleave)

\* Padding to whole pages, and the tokens of one rank the arena has room for.
PadToBlock(total) == Cdiv(total, BlockSize) * BlockSize
LocalCapacity ==
  PadToBlock(Cdiv(MaxTokens, DcpSize) + MaxSeqs * Interleave)

\* Place of a token in the gathered buffer, given where its request starts in
\* its owner's part.
GatheredSlot(tok, start, padded) ==
  Owner(tok) * padded + start + LocalIndex(tok)

\* Starts are the running sums of the lengths of n requests.
RunningSum(starts, lens, n) ==
  /\ starts[0] = 0
  /\ \A q \in 0 .. n - 1 : starts[q + 1] = starts[q] + lens[q]
=============================================================================
