----------------------------- MODULE TopkMerge -----------------------------
(***************************************************************************)
(* The sparse-attention indexer under decode context parallelism.  Every   *)
(* rank scores the tokens it keeps and selects its best TopK per query row.*)
(* The ranks then exchange their candidates in an all-gather and each of   *)
(* them selects the best TopK of the union, so that all attend to the same *)
(* tokens.                                                                 *)
(*                                                                         *)
(* There are two implementations.  The "b12x" one scores pages and merges  *)
(* with a row top-k over a flat int32 buffer; merging is optional          *)
(* (VLLM_DCP_GLOBAL_TOPK).  The "deepgemm" one always merges, and with the *)
(* option set remaps a prefill's result once more.                         *)
(***************************************************************************)
EXTENDS CkvLayout, TopkSpec

CONSTANTS Rows,         \* query rows of a chunk (prefill) or step (decode)
          MaxLen,       \* most tokens a row may look at
          Scores,       \* finite scores, as naturals: only their order counts
          Modes,        \* implementations, phases and options to run
          DecodeLens    \* lengths of the rows of a decode step

ASSUME RowsAssumption == Rows \in Nat \ {0} /\ MaxLen \in Nat \ {0}
ASSUME ScoresAssumption == Scores \subseteq Nat /\ 0 \in Scores
ASSUME ModesAssumption ==
  Modes \subseteq [path : {"b12x", "deepgemm"},
                   phase : {"prefill", "decode"},
                   global : BOOLEAN]
ASSUME DecodeLensAssumption == DecodeLens \subseteq [0 .. Rows - 1 -> 0 .. MaxLen]

\* A run of tokens dealt to one rank does not straddle two of its pages, as
\* vLLM requires of a configuration.
ASSUME PagesAssumption == BlockSize % Interleave = 0

VARIABLES mode,       \* what runs, the same on every rank
          lens,       \* per row: how many tokens of its request it sees
          score,      \* per row and token: what the indexer would compute
          pc,         \* per rank: the next kernel on its stream
          width,      \* per rank: page-table columns shown to the kernel
          ids,        \* per rank, row and lane: topk_indices_buffer
          vals,       \* per rank, row and lane: topk_scores_buffer
          packed,     \* per rank, row, field and lane: candidates to send
          gathered,   \* per rank: the all-gather's flat output
          table       \* per rank, row and column: candidates of all ranks

vars == <<mode, lens, score, pc, width, ids, vals, packed, gathered, table>>

RowSet == 0 .. Rows - 1
Lanes == 0 .. TopK - 1
Columns == 0 .. DcpSize * TopK - 1
NoId == -1
NegInf == -1     \* -inf: below every score

Smaller(x, y) == IF x < y THEN x ELSE y
Larger(x, y) == IF x > y THEN x ELSE y

\* Tokens of the chunk's request, and those of a row.
TotalLen == CHOOSE n \in {lens[q] : q \in RowSet} :
              \A q \in RowSet : lens[q] <= n
Tokens(q) == 0 .. lens[q] - 1

\* Ids in a row of lanes, without the padding.
Valid(row) == {row[j] : j \in Lanes} \ {NoId}

Merged == mode.path = "deepgemm" \/ mode.global
Remapped == mode.path = "deepgemm" /\ mode.phase = "prefill" /\ mode.global

Fields == {0, 1}     \* packed[.., 0, ..] are positions, packed[.., 1, ..] scores
Addresses == 0 .. DcpSize * Rows * 2 * TopK - 1

TypeOK ==
  /\ mode \in Modes
  /\ lens \in [RowSet -> 0 .. MaxLen]
  /\ score \in [RowSet -> UNION {[0 .. n - 1 -> Scores] : n \in 0 .. MaxLen}]
  /\ pc \in [Ranks -> {"clear", "indexer", "convert", "pack", "gather",
                       "unpack", "select", "repack", "regather", "reselect",
                       "done"}]
  /\ width \in [Ranks -> Nat]
  /\ ids \in [Ranks -> [RowSet -> [Lanes -> NoId .. MaxLen - 1]]]
  /\ vals \in [Ranks -> [RowSet -> [Lanes -> Scores \cup {NegInf}]]]
  /\ packed \in [Ranks -> [RowSet -> [Fields -> [Lanes -> Int]]]]
  /\ gathered \in [Ranks -> [Addresses -> Int]]
  /\ table \in [Ranks -> [RowSet -> [Columns -> Int \X Int]]]

-----------------------------------------------------------------------------
(***************************************************************************)
(* A chunk.                                                                *)
(***************************************************************************)

\* Rows of a prefill chunk are consecutive tokens of one request, each seeing
\* one token more; with a compressed source the first may see none.  Rows of a
\* decode step belong to requests of their own.
LensOf(phase) ==
  IF phase = "prefill"
  THEN {[q \in RowSet |-> Larger(0, n - (Rows - 1 - q))] : n \in 0 .. MaxLen}
  ELSE DecodeLens

\* Buffers are reused or allocated without a value.  Token 0 with score 0
\* stands for what a former step left.
Init ==
  /\ mode \in Modes
  /\ lens \in LensOf(mode.phase)
  /\ score \in {s \in [RowSet -> UNION {[0 .. n - 1 -> Scores] :
                                          n \in 0 .. MaxLen}] :
                  \A q \in RowSet : DOMAIN s[q] = Tokens(q)}
  /\ pc = [r \in Ranks |-> IF mode.path = "b12x" THEN "indexer" ELSE "clear"]
  /\ width = [r \in Ranks |-> 0]
  /\ ids = [r \in Ranks |-> [q \in RowSet |-> [j \in Lanes |-> 0]]]
  /\ vals = [r \in Ranks |-> [q \in RowSet |-> [j \in Lanes |-> 0]]]
  /\ packed = [r \in Ranks |->
                 [q \in RowSet |-> [f \in Fields |-> [j \in Lanes |-> 0]]]]
  /\ gathered = [r \in Ranks |-> [a \in Addresses |-> 0]]
  /\ table = [r \in Ranks |-> [q \in RowSet |-> [p \in Columns |-> <<0, 0>>]]]

Go(r, label) == pc' = [pc EXCEPT ![r] = label]

-----------------------------------------------------------------------------
(***************************************************************************)
(* Rank-local selection.                                                   *)
(***************************************************************************)

\* Columns of the page table: a page holds BlockSize tokens of the rank, and
\* the scheduler allocates one on every rank for each DcpSize * BlockSize
\* tokens of a request.
TableWidth == Cdiv(MaxLen, DcpSize * BlockSize)
Allocated == Cdiv(TotalLen, DcpSize * BlockSize)

\* A variant that shows the kernel the whole row of the table.
FullWidth(rows) == TableWidth

\* Page-table columns for a rank that keeps that many tokens of the request.
\* One page is kept for a rank without any.
ActiveWidth(rows) == Smaller(Larger(1, Cdiv(rows, BlockSize)), TableWidth)

\* Local positions of row q that rank r can score in that many columns.
Visible(r, q, columns) ==
  0 .. Smaller(LocalLen(lens[q], r), columns * BlockSize) - 1

\* The scores of rank r's tokens under their local positions.
LocalScore(r, q) ==
  [i \in 0 .. LocalLen(lens[q], r) - 1 |-> score[q][GlobalPosition(i, r)]]

\* What a rank-local top-k kernel may leave in a row of lanes: a top-K set of
\* the visible positions, then padding.  Ties are up to the kernel.
LocalRows(r, q, columns) ==
  LET visible == Visible(r, q, columns)
      value == LocalScore(r, q)
  IN  {row \in [Lanes -> visible \cup {NoId}] :
         /\ \A j \in Lanes : \A l \in 0 .. j - 1 :
              row[j] # NoId => row[l] # NoId /\ row[l] < row[j]
         /\ IsTopK(Valid(row), visible, value)}

\* Width of deepgemm's logits: the rank with most tokens sets it, a rank without
\* any has none.
LogitsWidth(r) ==
  IF LocalLen(TotalLen, r) = 0 THEN 0 ELSE LocalLen(TotalLen, 0)

\* The scores of a row of local positions.  A position is clamped to the
\* logits; what they hold outside the row's tokens is not initialised.
LaneScores(r, q, row, junk) ==
  LET value == LocalScore(r, q)
      At(i) == IF i \in DOMAIN value THEN value[i] ELSE junk
  IN  [j \in Lanes |->
         IF row[j] = NoId THEN NegInf
         ELSE At(Smaller(row[j], LogitsWidth(r) - 1))]

\* A prefill chunk shows the kernel the request's own columns only, a decode
\* step the whole row.
ShownColumns(r) ==
  IF mode.phase = "prefill" THEN ActiveWidth(LocalLen(TotalLen, r))
  ELSE TableWidth

\* b12x: the paged indexer overwrites indices and scores.
PagedTopK(r) ==
  /\ pc[r] = "indexer" /\ mode.path = "b12x"
  /\ mode.phase = "decode" \/ TotalLen > 0
  /\ LET rows(q) == LocalRows(r, q, ShownColumns(r))
     IN  \E pick \in [RowSet -> UNION {rows(q) : q \in RowSet}] :
           /\ \A q \in RowSet : pick[q] \in rows(q)
           /\ ids' = [ids EXCEPT ![r] = pick]
           /\ vals' = [vals EXCEPT ![r] =
                         [q \in RowSet |-> LaneScores(r, q, pick[q], 0)]]
  /\ width' = [width EXCEPT ![r] = ShownColumns(r)]
  /\ Go(r, "convert")
  /\ UNCHANGED <<mode, lens, score, packed, gathered, table>>

\* A variant that leaves out the merge when there is nothing to score.
EmptyChunkAlone(r) ==
  /\ pc[r] = "indexer" /\ mode.path = "b12x" /\ mode.phase = "prefill"
  /\ LocalLen(TotalLen, r) = 0
  /\ ids' = [ids EXCEPT ![r] = [q \in RowSet |-> [j \in Lanes |-> NoId]]]
  /\ vals' = [vals EXCEPT ![r] = [q \in RowSet |-> [j \in Lanes |-> NegInf]]]
  /\ Go(r, "done")
  /\ UNCHANGED <<mode, lens, score, width, packed, gathered, table>>

\* b12x, a chunk that sees no token on any rank: nothing is scored, but with
\* the merge on the rank takes part in it.
EmptyChunk(r) ==
  /\ pc[r] = "indexer" /\ mode.path = "b12x" /\ mode.phase = "prefill"
  /\ TotalLen = 0
  /\ ids' = [ids EXCEPT ![r] = [q \in RowSet |-> [j \in Lanes |-> NoId]]]
  /\ vals' = [vals EXCEPT ![r] = [q \in RowSet |-> [j \in Lanes |-> NegInf]]]
  /\ Go(r, IF mode.global THEN "convert" ELSE "done")
  /\ UNCHANGED <<mode, lens, score, width, packed, gathered, table>>

\* deepgemm: fill the buffer, because its kernels only store valid lanes.
Clear(r) ==
  /\ pc[r] = "clear"
  /\ ids' = [ids EXCEPT ![r] = [q \in RowSet |-> [j \in Lanes |-> NoId]]]
  /\ Go(r, "indexer")
  /\ UNCHANGED <<mode, lens, score, width, vals, packed, gathered, table>>

\* The lanes a deepgemm top-k stores; the padding keeps what was there.
Stored(r, pick) ==
  [q \in RowSet |-> [j \in Lanes |->
     IF pick[q][j] = NoId THEN ids[r][q][j] ELSE pick[q][j]]]

\* deepgemm: top-k over the logits of the rank's tokens.
LogitsTopK(r) ==
  \E pick \in [RowSet -> UNION {LocalRows(r, q, TableWidth) : q \in RowSet}] :
    /\ \A q \in RowSet : pick[q] \in LocalRows(r, q, TableWidth)
    /\ ids' = [ids EXCEPT ![r] = Stored(r, pick)]

\* A prefill chunk of which the rank keeps no token has no logits.
PrefillTopK(r) ==
  /\ pc[r] = "indexer" /\ mode.path = "deepgemm" /\ mode.phase = "prefill"
  /\ IF LocalLen(TotalLen, r) = 0
     THEN ids' = [ids EXCEPT ![r] = [q \in RowSet |-> [j \in Lanes |-> NoId]]]
     ELSE LogitsTopK(r)
  /\ Go(r, "pack")
  /\ UNCHANGED <<mode, lens, score, width, vals, packed, gathered, table>>

DecodeTopK(r) ==
  /\ pc[r] = "indexer" /\ mode.path = "deepgemm" /\ mode.phase = "decode"
  /\ LogitsTopK(r)
  /\ Go(r, "pack")
  /\ UNCHANGED <<mode, lens, score, width, vals, packed, gathered, table>>

-----------------------------------------------------------------------------
(***************************************************************************)
(* Exchange.                                                               *)
(***************************************************************************)

\* A variant that forgets to mask the padding.
ToGlobalUnmasked(r, id) == GlobalPosition(id, r)

\* A rank's local position as a position in the request; padding stays.
ToGlobal(r, id) == IF id = NoId THEN NoId ELSE GlobalPosition(id, r)

\* b12x: local positions become global in place.  Without the merge this is
\* all, and every rank attends to its own best tokens.
Convert(r) ==
  /\ pc[r] = "convert"
  /\ ids' = [ids EXCEPT ![r] = [q \in RowSet |-> [j \in Lanes |->
                                   ToGlobal(r, ids[r][q][j])]]]
  /\ Go(r, IF mode.global THEN "pack" ELSE "done")
  /\ UNCHANGED <<mode, lens, score, width, vals, packed, gathered, table>>

\* Positions and scores side by side, as b12x copies its two buffers.
PackBuffers(r) ==
  /\ pc[r] = "pack" /\ mode.path = "b12x"
  /\ packed' = [packed EXCEPT ![r] = [q \in RowSet |-> [f \in Fields |->
                  IF f = 0 THEN ids[r][q] ELSE vals[r][q]]]]
  /\ Go(r, "gather")
  /\ UNCHANGED <<mode, lens, score, width, ids, vals, gathered, table>>

\* deepgemm: positions become global and scores are read from the logits.
PackLogits(r) ==
  \E junk \in Scores :
    packed' = [packed EXCEPT ![r] = [q \in RowSet |-> [f \in Fields |->
                 IF f = 0 THEN [j \in Lanes |-> ToGlobal(r, ids[r][q][j])]
                 ELSE LaneScores(r, q, ids[r][q], junk)]]]

PackCandidates(r) ==
  /\ pc[r] = "pack" /\ mode.path = "deepgemm"
  /\ PackLogits(r)
  /\ Go(r, "gather")
  /\ UNCHANGED <<mode, lens, score, width, ids, vals, gathered, table>>

\* The ranks' buffers, concatenated along the first dimension and flat.
Concatenated ==
  [a \in Addresses |->
     packed[a \div (Rows * 2 * TopK)]
           [(a \div (2 * TopK)) % Rows][(a \div TopK) % 2][a % TopK]]

\* The ranks' buffers, concatenated along the lanes.
SideBySide ==
  [q \in RowSet |-> [p \in Columns |->
     LET part == packed[p \div TopK][q]
     IN  <<part[0][p % TopK], part[1][p % TopK]>>]]

\* The collectives complete when every rank is there.  That a buffer is not
\* reused while a peer still receives it is the subject of CkvGather.
AllGatherFlat ==
  /\ mode.path = "b12x"
  /\ \A r \in Ranks : pc[r] = "gather"
  /\ gathered' = [r \in Ranks |-> Concatenated]
  /\ pc' = [r \in Ranks |-> "unpack"]
  /\ UNCHANGED <<mode, lens, score, width, ids, vals, packed, table>>

AllGatherLanes ==
  /\ mode.path = "deepgemm"
  /\ \E here \in {"gather", "regather"} :
       /\ \A r \in Ranks : pc[r] = here
       /\ pc' = [r \in Ranks |->
                   IF here = "gather" THEN "select" ELSE "reselect"]
  /\ table' = [r \in Ranks |-> SideBySide]
  /\ UNCHANGED <<mode, lens, score, width, ids, vals, packed, gathered>>

\* Where the position of column p of row q is in the flat buffer; its score is
\* TopK further on.
CandidateBase(q, p) ==
  LET rank == p \div TopK
  IN  ((rank * Rows + q) * 2) * TopK + (p - rank * TopK)

Unpack(r) ==
  /\ pc[r] = "unpack"
  /\ table' = [table EXCEPT ![r] = [q \in RowSet |-> [p \in Columns |->
                  <<gathered[r][CandidateBase(q, p)],
                    gathered[r][CandidateBase(q, p) + TopK]>>]]]
  /\ Go(r, "select")
  /\ UNCHANGED <<mode, lens, score, width, ids, vals, packed, gathered>>

-----------------------------------------------------------------------------
(***************************************************************************)
(* Selection from the candidates of all ranks.                             *)
(***************************************************************************)

\* A variant that lets every rank break ties in its own favour.
BestOwn(r, row) ==
  LET value == [p \in Columns |-> 2 * row[p][2]
                                    + (IF p \div TopK = r THEN 1 ELSE 0)]
      pick == CHOOSE f \in [Lanes -> Columns] :
                /\ \A j, l \in Lanes : f[j] = f[l] => j = l
                /\ IsTopK({f[j] : j \in Lanes}, Columns, value)
  IN  [j \in Lanes |-> row[pick[j]]]

\* The candidates a row top-k selects.  Ties are up to the kernel, but a
\* kernel is a function of its input: ranks that hold the same row agree.
Best(r, row) ==
  LET value == [p \in Columns |-> row[p][2]]
      pick == CHOOSE f \in [Lanes -> Columns] :
                /\ \A j, l \in Lanes : f[j] = f[l] => j = l
                /\ IsTopK({f[j] : j \in Lanes}, Columns, value)
  IN  [j \in Lanes |-> row[pick[j]]]

\* b12x writes the selected scores and columns into its buffers and then looks
\* the positions up; deepgemm writes the positions.
Select(r) ==
  /\ pc[r] = "select"
  /\ LET best == [q \in RowSet |-> Best(r, table[r][q])]
     IN  /\ ids' = [ids EXCEPT ![r] =
                      [q \in RowSet |-> [j \in Lanes |-> best[q][j][1]]]]
         /\ vals' = IF mode.path = "deepgemm" THEN vals
                    ELSE [vals EXCEPT ![r] = [q \in RowSet |->
                                         [j \in Lanes |-> best[q][j][2]]]]
  /\ Go(r, IF Remapped THEN "repack" ELSE "done")
  /\ UNCHANGED <<mode, lens, score, width, packed, gathered, table>>

\* deepgemm, prefill, option set: _dcp_global_topk_remap runs on the result of
\* the merge as if it held local positions.
Repack(r) ==
  /\ pc[r] = "repack"
  /\ PackLogits(r)
  /\ Go(r, "regather")
  /\ UNCHANGED <<mode, lens, score, width, ids, vals, gathered, table>>

\* A global position as the rank's local one, or -1 if another rank keeps it.
Finalized(r, id) ==
  IF id # NoId /\ Owner(id) = r THEN LocalIndex(id) ELSE NoId

Reselect(r) ==
  /\ pc[r] = "reselect"
  /\ LET best == [q \in RowSet |-> Best(r, table[r][q])]
     IN  ids' = [ids EXCEPT ![r] = [q \in RowSet |->
                   [j \in Lanes |-> Finalized(r, best[q][j][1])]]]
  /\ Go(r, "done")
  /\ UNCHANGED <<mode, lens, score, width, vals, packed, gathered, table>>

RankStep(r) ==
  \/ PagedTopK(r) \/ EmptyChunk(r) \/ Clear(r)
  \/ PrefillTopK(r) \/ DecodeTopK(r)
  \/ Convert(r) \/ PackBuffers(r) \/ PackCandidates(r)
  \/ Unpack(r) \/ Select(r) \/ Repack(r) \/ Reselect(r)

Next ==
  \/ \E r \in Ranks : RankStep(r)
  \/ AllGatherFlat
  \/ AllGatherLanes

Spec == Init /\ [][Next]_vars

\* Kernels of a stream run, and a collective completes once all ranks are in.
FairSpec ==
  /\ Spec
  /\ \A r \in Ranks : WF_vars(RankStep(r))
  /\ WF_vars(AllGatherFlat) /\ WF_vars(AllGatherLanes)

-----------------------------------------------------------------------------
(***************************************************************************)
(* Properties.                                                             *)
(***************************************************************************)

\* Ranks that have merged attend to the same tokens, ties included.  Each
\* computes its part of the attention over the tokens it keeps, so a token
\* only one of them selected would be missing or counted on the wrong rank.
RanksAgree ==
  \A r, s \in Ranks :
    pc[r] = "done" /\ pc[s] = "done" /\ Merged /\ ~ Remapped =>
      \A q \in RowSet : Valid(ids[r][q]) = Valid(ids[s][q])

\* A prefill chunk's kernel is shown only columns that the request has pages
\* in, and the first: the others hold what a longer request left there.
NoStaleColumn ==
  \A r \in Ranks : mode.phase = "prefill" => width[r] <= Larger(1, Allocated)

\* No rank waits in a collective that another one skips.
AllFinish == <>(\A r \in Ranks : pc[r] = "done")

\* After the remap the ranks together hold a top-K set of the row, each the
\* local positions of the tokens it keeps ("Convert rank-local DCP top-k into
\* one shared global top-k in place").
RemapShares ==
  Remapped /\ (\A r \in Ranks : pc[r] = "done") =>
    \A q \in RowSet :
      IsTopK(UNION {{ToGlobal(r, i) : i \in Valid(ids[r][q])} : r \in Ranks},
             Tokens(q), score[q])
=============================================================================
