---------------------------- MODULE ContextChunks ----------------------------
(***************************************************************************)
(* Prefill attention over tokens that are already in the cache.  The       *)
(* cached tokens of the batch's prefills are taken chunk by chunk through  *)
(* a workspace of fixed size; the result of every chunk is merged into the *)
(* one so far, and the whole into the attention over the new tokens.  When *)
(* the cache is dealt out to a group of ranks, each chunk is gathered      *)
(* locally, exchanged, and put back into one run per request.              *)
(*                                                                         *)
(* The ranks share nothing but the exchange and take the same steps, so    *)
(* one step here is a step of every rank, on its own workspace.            *)
(***************************************************************************)
EXTENDS MlaBatch, SequencesExt

VARIABLES workspace,   \* per rank: the workspace, a record or Blank per row
          chunk,       \* the chunk in hand, counted from 0
          step,        \* where the computation is
          strided,     \* the kernels return results with padded rows
          prefix,      \* result over the chunks so far: keys and layout
          spare,       \* layout of the second result buffer, or "none"
          attended     \* per rank and prefill: the keys of the final result

chunkVars == <<workspace, chunk, step, strided, prefix, spare, attended>>

Blank == <<>>
Layouts == {"padded", "dense"}
Steps == {"new", "gather", "exchange", "attend", "merge", "done", "failed"}
Nothing == [r \in Group |-> [p \in Prefills |-> <<>>]]

-----------------------------------------------------------------------------
(***************************************************************************)
(* The metadata: how the cached tokens are cut into chunks.                *)
(***************************************************************************)
WithContext == Cardinality({p \in Prefills : Context(p) > 0})
HasContext == WithContext > 0

MaxContextChunk == ((WorkspaceSize \div WithContext) \div PageSize) * PageSize

NumChunks == Cdiv(Max({Context(p) : p \in Prefills}), MaxContextChunk)

\* Sums of the first lengths, of none to all of them.
CuSum(lens) ==
  LET cu[p \in 0 .. Len(lens)] == IF p = 0 THEN 0 ELSE cu[p - 1] + lens[p]
  IN  cu

\* What the slice [start, start + size) has of the first len of something.
Slice(len, start, size) ==
  IF len <= start THEN 0 ELSE Min({len - start, size})

ChunkLen(i, p) == Slice(Context(p), i * MaxContextChunk, MaxContextChunk)
CuLen(i, p) == CuSum([q \in Prefills |-> ChunkLen(i, q)])[p - 1]
ChunkTotal(i) == CuLen(i, Len(prefills) + 1)

\* The same for a rank's share, the runs of the longest share counted full.
LocalChunk == Cdiv(MaxContextChunk, dcp * Run) * Run
PaddedLocalContext(p) == Cdiv(Context(p), dcp * Run) * Run
PaddedLen(i, p) == Slice(PaddedLocalContext(p), i * LocalChunk, LocalChunk)
PaddedCu(i, p) == CuSum([q \in Prefills |-> PaddedLen(i, q)])[p - 1]
Toks(i) == IF dcp > 1 THEN PaddedCu(i, Len(prefills) + 1) ELSE ChunkTotal(i)

LocalContext(p, r) == Layout(dcp)!LocalLen(Context(p), r)

\* The rows a rank has: its own part first, then the gathered part.
WorkspaceRows ==
  IF dcp > 1 THEN WorkspaceSize + WorkspaceSize \div dcp ELSE WorkspaceSize
GatherOffset == WorkspaceRows \div (dcp + 1)

\* Rows of the prefills that have cached tokens, taken to come first.
MergedPrefills == 1 .. WithContext

-----------------------------------------------------------------------------
ChunkTypeOK ==
  /\ chunk \in Nat
  /\ step \in Steps
  /\ strided \in BOOLEAN
  /\ prefix.layout \in Layouts \cup {"none"} /\ spare \in Layouts \cup {"none"}
  /\ DOMAIN workspace = Group /\ DOMAIN attended = Group
  /\ \A r \in Group : DOMAIN workspace[r] = 0 .. WorkspaceRows - 1

ChunkInit ==
  /\ workspace = [r \in Group |-> [i \in 0 .. WorkspaceRows - 1 |-> Blank]]
  /\ chunk = 0
  /\ step = IF NumMhaTokens > 0 THEN "new" ELSE "done"
  /\ strided \in BOOLEAN
  /\ prefix = [keys |-> Nothing, layout |-> "none"]
  /\ spare = "none"
  /\ attended = Nothing

\* A record of the cache.  The new tokens have been written before the layer
\* runs, so a rank's share goes on behind its cached tokens.
Cached(p, tok) == IF tok < SeqLen(p) THEN <<p, tok>> ELSE Blank

LocalRecord(r, p, i) == Cached(p, Layout(dcp)!GlobalPosition(i, r))

NewTokens(p) ==
  [i \in 1 .. prefills[p].query |-> <<p, Context(p) + i - 1>>]

-----------------------------------------------------------------------------
\* Attention over the new tokens; without cached ones it is the result.
RunNewTokens ==
  /\ step = "new"
  /\ IF HasContext
     THEN step' = "gather" /\ UNCHANGED attended
     ELSE /\ step' = "done"
          /\ attended' = [r \in Group |-> [p \in Prefills |-> NewTokens(p)]]
  /\ UNCHANGED <<workspace, chunk, strided, prefix, spare>>

\* The chunk of every prefill, packed; with a group, the padded local share.
GatherRow(r, i, row) ==
  IF dcp > 1
  THEN LET p == CHOOSE q \in Prefills :
                  PaddedCu(i, q) <= row /\ row < PaddedCu(i, q + 1)
       IN  LocalRecord(r, p, i * LocalChunk + row - PaddedCu(i, p))
  ELSE LET p == CHOOSE q \in Prefills :
                  CuLen(i, q) <= row /\ row < CuLen(i, q + 1)
       IN  Cached(p, i * MaxContextChunk + row - CuLen(i, p))

\* What the metadata builder and the loop assert before a chunk is gathered.
ChunkFits(i) ==
  /\ MaxContextChunk > 0
  /\ \A p \in Prefills : ChunkLen(i, p) <= WorkspaceSize
  /\ dcp > 1 =>
       /\ MaxContextChunk % dcp = 0
       /\ GatherOffset * (dcp + 1) = WorkspaceRows
       /\ Toks(i) <= GatherOffset

GatherChunk ==
  /\ step = "gather"
  /\ IF chunk = NumChunks
     THEN step' = "merge" /\ UNCHANGED <<workspace, chunk>>
     ELSE IF ~ChunkFits(chunk)
     THEN step' = "failed" /\ UNCHANGED <<workspace, chunk>>
     ELSE IF Toks(chunk) = 0
     THEN chunk' = chunk + 1 /\ UNCHANGED <<workspace, step>>
     ELSE /\ workspace' =
               [r \in Group |-> [row \in 0 .. WorkspaceRows - 1 |->
                  IF row < Toks(chunk)
                  THEN GatherRow(r, chunk, row) ELSE workspace[r][row]]]
          /\ step' = IF dcp > 1 THEN "exchange" ELSE "attend"
          /\ UNCHANGED chunk
  /\ UNCHANGED <<strided, prefix, spare, attended>>

\* The all-gather: every rank's rows, rank after rank.
Exchange ==
  /\ step = "exchange"
  /\ LET toks == Toks(chunk)
     IN  workspace' =
           [r \in Group |-> [row \in 0 .. WorkspaceRows - 1 |->
              IF row >= GatherOffset /\ row < GatherOffset + dcp * toks
              THEN workspace[(row - GatherOffset) \div toks]
                            [(row - GatherOffset) % toks]
              ELSE workspace[r][row]]]
  /\ step' = "attend"
  /\ UNCHANGED <<chunk, strided, prefix, spare, attended>>

\* How much of a rank's rows for a prefill is not padding.
LocalChunkLen(i, p, r) ==
  LET left == IF LocalContext(p, r) > i * LocalChunk
              THEN LocalContext(p, r) - i * LocalChunk ELSE 0
  IN  Min({left, PaddedLen(i, p)})

\* reorg_kvcache: prefill after prefill, and in it rank after rank.
Segment(ws, i, p, r) ==
  [k \in 1 .. LocalChunkLen(i, p, r) |->
     ws[GatherOffset + r * Toks(i) + PaddedCu(i, p) + k - 1]]

Reorganized(ws, i) ==
  FlattenSeq([p \in Prefills |->
    FlattenSeq([s \in 1 .. dcp |-> Segment(ws, i, p, s - 1)])])

ReorgFits(ws, i) ==
  /\ Len(Reorganized(ws, i)) = ChunkTotal(i)
  /\ Max({MapThenSumSet(LAMBDA r : LocalChunkLen(i, p, r), Group) : p \in Prefills})
       = Max({ChunkLen(i, p) : p \in Prefills})

Keys(ws, i) ==
  IF dcp > 1 THEN Reorganized(ws, i)
  ELSE [k \in 1 .. ChunkTotal(i) |-> ws[k - 1]]

\* The kernel's own cut of the keys into requests.
KeysOf(ws, i, p) == SubSeq(Keys(ws, i), CuLen(i, p) + 1, CuLen(i, p + 1))

\* A variant that leaves the layouts as they are.
MatchStridesNot(a, b) == <<a, b>>

\* _match_merge_strides: equal layouts stay, others are made dense.
MatchStrides(a, b) == IF a = b THEN <<a, b>> ELSE <<"dense", "dense">>

\* The merge kernel finds both inputs by the strides of the first.
Readable(pair) == pair[1] = pair[2]

AttendChunk ==
  /\ step = "attend"
  /\ LET result == IF strided THEN "padded" ELSE "dense"
         pair == MatchStrides(prefix.layout, result)
         into == IF spare = "none" THEN "dense" ELSE spare
         merged == [r \in Group |-> [p \in Prefills |->
                      prefix.keys[r][p] \o KeysOf(workspace[r], chunk, p)]]
     IN  IF dcp > 1 /\ \E r \in Group : ~ReorgFits(workspace[r], chunk)
         THEN step' = "failed" /\ UNCHANGED <<chunk, prefix, spare>>
         ELSE /\ step' = "gather"
              /\ chunk' = chunk + 1
              /\ IF prefix.layout = "none"
                 THEN /\ prefix' = [keys |-> merged, layout |-> result]
                      /\ UNCHANGED spare
                 ELSE /\ prefix' = [keys |-> IF Readable(pair) THEN merged ELSE Nothing,
                                    layout |-> into]
                      /\ spare' = pair[1]
  /\ UNCHANGED <<workspace, strided, attended>>

\* Only the rows of prefills with cached tokens take the prefix in.
MergeContext ==
  /\ step = "merge"
  /\ LET pair == MatchStrides(prefix.layout, IF strided THEN "padded" ELSE "dense")
     IN  attended' = [r \in Group |-> [p \in Prefills |->
           IF p \in MergedPrefills
           THEN IF Readable(pair) THEN prefix.keys[r][p] \o NewTokens(p) ELSE <<>>
           ELSE NewTokens(p)]]
  /\ step' = "done"
  /\ UNCHANGED <<workspace, chunk, strided, prefix, spare>>

ChunkNext ==
  /\ \/ RunNewTokens \/ GatherChunk \/ Exchange \/ AttendChunk \/ MergeContext
  /\ UNCHANGED batchVars

-----------------------------------------------------------------------------
(***************************************************************************)
(* Properties.                                                             *)
(***************************************************************************)

\* When the layer is done, on every rank each prefill has attended to every
\* token it has, cached or new, exactly once: no chunk boundary, no rank's
\* share, no padding (which holds this step's new tokens or an earlier
\* request's) and no other request's tokens come in or are left out.
EveryKeyOnce ==
  step = "done" /\ NumMhaTokens > 0 =>
    \A r \in Group, p \in Prefills :
      /\ Len(attended[r][p]) = SeqLen(p)
      /\ ToSet(attended[r][p]) = {<<p, tok>> : tok \in 0 .. SeqLen(p) - 1}
=============================================================================
