------------------------------ MODULE MqaPaths ------------------------------
(***************************************************************************)
(* The absorbed (MQA) attention of a layer whose cache is dealt out to a   *)
(* group of ranks: each rank has the queries of its own heads and the keys *)
(* of its own tokens.  The queries of all heads are brought to every rank, *)
(* each rank attends with its own keys, and the partial results are merged *)
(* into the rank that has the head.  Five ways of doing so share the same  *)
(* borrowed memory; which one a batch takes is worked out from the batch   *)
(* and from the configuration, by the layer and again by the backend.      *)
(*                                                                         *)
(* Ranks meet only in the collectives, which all of them call at the same  *)
(* point, so one step here is a step of every rank on its own memory.      *)
(***************************************************************************)
EXTENDS MlaBatch

CONSTANTS HeadAlign,      \* _HEAD_ALIGNMENT
          MaxBatched,     \* max_num_batched_tokens
          A2aMaxTokens,   \* VLLM_DCP_A2A_MAX_TOKENS
          MinProject,     \* VLLM_DCP_PROJECT_BEFORE_MERGE_MIN_PREFILL_TOKENS
          WorkspaceMin,   \* 1025 in the code
          MinGather,      \* VLLM_B12X_MLA_CKV_GATHER_MIN_TOKENS
          SpecMaxQ,       \* VLLM_B12X_MLA_SPEC_DECODE_MAX_Q
          ProjectRows     \* rows of a projection that fit 144 MiB

\* A batch whose records may be gathered is too long for the decode kernel, which
\* would be given the lengths of one rank's share; so it is with the defaults.
ASSUME PathsAssumption ==
  /\ {HeadAlign, MaxBatched, ProjectRows, MinGather, SpecMaxQ} \subseteq Nat \ {0}
  /\ {A2aMaxTokens, MinProject, WorkspaceMin} \subseteq Nat
  /\ SpecMaxQ <= MinGather

VARIABLES heads,    \* query heads of a rank
          path,     \* what the configuration allows
          mem,      \* per rank: what each region of memory holds
          at,       \* the region that holds the result in hand
          rows,     \* rows of the query exchanged so far
          stage,    \* where the computation is
          output    \* per rank: the rows written to the layer's output

mqaVars == <<heads, path, mem, at, rows, stage, output>>

Regions == {"query", "dense", "scratch", "fresh"}
Stages == {"idle", "pack", "swap", "spread", "load", "attend", "project",
           "merge", "finish", "done", "failed"}

\* Tokens of the batch the kernels take here, and their heads.
T == NumMqaTokens
InputHeads == heads * dcp
KernelHeads == Cdiv(InputHeads, HeadAlign) * HeadAlign
PadHeads == KernelHeads # InputHeads

\* Sizes in units of 64 numbers: a query has 9, a latent result 8, a
\* projected one 4.  Scratch holds the kernel's own result.
QuerySize == MaxBatched * KernelHeads * 9
ScratchSize == MaxBatched * KernelHeads * 8
ChunkCapacity == ScratchSize \div (InputHeads * 9)

DecodeMaxRows == Max({Min({MaxNumSeqs * SpecMaxQ, MaxBatched}), MaxNumSeqs})

-----------------------------------------------------------------------------
(***************************************************************************)
(* What the configuration and the batch select.                            *)
(***************************************************************************)
\* a2a: the communicator; b12x: its one-shot form; large: the communicator of
\* large batches; project: project before the merge; inWorkspace: do so in
\* borrowed memory; gather: the records may be gathered instead;
\* extendAsDecode: short extends may take the decode kernel.
Paths ==
  {c \in [a2a : BOOLEAN, b12x : BOOLEAN, large : {"ag_rs", "a2a"}, project : BOOLEAN,
          inWorkspace : BOOLEAN, gather : BOOLEAN, extendAsDecode : BOOLEAN] :
     c.b12x => c.a2a}

\* The builder has laid the batch out for the gather.
GatherPrepared == sparse /\ decodes = <<>> /\ MaxQueryLen > MinGather

CkvUsed ==
  /\ path.gather
  /\ dcp > 1
  /\ heads % HeadAlign = 0
  /\ GatherPrepared
  /\ T > MinGather

SmallBatch == A2aMaxTokens <= 0 \/ T <= A2aMaxTokens
UseB12x == path.b12x /\ dcp \in {2, 4, 8} /\ SmallBatch
UseA2a == path.a2a /\ (SmallBatch \/ path.large # "ag_rs")

OnDemandProjection ==
  /\ path.project
  /\ dcp > 1
  /\ sparse
  /\ MaxQueryLen > 1
  /\ T > MinProject

ProjectBefore == OnDemandProjection /\ ~UseA2a /\ ~CkvUsed

\* _can_use_b12x_dcp_prefill_workspace
WorkspaceGather ==
  /\ path.inWorkspace
  /\ ProjectBefore
  /\ ~UseB12x
  /\ T \in WorkspaceMin .. MaxBatched
  /\ sparse

DecodeKernel ==
  \/ MaxQueryLen <= 1
  \/ /\ path.extendAsDecode
     /\ MaxQueryLen <= SpecMaxQ
     /\ T <= (Len(decodes) + Len(prefills)) * SpecMaxQ
     /\ T <= DecodeMaxRows

-----------------------------------------------------------------------------
(***************************************************************************)
(* Memory.  A region holds cells of one kind; a reader of another kind     *)
(* finds Garbage.                                                          *)
(***************************************************************************)
Garbage == [kind |-> "garbage"]
Empty == [kind |-> "none", cells |-> <<>>]

Rows == 0 .. T - 1
OwnHeads(r) == r * heads .. r * heads + heads - 1
AllHeads == 0 .. InputHeads - 1

Query(row, h) == [kind |-> "query", row |-> row, head |-> h]

\* seen: how often the keys of each rank have gone into the result.
\* proj: the heads whose weights it was multiplied with.
Result(row, h, seen, proj) ==
  [kind |-> "result", row |-> row, head |-> h, seen |-> seen, proj |-> proj]

Finished(row, h) == Result(row, h, [r \in Group |-> 1], <<h>>)

Read(r, region, kind, i) ==
  IF mem[r][region].kind = kind /\ i \in DOMAIN mem[r][region].cells
  THEN mem[r][region].cells[i]
  ELSE Garbage

\* Cells written over older ones.
Over(cells, old) ==
  [i \in (DOMAIN cells) \cup (DOMAIN old) |->
     IF i \in DOMAIN cells THEN cells[i] ELSE old[i]]

\* Every rank r writes content[r] to a region.
Put(region, content) ==
  mem' = [r \in Group |-> [mem[r] EXCEPT ![region] = content[r]]]

MqaTypeOK ==
  /\ heads \in Nat \ {0}
  /\ path \in Paths
  /\ DOMAIN mem = Group /\ DOMAIN output = Group
  /\ \A r \in Group : DOMAIN mem[r] = Regions
  /\ at \in Regions
  /\ rows \in 0 .. MaxBatched
  /\ stage \in Stages

\* Memory is whatever the layer before has left.
MqaInit ==
  /\ mem = [r \in Group |-> [region \in Regions |-> Empty]]
  /\ at = "fresh"
  /\ rows = 0
  /\ stage = "idle"
  /\ output = [r \in Group |-> <<>>]

-----------------------------------------------------------------------------
\* The queries a rank starts from, and, for a communicator of its own, the
\* queries of every head.
ShareQuery ==
  /\ stage = "idle"
  /\ ~WorkspaceGather
  /\ LET brought(r) == IF dcp = 1 \/ CkvUsed THEN OwnHeads(r) ELSE AllHeads
     IN  Put("fresh", [r \in Group |->
               [kind |-> "query",
                cells |-> [i \in Rows \X brought(r) |-> Query(i[1], i[2])]]])
  /\ at' = "fresh"
  /\ stage' = "load"
  /\ UNCHANGED <<heads, path, rows, output>>

\* A variant that holds back a row, as if for the packed queries.
ChunkRowsShort == Min({ChunkCapacity, T - rows}) - 1

\* A variant that takes a full chunk at the end as well.
ChunkRowsFull == ChunkCapacity

\* The rows exchanged next through scratch.
ChunkRows == Min({ChunkCapacity, T - rows})

\* A variant that packs a chunk where its rows would be if no row were padded
\* and only the rank's own heads were kept.
PackOffsetDense == rows * heads

PackOffset == rows * KernelHeads

\* The workspace contract also refuses sizes of the tensor-parallel group that its
\* list does not pair with the size of this one.  There is no tensor-parallel
\* group here: a case that comes here is taken to be one of its pairs.
BeginWorkspace ==
  /\ stage = "idle"
  /\ WorkspaceGather
  /\ stage' = IF ChunkCapacity > 0 THEN "pack" ELSE "failed"
  /\ UNCHANGED <<heads, path, mem, at, rows, output>>

\* Cells of the query region are addressed flat; a chunk's own queries are
\* packed without gaps where the chunk's rows begin.
PackChunk ==
  /\ stage = "pack"
  /\ IF rows = T
     THEN /\ stage' = "load"
          /\ at' = "query"
          /\ UNCHANGED mem
     ELSE /\ stage' = "swap"
          /\ UNCHANGED at
          /\ Put("query", [r \in Group |->
               LET packed == [i \in PackOffset .. PackOffset + ChunkRows * heads - 1 |->
                                Query(rows + (i - PackOffset) \div heads,
                                      r * heads + ((i - PackOffset) % heads))]
               IN  [kind |-> "query", cells |-> Over(packed, mem[r]["query"].cells)]])
  /\ UNCHANGED <<heads, path, rows, output>>

\* Scratch gets every rank's packed rows, rank after rank.
ExchangeChunk ==
  /\ stage = "swap"
  /\ Put("scratch", [r \in Group |->
       [kind |-> "query",
        cells |-> [i \in Group \X (0 .. ChunkRows - 1) \X (0 .. heads - 1) |->
                     Read(i[1], "query", "query", PackOffset + i[2] * heads + i[3])]]])
  /\ stage' = "spread"
  /\ UNCHANGED <<heads, path, at, rows, output>>

\* ... and from there they go to their rows, rank after rank in each row.
SpreadChunk ==
  /\ stage = "spread"
  /\ Put("query", [r \in Group |->
       LET cell(i) == <<(i % KernelHeads) \div heads,
                        i \div KernelHeads - rows,
                        (i % KernelHeads) % heads>>
           target == {i \in rows * KernelHeads .. (rows + ChunkRows) * KernelHeads - 1 :
                        i % KernelHeads < InputHeads}
       IN  [kind |-> "query",
            cells |-> Over([i \in target |-> Read(r, "scratch", "query", cell(i))],
                           mem[r]["query"].cells)]])
  /\ rows' = rows + ChunkRows
  /\ stage' = "pack"
  /\ UNCHANGED <<heads, path, at, output>>

-----------------------------------------------------------------------------
\* Heads and row stride of the query the kernels are planned for.
PlannedHeads(r) == IF CkvUsed THEN OwnHeads(r) ELSE AllHeads
FirstHead(r) == IF CkvUsed \/ dcp = 1 THEN r * heads ELSE 0
QueryStride == IF CkvUsed THEN heads ELSE KernelHeads
QueryCell(r, row, h) == row * QueryStride + h - FirstHead(r)
QueryCells(r) == UNION {{QueryCell(r, row, h) : h \in PlannedHeads(r)} : row \in Rows}

\* exact_workspace_alias: the view the workspace exchange has returned.
Alias == at = "query"

\* forward_mqa: the query into the kernel's buffer, unless it is there.
LoadQuery ==
  /\ stage = "load"
  /\ IF Alias
     THEN UNCHANGED mem
     ELSE Put("query", [r \in Group |->
            [kind |-> "query",
             cells |-> [i \in QueryCells(r) |->
                          Read(r, at, "query", <<i \div QueryStride,
                                                 (i % QueryStride) + FirstHead(r)>>)]]])
  /\ stage' = "attend"
  /\ UNCHANGED <<heads, path, at, rows, output>>

\* The kernel of a dense layer's decodes goes up to the bound it is given, and
\* has to find the whole of each rank's share below it.
BoundReaches(r) ==
  sparse \/ \A d \in 1 .. Len(decodes) : Layout(dcp)!LocalLen(decodes[d], r) <= DecodeMaxLen

\* What rank r's kernel makes of a query.  With the records gathered it sees
\* the keys of every rank, if the lengths it is given are those of the whole.
Attended(r, query) ==
  IF query.kind # "query" \/ ~BoundReaches(r) THEN Garbage
  ELSE Result(query.row, query.head,
              [s \in Group |-> IF s = r \/ (CkvUsed /\ ~DecodeKernel) THEN 1 ELSE 0],
              <<>>)

\* With padded heads the result is copied out of scratch.
OutRegion == IF PadHeads /\ ~(CkvUsed /\ ~DecodeKernel) THEN "dense" ELSE "scratch"

Attend ==
  /\ stage = "attend"
  /\ LET result(r) ==
           [kind |-> "result",
            cells |-> [i \in Rows \X PlannedHeads(r) |->
                         Attended(r, Read(r, "query", "query", QueryCell(r, i[1], i[2])))]]
     IN  mem' = [r \in Group |->
                   [mem[r] EXCEPT !["scratch"] = result(r), ![OutRegion] = result(r)]]
  /\ at' = OutRegion
  /\ stage' = IF ProjectBefore THEN "project"
              ELSE IF dcp > 1 /\ ~CkvUsed THEN "merge" ELSE "finish"
  /\ UNCHANGED <<heads, path, rows, output>>

-----------------------------------------------------------------------------
\* Multiplication with the weights of head h.
Weigh(value, h) ==
  IF value.kind # "result" THEN Garbage ELSE [value EXCEPT !.proj = Append(@, h)]

\* The rows a projection in chunks reaches.
Projected ==
  LET chunks == 0 .. (T - 1) \div ProjectRows
  IN  UNION {c * ProjectRows .. Min({(c + 1) * ProjectRows, T}) - 1 : c \in chunks}

\* The weights of every head have been brought to every rank.
ProjectFresh ==
  /\ stage = "project"
  /\ ~WorkspaceGather
  /\ Put("fresh", [r \in Group |->
       [kind |-> "result",
        cells |-> [i \in Rows \X AllHeads |->
                     IF i[1] \in Projected
                     THEN Weigh(Read(r, at, "result", i), i[2]) ELSE Garbage]]])
  /\ at' = "fresh"
  /\ stage' = "merge"
  /\ UNCHANGED <<heads, path, rows, output>>

ExpectedRegion == IF PadHeads THEN "dense" ELSE "scratch"

\* The query region takes the input of the product, scratch its result.
ProjectInWorkspace ==
  /\ stage = "project"
  /\ WorkspaceGather
  /\ IF \/ at # ExpectedRegion
        \/ QuerySize < InputHeads * T * 8
        \/ ScratchSize < InputHeads * T * 4
     THEN stage' = "failed" /\ UNCHANGED <<mem, at>>
     ELSE /\ mem' = [r \in Group |->
               LET input == [i \in Rows \X AllHeads |-> Read(r, at, "result", i)]
               IN  [mem[r] EXCEPT
                      !["query"] = [kind |-> "result", cells |-> input],
                      !["scratch"] = [kind |-> "result",
                         cells |-> [i \in Rows \X AllHeads |-> Weigh(input[i], i[2])]]]]
          /\ at' = "scratch"
          /\ stage' = "merge"
  /\ UNCHANGED <<heads, path, rows, output>>

\* The partial results of every rank for one row and head, as one.
Combined(row, h) ==
  LET parts == [s \in Group |-> Read(s, at, "result", <<row, h>>)]
      same == \A s \in Group :
                parts[s].kind = "result" /\ parts[s].row = parts[0].row
                  /\ parts[s].head = parts[0].head /\ parts[s].proj = parts[0].proj
  IN  IF ~same THEN Garbage
      ELSE Result(parts[0].row, parts[0].head,
                  [k \in Group |-> MapThenSumSet(LAMBDA s : parts[s].seen[k], Group)],
                  parts[0].proj)

\* The heads the reduce-scatter, or the exchange, leaves with a rank.
KeptHeads(r) == OwnHeads(r)

MergedRows(r) ==
  [kind |-> "result",
   cells |-> [i \in Rows \X KeptHeads(r) |-> Combined(i[1], i[2])]]

MergePartials ==
  /\ stage = "merge"
  /\ IF UseA2a \/ ~WorkspaceGather
     THEN /\ Put("fresh", [r \in Group |-> MergedRows(r)])
          /\ at' = "fresh"
          /\ stage' = "finish"
     ELSE IF at # "scratch"
     THEN stage' = "failed" /\ UNCHANGED <<mem, at>>
     ELSE /\ Put("query", [r \in Group |-> MergedRows(r)])
          /\ at' = "query"
          /\ stage' = "finish"
  /\ UNCHANGED <<heads, path, rows, output>>

\* The layer's own projection, unless it has been done.
Finish ==
  /\ stage = "finish"
  /\ output' = [r \in Group |->
       LET value(i) == Read(r, at, "result", i)
           own == [i \in Rows \X OwnHeads(r) |->
                     IF ProjectBefore THEN value(i) ELSE Weigh(value(i), i[2])]
       IN  Over(own, output[r])]
  /\ stage' = "done"
  /\ UNCHANGED <<heads, path, mem, at, rows>>

MqaNext ==
  /\ \/ ShareQuery \/ BeginWorkspace
     \/ PackChunk \/ ExchangeChunk \/ SpreadChunk
     \/ LoadQuery \/ Attend
     \/ ProjectFresh \/ ProjectInWorkspace
     \/ MergePartials \/ Finish
  /\ UNCHANGED batchVars

-----------------------------------------------------------------------------
(***************************************************************************)
(* Properties.                                                             *)
(***************************************************************************)

\* Whichever path a batch takes, a rank ends with the result of each of its
\* heads for each row: made from that row's and that head's query, with the
\* keys of every rank once, and multiplied once with that head's weights.
\* The paths reuse the query buffer and scratch for four different things;
\* a row overwritten, read too late or taken from another rank shows here, and
\* so does a bound that is short of some rank's share of a decode.
HeadsRight ==
  stage = "done" =>
    \A r \in Group, row \in Rows : \A h \in OwnHeads(r) :
      output[r][<<row, h>>] = Finished(row, h)

=============================================================================
