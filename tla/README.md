# Formal models of the GLM-5.2 v17 LMCache / CKV-gather image

TLA+ modules, TLC configurations and TLAPS proofs for the code under `src/`.
Paths below are relative to the repository; `patches/` stands for
`base/patches/`, and `overlay/` for `gather/overlay/vllm/`.

The repository builds one container out of a pinned vLLM image. Its own logic
is (a) source patches that make vLLM's scheduler and LMCache's connector safe
for chunked prefill, aborts and preemption, and (b) an overlay of three vLLM
files that lets the ranks of a decode-context-parallel (DCP) group gather a
prefill batch's compressed-KV (CKV) records before attending to them.

## 1. Inventory

| Component | State it keeps | Operations | Hard part | Correct when |
|---|---|---|---|---|
| LMCache worker adapter (`patch_chunked_store_futures.py`, `patch_ipc_event_lifetime.py`) | per request a list of store futures and one of IPC events; a future and an event per retrieve; `finished_stores`, `previously_finished` | submit store, submit retrieve, `_poll_store_futures`, `get_finished`, unhealthy path | copies complete during the walk; several chunks of a request in flight; finish notice before or after the last chunk | blocks are freed only when no store reads them; every result is read once; events live as long as their transfer |
| Scheduler guards (`patch_kv_xfer_assert_v10.py`) | request table, per-request reports of the workers | finished-sending and finished-receiving loops | late completions, client aborts | no assertion fires; every finished request gives its blocks back |
| Preempt restore (`patch_preempt_safe_restore.py`, SAFE_V3) | `_safe_preempt_submitted`, `_active`, `_finished` | one call per scheduler step for a preempted request | lookups are asynchronous; requests vanish; repeated preemption | one lookup at a time, one per request, its answer waited for, slot freed |
| Session retention (same file) | LMCache sessions with a creation time | remove, touch, cleanup | clean-up by other requests | a retained session lives until its TTL after finish |
| CKV gather (`overlay/v1/attention/backends/mla/b12x_mla_sparse.py`, `overlay/model_executor/layers/attention/mla_attention.py`) | one arena per worker shared by all layers; batch metadata buffers; page table and count buffers | build metadata, choose path, remap, gather local, all-gather, attend | ranks run at their own pace; collectives must match; arena reused by the next layer | each layer attends to its own records; all ranks issue the same collectives; nobody hangs |
| Top-k remap kernel (same file) | output row, count | fill and reset, tiles with an atomic addition, stores | tiles race; buffers are reused | the row is a prefix of exactly the selected slots |
| Indexer and top-k merge (`overlay/model_executor/layers/sparse_attn_indexer.py`) | candidate buffers, active page width | rank-local top-k, global merge | ties, short rows, stale columns | all ranks derive one global set |
| Stock attention of the sparse backend (`b12x_mla_sparse.py`) | page table and count of the local slots; query, output and scratch workspaces | filter and cap the selected tokens, query gather in borrowed memory, kernels, projection | lengths known only as a bound; one buffer holds four things in turn; five paths chosen twice | the ranks attend to each selected token once; each row and head gets its own result |
| MLA attention layer (`mla_attention.py`) | one workspace for cached tokens; two result buffers | chunk metadata, gather, exchange, reorganize, attend, merge | chunks in pages, shares in runs; padding that holds other records; padded result rows | each prefill attends to each of its tokens once |
| DCP-aware keys and store ranks (`patch_dcp_lmcache.py`, `patch_dcp_mla_store.py`) | none (topology arithmetic) | kv_rank, world size, extra lock count, who stores | tensor and context groups overlap | every shard is stored, each rank loads its own, locks come out even |
| Patch chain and image build (`Dockerfile`, launchers, `validate_install.py`) | patched files and markers | apply, skip, refuse | partial application, order | what is built is whole; a good base builds |
| InstantTensor fallback | generator position | iterate, fall back | error after a yield | each weight loaded once |
| Start-up shell (`start-v17-lmcache.sh`) | two child processes | wait for readiness, trap | daemon dies while waited for; signals | no orphan, no endless wait |
| Validators and benchmarks (`verify_reuse.py`, `benchmark_reuse.py`, `validate_boundary_once.py`) | object counts, counters, outputs | send prompts, wait for objects, judge | stores go on after the completion; counts mix prompts | a pass is true; a good server passes |
| Tests, packaging, documents | none | | | outside the system |

**Interaction.** The scheduler's output reaches every worker in order. Workers
submit copies to the LMCache server (another process) and poll futures at every
engine step. Their reports are aggregated over all workers and returned to the
scheduler. Inside a forward pass the DCP ranks meet only in collectives on
their CUDA streams; the host code of the ranks decides independently what to
issue. The indexer's result is what the attention of the same layer starts
from. What the build left out of an image shows only in the running server, if
at all: the keys and locks of a deployment are those its image was given, and
the tools judge them from outside.

`PROJECT.json` lists each component's status and the hazards of the code, line
by line, with the properties that cover them.

## 2. Modules

| Module | Role |
|---|---|
| `BlockLease` | abstract: a pool lends blocks; transfers read them; they go back only when no read is left, and are not lent again to the same request |
| `KVTransfer` | scheduler, aggregator, one adapter per worker, server; the whole life of a request |
| `KVTransferProofs` | its theorems |
| `StoreFutures`, `StoreFuturesProofs` | one adapter with its lists in full, one step per future; its theorems |
| `PreemptRestore`, `PreemptRestoreProofs` | the three sets of the restore guard and the scheduler's retries; the theorems |
| `CkvLayout` | the pure arithmetic: owner, local index, lengths, padding, capacity, gathered slot |
| `CkvLayoutProofs` | its theorems |
| `CkvGather` | ranks, layers, batches, streams, collectives and the shared arena |
| `CkvGatherProofs` | its theorems |
| `TopkRemap` | the racing tiles of the remap kernel |
| `TopkSpec` | what a top-K set of candidates is, ties included |
| `TopkMerge` | the indexer on every rank: local selection, exchange, merged selection, in both implementations |
| `TopkProofs` | the theorems about the remap kernel and the indexer |
| `DcpSelect` | extends `TopkMerge`: from the indexer's positions to the slots and counts of the stock attention |
| `MlaBatch` | the batch and the group an attention layer is given, and the sizes derived from them |
| `ContextChunks` | prefill over cached tokens, chunk by chunk, alone or dealt to a group |
| `MqaPaths` | the absorbed kernels: queries, attention, projection and merge on every path, with the memory they share |
| `MlaLayer`, `MlaLayerProofs` | composes `ContextChunks` and `MqaPaths` into one call of a layer; the theorems about it |
| `SparseForward` | composes `MlaLayer` and `TopkRemap`: a gathered layer's rows are remapped before its attention |
| `ImageBuild` | the Dockerfile with its patchers and checks |
| `WeightLoad` | the two passes over the checkpoint with InstantTensor or without |
| `ServerStart` | the start-up shell, its daemon, vLLM and signals |
| `CacheReuse` | keys, locks and stores of a deployment, and the tools that judge it |
| `Deployment` | composes `ImageBuild`, `ServerStart`, `WeightLoad` and `CacheReuse` |
| `DeploymentProofs` | the theorems about these five |
| `MC...` | symmetry sets and definitions for TLC |

### State and actions against the code

*KVTransfer.* `futures[w]` is `store_futures`, flattened to (request, chunk)
pairs; `finishedStores` and `previouslyFinished` are the adapter's sets of
those names; `loads` is `retrieve_futures`. `storing` and `restoring` are the
server's copies in progress. `submitted` and `loadSubmitted` say how far a
worker has got in the scheduler's ordered output; `Deliverable` are the finish
notices that come next in it. `SubmitStore` and `SubmitRetrieve` are the
submit methods; `GetFinished` is the whole of `get_finished` when the heartbeat
is healthy (walk, `_process_finished_stores`, retrieves), `GiveUp` when it is
not. `FinishedSending` and `FinishedRecving` are the two loops that
`patch_kv_xfer_assert_v10.py` guards; what is left of the assertions sets
`engineDead`, after which nothing happens. Ranks that do not store (the patch
`patch_dcp_mla_store.py` selects those that do) submit nothing and are left
out: `Workers` are the storing ranks, all four in the shipped TP4/DCP4 set-up.

The walk over the futures is one step here. `StoreFutures` takes it apart: the
snapshot (`PollStart`), a request's two lists and the length check
(`PollRequest`), one turn of the `zip` loop (`PollFuture`), the write-back
(`PollWriteBack`) and the return (`PollEnd`), while the server completes copies
at any point. A future found pending and answered a moment later is
reported by the next poll, which is what a later atomic poll would do.

*PreemptRestore.* Each action is one return path of the SAFE_V3 block. The
check that follows a submission in the same call is folded into `TakeResult`:
an answer that is there at once is taken by the next step. The external
assumption is that `check_lookup_result` raises only as the final outcome of a
lookup. `tried` is a history variable that counts lookups.

*CkvGather.* Per rank a program counter over the kernels of its stream. The
arena is `local` (the first `LocalCapacity` records) and `gathered` (the rest),
a record is the triple (layer, request, token) it was written as, so stale and
foreign contents are visible. `Sizes`, `RankStart` and `Eligible` are what
`build()` and `dcp_prefill_ckv_gather_eligible` compute *on each rank*.
`WriteCache` stores the layer's new records and chooses the path; then `Remap`,
`GatherLocal`, `AllGather`, `LeaveCall` and `Attend`, or the stock path's query
gather, `AttendPartial` and merge. A collective is matched by its position in
each rank's sequence, as NCCL does; `Transfer` moves one rank's buffer to one
other, so a call is in flight for several steps, and `CallDone` is what "on the
current stream" buys: the stream continues only when the rank's sends are over
as well as its receives. The indexer's choice of tokens is taken as all tokens
of the request, which contains any other choice slot by slot. The stock
path's cache arithmetic, its several merge backends and the indexer's own
collectives do not touch the arena and are represented by the two collectives
"query" and "merge" only.

*TopkRemap.* `Launch` is the host function (checks, fill with -1, reset of the
count), which the stream orders after the launch before; a tile loads its
lanes, `Reserve`s columns with one atomic addition and `Store`s lane by lane.
Buffers start with arbitrary contents because they are `torch.empty`.

*SparseForward.* When a layer has its queries and its records are gathered,
`RemapRow` runs the remap kernel for one row, tile by tile, before `ForwardLayer`
goes on: both are launched on one stream. The row is one of the batch's, its
tokens any; the attention of `MqaPaths` does not look into it, as what the
kernel reads through the slots is the subject of `CkvGather`.

*TopkMerge.* One query chunk or decode step, all of whose lengths, scores and
ties TLC chooses in `Init` and in the rank-local selection. Each rank has a
program counter over its kernels; `ids` and `vals` are `topk_indices_buffer`
and `topk_scores_buffer`. In the b12x implementation `PagedTopK` (or
`EmptyChunk`) is followed by `Convert`, `PackBuffers`, the flat all-gather,
`Unpack` with the kernel's address arithmetic, and `Select`. In the deepgemm
implementation `Clear` fills the buffer, `PrefillTopK` or `DecodeTopK` stores
valid lanes, `PackCandidates` reads the scores back from the logits, and
`Select` writes merged positions; with `VLLM_DCP_GLOBAL_TOPK` a prefill then
goes through `Repack` and `Reselect`, the remap. Which positions a rank-local
kernel selects among equals is left open; `Best` is a fixed function, as the
selection kernels are functions of the row they are given. A collective is one
step here: what happens while it is under way is the subject of `CkvGather`.
Scores are finite; -inf is kept for padding. Speculative decode with padded
rows, the FP4 cache and the profiling run are left out.

*DcpSelect.* When every rank is done, `FilterRows` does what `forward_mqa` does
with `topk_indices_buffer` if the records are not gathered: keep the rank's own
positions, turn them into slots through a block table (one that runs backwards,
so that a slot taken for a position shows), store them closed up in any order
(`Orders`: the filter kernel is vLLM's and promises none), cap their number by
the row's length and mask the rest. In decode the length is the device's; for a longer
query it comes from the host's bound, which is above the length by some
`Lags`. The lanes start with what another layer has left in them.

*MlaBatch, ContextChunks.* `decodes` and `prefills` are the batch, decodes
first. `WorkspaceSize`, `MaxContextChunk`, `PaddedLen`, `Toks` and the others
are the builder's arithmetic. `RunNewTokens`, `GatherChunk`, `Exchange`,
`AttendChunk` and `MergeContext` are the steps of `forward_mha` and of the two
`_compute_prefill_context` methods; `ReorgFits` and `ChunkFits` are their
assertions, and where one is not met the layer ends in "failed" and never
finishes. A record is a pair (request, position). What a rank's share has
behind its cached tokens is what the cache has there: this step's tokens, or
nothing of the request. A result is the sequence of keys that went into it and
the layout of its rows, dense or padded; a merge of two results with different
layouts yields nothing.

*MqaPaths.* Memory has four regions: the query workspace, the dense output,
scratch, and anything freshly allocated. A cell says what it was made from:
which row and head, which ranks' keys how often, which heads' weights. A reader
of another kind of content, or of a cell nobody wrote, gets `Garbage`, and so
does whatever is computed from it. `Paths` are the configuration's switches;
`CkvUsed`, `UseA2a`, `UseB12x`, `ProjectBefore`, `WorkspaceGather` and
`DecodeKernel` are the choices the layer and the backend derive from them, each
on its own. `PackChunk`, `ExchangeChunk` and `SpreadChunk` are one turn of
`dcp_query_all_gather_workspace`. `BoundReaches` is the bound the metadata
builder gives a dense layer's decode kernels. Where the LSE of a partial result
is kept, and how rows without a key are made harmless, is abstracted.

*MlaLayer.* The ranks are in lockstep: they share nothing but the collectives,
which all call at the same points. (That they do is `CallsMatch` of
`CkvGather`.) `EvenGeometry` says that a page holds a run for every rank, and
`LayerFinishes` promises the end of a layer only with it. The image's model has sparse layers; the expanded prefill path
is the common code of the replaced file, and runs for dense ones.

*ImageBuild.* A place is a text that a patcher rewrites; its condition says
what the patcher finds there. Each patcher is one action with its own manner:
`PatchGuards` keeps what is done and refuses what it does not know, `PatchDcp`
passes over what it does not find, `PatchMlaStore` marks the file whatever
happened, `AllOrNothing` is `replace_once`, `PatchRestore` undoes older versions
and has a last test of its own. `Rerun`, `Validate`, `CheckBase`, `Overlay` and
`ValidateOverlay` are the remaining lines of the Dockerfile.

*ServerStart.* One action per command of the shell between which something
else can happen; `Announce` and `DaemonDies` are the daemon's. `Begin` starts the
daemon and `SetTrap` sets the trap, so a signal can come between them. Any number of
signals may come. Before the trap is set a signal kills the shell (`Untrapped`), as
`docker-compose.yml:16` puts an init in front of it; as PID 1 the shell would
ignore it, which is a step not taken. With the trap a signal runs `cleanup`
and ends a `wait`, nothing else, as the trap does not exit.

*WeightLoad.* `Open`, `Read` and `EndPass` are the iterator;
`InstantRaises(memory)` is an exception, of memory or not, at any point, and
`InstantAborts` is a native thread that takes the process down.

*CacheReuse.* The tool's program is a sequence of requests with what it waits
for after each. A completion is `Lookup` (which takes the locks), `LoadChunks`
per rank (which gives one back), and `Complete`; its stores are then accepted
and written by the server in any order and at any pace. Whether the server's
total counts objects still being written is not known from here, so both are
cases. `KvWorld`, `KvRank`, `Storing` and `ExtraCount` are the patched functions,
or the original ones if the image has not got the patch. `Preempt` is vLLM's: a
request that is computing loses its blocks and is looked up and loaded a second time, or
is computed without the cache server; its counters are those of its first lookup.
A replay that was preempted is one of the failures of `MatrixHolds`, with a wrong
output, a GPU hit and a part that was not restored.

*Deployment.* The parts run one after the other as far as they must and
together where they can: weights are read while the daemon lives or dies, a
signal may come at any time before the tool starts. `ShellRuns` starts a
container of the image that was built, so the `CacheReuse` of a deployment has
exactly the replacements in `image`.

Operators that a comment calls "mutant" or "variant" are broken versions of
the next definition; substituting one must violate the property named with it
in `PROJECT.json`. No behaviour of the specifications uses them.

## 3. Runs

| Run (configuration) | Bounds | Shows |
|---|---|---|
| `kv_safety` (`KVTransfer_safety`) | 2 workers, 2 requests, 2 chunks, symmetric | `FreedQuiet`, `EngineAlive`, `RunsLoaded`, types; the refinement `LeaseKept` |
| `kv_giveup` (`KVTransfer_giveup`) | 2 workers, 1 request, 2 chunks; the server may be lost and return | `FreedByAll`, `EventuallyFreed` |
| `futures` (`StoreFutures`) | 2 requests, 3 stores; the heartbeat may be lost | `EventHeldWhileHealthy`, `NeverRaises`, `ResultOnce`, `EveryResultRead`, types |
| `futures_lost` (`StoreFutures_lost`) | 2 requests, 1 store | **violated**: `EventOutlivesTransfer` |
| `restore` (`PreemptRestore`) | 3 requests, 2 preemptions each, aborts at any time | `OneShot`, `WaitsForAnswer`, `Resumes`, `GuardReopensUnlessAborted`, types |
| `restore_leak` (`PreemptRestore_leak`) | the same | **violated**: `GuardReopens` |
| `gather` (`CkvGather`) | 2 ranks, runs of 2 tokens, 2 layers, 2 batches of up to 2 requests, up to 2 new tokens, 6 tokens a request | `AttendsOwnRecords`, `CallsMatch`, `BatchesFinish`, types |
| `topk_merge` (`TopkMerge`) | 2 ranks, top-2, 2 rows of up to 5 tokens, scores 0 and 1, pages of 2, host bounds off by 0 or 3 | `SelectedOnce`, `RanksAgree`, `NoStaleColumn`, `AllFinish`, types |
| `topk_remap_twice` (`TopkMerge_remap`) | 1 row, scores 0 to 2, deepgemm prefill with the option set | **violated**: `RemapShares` |
| `mla_layer` (`SparseForward`) | groups of 1, 2 and 4, runs of 2, pages of 4, a workspace of 8 tokens, 2 requests; dense layers with any two of six cached lengths up to 11 or with decodes up to 14, sparse layers with 1 or 3 heads on all 96 configurations; on one of them a row of 2 tiles of 2 lanes and 3 slots is remapped | `EveryKeyOnce`, `HeadsRight`, `PrefixExact`, `LayerFinishes`, types |
| `deploy` (`Deployment`) | 234 bases; 3 tensors; 2 polls, any number of signals; 2 contexts of 2 and 1 chunks, 2 chunks on the GPU, up to 2 fills, a preemption of each request; 11 deployments with a tool | `BuiltIsWhole`, `WeightsOnce`, `StartIsSafe`, `LocksReturn`, `PassIsTrue`, `MatrixPasses`, `Finishes`, types |
| `build_unchecked` (`Deployment_unchecked`) | the same | **violated**: `FailsClosed` |

**Why these bounds are enough to be interesting.** Two workers are the least
that can disagree about a request; two chunks the least with one drained and one
in flight, three stores the least with a middle one answered first. Two requests
let a poll walk a snapshot of more than one. Three requests let one hold the
restore slot while two others are preempted, twice, so the one-shot rule is
met. Two layers and two batches let the arena be overwritten by the next layer
and by the next batch; lengths up to 6 cross the arena's capacity in both
directions, so both paths are taken, and runs of two give partial runs, ranks
without a token and padding. With five tokens and top-2 a rank keeps
three and must drop one, while short rows leave lanes empty; two scores make
ties the rule, and two rows are the least that a wrong row offset can mix.
In `mla_layer` the workspace gives chunks of 4 tokens to two prefills with
cached tokens and of 8 to one, so up to three chunks are taken, the last partial
for one prefill and empty for the other. Scratch takes the queries of fewer rows
than a batch has, so the query gather takes several turns with a shorter last
one; with heads aligned to 3, one head on two ranks is padded and three are not;
thresholds lie inside the range of batch sizes, so that each is passed in
both directions. Two tiles are the least that race for columns, and three slots let
one of them be valid in both tiles and others in neither; the theorems hold for any number of tiles. In `deploy` the bases are the release's own, the one its
patchers have been over, each of them with any one place in any other
condition, and bases some of the marked patchers have been over. A marker is taken to
be written with the whole of its replacement, so a marked place does not vary by
itself. Four ranks in groups of one, two and four, and two ranks, make keys
shared by four, two and one rank; two fills are the least that evict both
contexts and one fill is too few; two polls let the loop run out and not.
Deadlock checking is off
because every system here may stop: the bounds on requests, stores and batches
are used up. That no rank hangs is `BatchesFinish`, a liveness property.

**Fairness.** `KVTransfer` and `StoreFutures`: the engine loop calls
`get_finished` and consumes scheduler output at every step, and a server that
answers completes its copies: weak fairness of polls, submissions, completions
and the scheduler's loops. Nothing obliges a request to finish or a client to
stay. `PreemptRestore`: the scheduler asks again for every waiting request at
each step, and LMCache answers lookups; the code has no timeout of its own.
`CkvGather`: kernels of a stream run and matched transfers complete; the
scheduler need not issue another batch. `TopkMerge`: kernels run and a
collective completes once every rank has entered it. `MlaLayer`: the only
sequence of steps there is goes on. `Deployment`: some step is taken while one
can be, and nothing is assumed of which; so the server may be slow, but not
the whole world, and a wait that nothing ends is ended by its deadline.

**Assumed of the inputs.** `GeometryAssumption` asks only that the sizes are positive.
The code asserts that a chunk can be divided by the size of the group
(`mla_attention.py:2174`), and the comment at lines 2169-2171 takes that for enough. It is
not: with pages and runs of 4 tokens on two ranks, or with the group of four in
`mla_layer`, it holds, yet the ranks' shares of a chunk add up to more than the
chunk and `reorg_kvcache` asserts. Such a layer ends in "failed". `EveryKeyOnce` is
checked and proved with these geometries included; `LayerFinishes` is promised where a
page holds a run for every rank (`EvenGeometry`), as in the shipped configuration.
`PathsAssumption` takes the thresholds in the order their default values have:
a batch short enough for the decode kernel is below the one at which records are
gathered; with `VLLM_B12X_MLA_CKV_GATHER_MIN_TOKENS` below
`VLLM_B12X_MLA_SPEC_DECODE_MAX_Q` it could be given rank-local lengths for gathered
records. `PagesAssumption` of `TopkMerge` (a run does not straddle two pages of its
rank) is vLLM's own condition on the configuration; with pages of 1 token and runs of
4 a rank would keep tokens in pages its request has not got. `ScoresAssumption`
has 0 among the scores because a lane of a reused buffer holds one.
`BasesAssumption` has a base image keep every place in one of the
conditions the patchers tell apart, and a marker only where its replacement is;
`CasesAssumption` has a deployment's group divide its ranks. `Ordered` takes the batch as vLLM orders it: decodes, prefills with
cached tokens, prefills without. In a captured graph projection before the merge
is excluded by its minimum of prefill tokens.

### Findings

1. *Events dropped while a transfer may run* (`futures_lost`).
   `patch_ipc_event_lifetime.py:51-52` says to keep the exporting event alive
   until the receiver finishes; lines 94-95 clear all events as soon as the
   heartbeat fails. The server may be alive and copying. While the heartbeat
   answers the rule is kept (`EventHeldWhileHealthy`).
2. *The restore slot leaks* (`restore_leak`). A request aborted while
   its lookup is pending stays in `_safe_preempt_active`; from then on every
   preempted request that was not tried before takes the skip at
   `patch_preempt_safe_restore.py:54`, and no restore happens until restart.
   Recomputation still works (`Resumes`), and an abort is the only way to lose
   the slot (`GuardReopensUnlessAborted`).
3. *The remap converts twice* (`topk_remap_twice`). With
   `VLLM_DCP_GLOBAL_TOPK` set, the deepgemm prefill path
   (`sparse_attn_indexer.py:1885-1903`) runs `_dcp_global_topk_remap` on the
   result of `_merge_dcp_topk_global`, which is global already. The remap
   expects rank-local positions (its docstring, line 505): it converts again
   and looks up the scores of other tokens. A request of one token is enough:
   a rank ends up with a position past its end. The b12x path, which the image
   ships, calls one of the two only, and decode never remaps.
4. *Patches that do not fail closed* (`build_unchecked`). `STATUS.md:8` says "Patch
   application fails closed when source does not match", and
   `src/patches/README.md:25` calls the patchers fail-closed. Four replacements
   (`Unchecked` in `ImageBuild`) are passed over when their text does not match, no
   later check looks for them, and the image is built without them: the storing
   ranks (`patch_dcp_mla_store.py:58-72`, which marks the file all the same), the
   extra lock count (`patch_dcp_lmcache.py:171`), the clean-up of sessions
   (`patch_preempt_safe_restore.py:259-261`) and the restore in vLLM's own
   connector, of which `main` looks at the other one (lines 276-279). All the others
   do fail closed, which is `BuiltIsWhole`; that an image without the store patch
   passes no matrix is `PassIsTrue`.

Not a run of its own: the comment at `start-v17-lmcache.sh:61-62` says that the shell
is PID 1 and that its trap stops LMCache. Under the compose file an init is
PID 1, and a SIGTERM between the start of the daemon (line 34) and the trap
(line 39) kills the shell with the daemon running, until the container ends.
`StartIsSafe` states what the shell does keep, that case excepted.

## 4. Proofs

`tlapm` checks all of these; there are no assumptions other than the named
ASSUMEs of the modules. Some theorems state what no run checks, because the
others of their module need it or follow from it: `FinishIsTracked`,
`StoresAreDisjoint`, `BuildTypes`, `OneRestoreAtATime`, `FinishedStays` and
`DrainedAnswered`. Every inductive invariant was an invariant of a run of TLC
before it was proved.

**KVTransferProofs.** For any finite non-empty set of workers, any requests and
any number of chunks. `IInv` adds to the checked invariants what makes them
inductive: the server's stores and the adapter's futures are chunks already
submitted and emitted (`InOrder`), a finish notice has been consumed only after
everything before it (`FinishLast`), `finished_stores`, `previously_finished`
and the futures never name the same request inconsistently (`SetsAgree`), an
acknowledgement is final (`AcksFinal`), and nothing of a request follows before
its load (`LoadFirst`). Type correctness alone does not help: that the send
is acknowledged only after the last chunk needs the order of the stream.
`TypeCorrect`, `FinishIsTracked`, `FreedOnlyByAll` and `EngineNeverDies` hold
even when the server may be lost. `FreedIsQuiet`, `RunsOnlyLoaded` and
`ImplementsLease` assume it is not: their extra invariant `Covered` (every copy
in progress is covered by a tracked future) is what `GiveUp` breaks on
purpose. `ImplementsLease` maps initial states to initial states and each step
to a lease step or a stutter.

**CkvLayoutProofs.** For any group size, interleave, page size, lengths and
number of requests: owner and local index determine a token and every local
index is met (`TokenRoundTrip`, `LocalRoundTrip`); the kernel's length test
accepts exactly a request's tokens (`LengthTestIsExact`); slots of different
tokens are different and inside the buffer (`SlotsAreDisjoint`); a slot holds
its token's record if the parts are filled as `cp_gather_cache` and the
all-gather fill them (`SlotHoldsRecord`); a batch within MaxTokens and MaxSeqs
fits the arena (`CapacitySuffices`). The group is assumed to compute
`get_dcp_local_seq_lens` as `LocalLen` says; that function is vLLM's. Sums over
requests are stated by their recurrence (`RunningSum`), and induction over the
requests is by the least counterexample, from the well-foundedness of < on Nat.

**TopkProofs: the remap kernel.** For any finite set of tiles, any width and any slots:
`RemapTypes` (no column outside the row), `PrefixIsExact` and `StoresAreDisjoint` (no tile
stores over a slot another one stored). The
invariant says that reserved ranges lie below the count, are pairwise apart and
together cover everything below it, that a range's written columns hold the
slots of the lanes stored so far and everything else is empty.

**StoreFuturesProofs.** For any requests and number of stores. Futures and events
are two lists per request that the code rewrites separately; the invariant
(`IInv`) says that they name the same stores at every point of a walk
(`InStep`), that a walk holds one request's list in its hands (`OneVisit`, `Walk`:
what was taken out and what is pending are together what the dictionary still
has), that a store is listed once in all (`ListedOnce`), that a listed store is unread
(`Unread`), and that a store being copied is listed while the heartbeat answers
(`Held`). `LengthsAgree` (`NeverRaises`), `ReadOnce` (`ResultOnce`) and `EventHeld`
(`EventHeldWhileHealthy`) are read off it; `DrainedAnswered` adds that a poll names
only requests with nothing left.

**PreemptRestoreProofs.** For any requests and preemptions. `WaitedFor` ties the
active set to the lookups whose answer is awaited, `OneActive` says there is at most
one; with types and `OneShot` that is inductive. `NeverTriedAgain` is `OneShot`,
`PendingIsNoMiss` is `WaitsForAnswer`.

**CkvGatherProofs.** For any group, interleave, arena, layers, batches and any
interleaving of the ranks' streams and of the single transfers. The number of
collectives a rank has issued is a function of where it is in its batch
(`Counted`), because whether a batch gathers (`EligibleIsCommon`) and how far it
pads (`SizesAreCommon`) are computed from the same lengths everywhere; and who left
a collective was heard by everybody (`Heard`). From these two, ranks that wait in
the same collective are at the same place of the same batch (`SamePlace`,
`CollectivesMatch`). A transfer therefore delivers the part of the layer the receiver
is in: the cache has what the layers before wrote (`Stored`), a rank's part is filled
before it is sent (`OwnPart`), what was received is in place (`Arrived`) and the
slots are those of the batch (`Remapped`), which gives `LayersAttendOwn`. That no
two records want one slot and none falls outside the buffer is
`SlotsAreDisjoint` and `CapacitySuffices` of `CkvLayoutProofs`. The sums over a
batch's requests are folds over sets; that they do not depend on the order in which
the fold picks is proved here (`FoldsAgree`), since nothing in the library says so
without an operator argument.

**TopkProofs: the indexer.** `LocalTopKSuffices` is the argument in the docstring of
`_merge_dcp_topk_global` made precise: a top-K set of the ranks' own top-K sets
is a top-K set of all tokens. It holds for any distribution of the tokens and
any ties; the step that matters (`PassedOverIsWorse`) is that a token its rank
passed over cannot beat a selected one, because the TopK tokens of its rank
that beat it would fill the selection. `RanksAlwaysAgree` proves `RanksAgree`
for any group and rows from the invariant `Agreement`: past the collective the
ranks hold the same candidates, each unpacks and selects by the same function,
and nobody overtakes. It needs no types, only that the state is indexed by
rank. `MergeTypes` is `TypeOK`, with the invariant `TypeInv`: what each buffer holds at
each place of a rank's path (`Buffers`). It rests on three facts that are not
about types: a row of candidates has TopK best places (`BestExists`), a
rank-local position is the number of a token of the row (`KeptTokens`), and the
address a candidate is read from is the one it was sent to (`CandidateAddress`).
`ColumnsAreCurrent` is `NoStaleColumn`: a rank's share of a request never fills more
pages than the request was given (`ShareFitsPages`).
`EachAttendedOnce` is `SelectedOnce`, from the indexer's first kernel to the slots
of the attention. Its invariant `Exact` says at each place of a rank's path what the
lanes there name: first the best of the rank's own tokens, each once and with its
score (`Picked`, `Priced`: every own token is in a shown column, `ShownSuffices`, and
within the logits, `FirstHasMost`), then those of all ranks side by side (`Offered`),
and after the selection the best of the row. `SelectPicks` is where
`LocalTopKSuffices` enters; padding, which scores below every token, fills a
selection only when tokens have run out (`BestAreTokens`). `Served` says
that the hand-over happens once and rightly: no two lanes have one token and all
of a rank's are within its length (`OwnFits`), so a bound that is not below the
length cuts nothing off (`NothingCutOff`); a slot leads back to its token
(`SlotRoundTrip`); and the ranks' parts make up the row's tokens, because all ranks
agree on them. That the bound is none too low is `LagsAssumption`, vLLM's promise;
of what deepgemm's remap leaves (`Remapped`) nothing is handed over, and the theorem
says nothing: see the finding on `RemapShares`.

**MlaLayerProofs: the absorbed kernels.** `HeadsAreRight` is `HeadsRight` for any
group, number of heads, batch and configuration. The invariant `MqaInv` says stage by
stage what each region of memory holds: the query of every row and head (`Spread`,
with `Packed`, `Exchanged` and `Brought` inside a turn of the workspace gather), then
the query the kernel reads (`Loaded`), each rank's part of the result (`Partial`),
what the merge is given (`Mergeable`) and what comes out of it (`Merged`). That a
region is not overwritten while it is still read is what the stages buy, and where
each cell lies is arithmetic: a packed row has one place (`PackedPlace`), and the
rows of a turn fit. `LayerTypes` is `TypeOK`.

**MlaLayerProofs: the cached tokens.** `EachKeyIsAttendedOnce` is `EveryKeyOnce`
for any group, run, page, workspace and batch. The invariant `KeysInv` follows a
chunk: the result so far has each token of the chunks before once (`Merging`), the
workspace has a rank's own rows before the exchange (`Exchanging`) and every
rank's after it (`Attending`), and behind the last chunk nothing of the context is
missing (`Through`). Three arguments carry a step. A token has one place in the deal and every
place a token (`OnePlace`, `SomePlace`), and as a chunk is whole rounds, the ranks' shares of
it are its tokens (`SharesAreChunk`). A row of the workspace belongs to one prefill, by the
cumulative sums (`FindsPart`, `PaddedSums`), which are recursive functions of the
position (`CuSum`), as `torch.cumsum` is. And sequences of different tokens laid
end to end have each once (`FlattenOnce`). Where the code asserts (`ReorgFits`,
`ChunkFits`), the theorem speaks of a layer that goes on; without a group there is no
assertion, and that the rows fit is proved (`ChunkFitsRows`). Nothing is used of the
geometry but that the sizes are positive. Where a page does not hold whole rounds, the
ranks' shares of a chunk may be more than the chunk: then the assertion of
`reorg_kvcache` fails on the first chunk such a request has, so a layer that is past
it had shares that agree with their chunks, and the argument is the one above.

**DeploymentProofs.** The theorems speak of `DeploySpec`, so each holds of its part
under everything the others do. *Build:* `BuildInv` follows the Dockerfile line by
line: the markers tell the truth until the last line (`MarkersTrue`) and everything
a line was to achieve is achieved after it (`Progress`), for any base
`BasesAssumption` allows. *Weights:* `LoadInv`, with every tensor unread until a
reader is chosen. *Start-up:* `StartInv`, with the polls counted (`Polls`) and the
order of daemon, readiness and vLLM (`Order`), for any number of signals at any
time before a tool begins; `StartSafe` admits the one way to leave a daemon, a signal
before the trap. *Locks:* the ranks of a key are
counted, for any number of ranks and any group that divides it (`KeyCount`,
`ExtraIsOthers`), and a lookup takes as many locks as they give back (`LockInv`).
*Verdict:* what the server has written (`StoreInv`), where the tool is in its program
(`ProgramInv`) and what a counted hit says of it (`HitInv`, `VerdictInv`) give
`PassTellsTruth`. *Types:* `DeployTypes` rests on what an eviction leaves
(`OthersAre`, `KeepIs`: the blocks at the end of the queue, at their distances from
its end), on every lookup taking a lock for each rank of a key, whatever count the
image has (`LocksCover`), and on a store being accepted before any of it is readable
(`TypesInv`; TLC checks it on the `deploy` instance too). *Passing:* `MatrixIsFair`
follows the matrix from request to request with `MatrixInv` (TLC finds no violation of it on the
`deploy` instance either, nor on one with fills of two chunks and a half). What is submitted is known
exactly -- the prompts asked so far, each under every key somebody stores under -- and
with it what is expected of it (`SentInv`); the two counts are folds over sets of
stores, so a count of finished objects that reaches them says that each object is
finished (`ObjectsBelow`), and what was waited for is whole (`WholeInv`). Each fill
moves the contexts' blocks towards eviction by its own chunks, until none is left, and
a replay puts back its own context only (`Moved`, `FlushInv`); so a replay finds
nothing on the GPU and everything in the cache, and with every key stored the shards
are the ranks' own (`RightInv`). A preempted request is looked up again while it is
not on the GPU and may load once more; its hits are those of its first lookup and its
output stays as right as it was (`Told`, `Used`), so the only failure left is that
a replay was preempted (`ReplayPreempted`). The second half of `MatrixPasses` supposes fills of
whole chunks, as the defaults are (238080 tokens in chunks of 512): `expected_objects` rounds up, and
of a last chunk that is not full nothing is stored, so with another number the waits
would run into their deadlines.

**Only model-checked.** All liveness, which is out of the prover's reach: `Finishes`,
`AllFinish`, `Resumes` and their like. Every invariant and every action property that a
passing run checks has a theorem.

## 5. Not modelled

Not modelled, because what decides it is not in the repository:

- *Session retention at run time.* The patch shows that a session's clock is
  restarted and that `cleanup_expired()` is called; which sessions expire is
  LMCache's code.
- *Preemption of a request whose chunks are being stored.* Whether the blocks
  are lent again at once is vLLM's scheduler.
- *Pipeline stages.* `kv_rank` is the rank modulo the size of the group, so ranks of
  different stages would share keys; the image is run with one stage.
- *LMCache chunks shorter than a block of the group.* The patch prints a warning;
  what LMCache does then is its own code. `CacheReuse` counts whole chunks.
- *Tensor-parallel sizes of the workspace path.* Its contract
  (`b12x_mla_sparse.py:1277-1311`) raises for a pair of tensor- and context-parallel
  sizes that is not in its list, and in a captured graph. `MqaPaths` has the context-parallel
  group only: a case that takes the workspace path is taken to be one of the list,
  and the other conditions of the contract are its geometry's. So `LayerFinishes`
  says nothing of a pair that is refused.
- *More than one preemption of a request, or of a request being looked up.* `Preempt` is
  bounded to one per request, after its loads; what a preemption does to a pending
  lookup is `PreemptRestore`.
- *Signals while a tool runs.* They end the server under the tool, which then reports
  an error of its connection.
- *Growth of the shared workspaces.* Layers register one size each, the same for all
  of a configuration; the registry is met only while the model is built.

Not modelled, because it has no state a property is about: prompts, timings and
the arithmetic of the reports; digests of single files; weight preparation,
quantisation and other vendors' kernels; kernel planning, warm-up and profiling.

Left out for good: tensor contents and numerics (no state to check), CUDA graph
capture, logging, benchmark clients, packaging scripts and documents. Code that
is not in the repository (vLLM's scheduler, LMCache's server, NCCL) is modelled
from how the patches and the overlay use it and marked external in
`PROJECT.json`.
