----------------------------- MODULE CacheReuse -----------------------------
(***************************************************************************)
(* The tools that judge a running server: verify_reuse, benchmark_reuse    *)
(* (the "matrix") and validate_boundary_once send prompts one after the    *)
(* other, watch the cache server's object count and compare outputs and    *)
(* counters.  What they judge is modelled with them: the keys a rank       *)
(* stores and loads under (patch_dcp_lmcache, patch_dcp_mla_store), the    *)
(* locks of a lookup (compute_extra_count) and the stores that the server  *)
(* works off after a completion has ended.  vLLM's prefix cache and the    *)
(* cache server are external.                                              *)
(*                                                                         *)
(* A prompt is its index: first the contexts, then the fills that evict    *)
(* them.  A chunk of a prompt is one object per key rank.                  *)
(***************************************************************************)
EXTENDS FiniteSetsExt, Integers, SequencesExt

CONSTANTS Contexts,    \* tokens of each context, a sequence
          EvictTokens, \* tokens of a fill
          ChunkTokens, \* tokens of a cached chunk
          GpuChunks,   \* chunks that fit in the prefix cache on the GPU
          FourContexts,\* the number of GPU contexts the tools insist on
          MaxFills     \* bound: fills of a tool

ASSUME ReuseAssumption ==
  /\ ChunkTokens \in Nat \ {0} /\ GpuChunks \in Nat /\ FourContexts \in Nat /\ MaxFills \in Nat
  /\ Contexts # <<>> /\ Contexts \in Seq(Nat \ {0})
  /\ \A i \in DOMAIN Contexts : Contexts[i] % ChunkTokens = 0
  /\ EvictTokens \in Nat

VARIABLES case,      \* the deployment and the tool with its arguments
          at,        \* the request of the tool's program
          doing,     \* what the tool is doing
          expected,  \* expected_objects, or the minimum waited for
          results,   \* what each request returned and counted
          verdict,   \* what the tool reports
          resident,  \* chunks on the GPU, the next to evict first
          hit,       \* chunks the request found [local, external]
          loaded,    \* ranks that have loaded the external ones
          right,     \* they all got their own shard
          preempted, \* the request has been preempted
          locks,     \* per key rank: locks on the chunks of the last lookup
          sent,      \* stores submitted: <<prompt, key rank>>
          taken,     \* those the cache server has accepted
          written    \* chunks of each it has made readable

toolVars == <<case, at, doing, expected, results, verdict>>
cacheVars == <<resident, hit, loaded, right, preempted, locks, sent, taken, written>>
reuseVars == <<toolVars, cacheVars>>

-----------------------------------------------------------------------------
(***************************************************************************)
(* Ranks and keys, for the group of tp ranks with dcp of them per copy of  *)
(* the cache.  The pipeline has one stage.                                 *)
(***************************************************************************)

tp == case.tp
dcp == case.dcp
RankIds == 0..(tp - 1)

\* A rank holds the records of its place in the context-parallel group.
Shard(r) == r % dcp

\* extract_world_size_and_kv_rank
KvWorld == IF dcp > 1 THEN dcp ELSE 1

KvRank(r) == IF dcp > 1 THEN r % dcp ELSE r \div tp

KeyRanks == 0..(KvWorld - 1)

\* is_first_rank_of_pp_group
Storing(r) == IF case.mlaStore THEN r < KvWorld ELSE r % tp = 0

\* A variant that counts the looking-up rank only.
ExtraCountNone == 0

\* A variant with the count of an unsharded cache.
ExtraCountUnsharded == IF tp > KvWorld THEN tp - 1 ELSE 0

\* compute_extra_count
ExtraCount ==
  IF tp > KvWorld
  THEN IF case.extraCount THEN (tp \div KvWorld) - 1 ELSE tp - 1
  ELSE 0

Writers(k) == {r \in RankIds : Storing(r) /\ KvRank(r) = k}

-----------------------------------------------------------------------------
(***************************************************************************)
(* Programs: the requests of a tool, with what it waits for after each.    *)
(***************************************************************************)

Request(kind, prompt, await) == [kind |-> kind, prompt |-> prompt, await |-> await]

Fills(await) ==
  [i \in 1..case.fills |-> Request("fill", Len(Contexts) + i, await)]

MatrixContexts ==
  [j \in 1..(2 * Len(Contexts)) |->
    IF j % 2 = 1 THEN Request("cold", (j + 1) \div 2, "all")
                 ELSE Request("local", j \div 2, "nothing")]

MatrixReplays == [i \in DOMAIN Contexts |-> Request("external", i, "nothing")]

VerifyProgram ==
  <<Request("cold", 1, "one")>> \o Fills("nothing") \o <<Request("replay", 1, "nothing")>>

BoundaryProgram == <<Request("cold", 1, "drain")>>

Program ==
  CASE case.tool = "matrix" -> MatrixContexts \o Fills("all") \o MatrixReplays
    [] case.tool = "verify" -> VerifyProgram
    [] case.tool = "boundary" -> BoundaryProgram

Prompts == 1..(Len(Contexts) + MaxFills)

\* Every store there can be, whatever the deployment.
AllStores == Prompts \X (0..(FourContexts - 1))

Tokens(p) == IF p <= Len(Contexts) THEN Contexts[p] ELSE EvictTokens
Size(p) == Tokens(p) \div ChunkTokens
Now == Program[at]

Objects(p) == ((Tokens(p) + ChunkTokens - 1) \div ChunkTokens)

ExpectedOf(p) == Objects(p) * KvWorld

-----------------------------------------------------------------------------
ReuseTypeOK ==
  /\ at \in 1..Len(Program)
  /\ doing \in {"start", "asking", "loading", "computing", "waiting", "judging", "done"}
  /\ expected \in Nat
  /\ Len(results) <= Len(Program)
  /\ verdict \in {"none", "pass", "fail", "error"}
  /\ \A b \in ToSet(resident) : b[1] \in Prompts /\ b[2] \in 1..Size(b[1])
  /\ Len(resident) <= GpuChunks
  /\ hit \in [local : 0..GpuChunks, external : Nat]
  /\ loaded \subseteq RankIds /\ right \in BOOLEAN /\ preempted \in BOOLEAN
  /\ locks \in [0..(FourContexts - 1) -> Nat]
  /\ taken \subseteq sent /\ sent \subseteq AllStores
  /\ written \in [AllStores -> Nat]
  /\ \A s \in AllStores : written[s] <= Size(s[1]) /\ (written[s] > 0 => s \in taken)

ReuseInit ==
  /\ at = 1 /\ doing = "start" /\ expected = 0 /\ results = <<>> /\ verdict = "none"
  /\ resident = <<>> /\ hit = [local |-> 0, external |-> 0]
  /\ loaded = {} /\ right = TRUE /\ preempted = FALSE
  /\ locks = [k \in 0..(FourContexts - 1) |-> 0]
  /\ sent = {} /\ taken = {} /\ written = [s \in AllStores |-> 0]

Report(v) == verdict' = v /\ doing' = "done"

-----------------------------------------------------------------------------
(***************************************************************************)
(* The cache server.                                                       *)
(***************************************************************************)

TakeStore(s) ==
  /\ s \in sent \ taken
  /\ taken' = taken \cup {s}
  /\ UNCHANGED <<toolVars, resident, hit, loaded, right, preempted, locks, sent, written>>

WriteChunk(s) ==
  /\ s \in taken /\ written[s] < Size(s[1])
  /\ written' = [written EXCEPT ![s] = @ + 1]
  /\ UNCHANGED <<toolVars, resident, hit, loaded, right, preempted, locks, sent, taken>>

\* A lookup finds the chunks that every key rank's object is readable of.
Found(p) == Min({written[<<p, k>>] : k \in KeyRanks})

\* total_object_count; whether it has the objects still being written is not
\* known from here.
TotalObjects ==
  MapThenSumSet(LAMBDA s : IF case.countsWriting /\ s \in taken THEN Size(s[1]) ELSE written[s],
                sent)

-----------------------------------------------------------------------------
(***************************************************************************)
(* A completion.                                                           *)
(***************************************************************************)

BlocksOf(p) == [i \in 1..Size(p) |-> <<p, i>>]
LocalPrefix(p) ==
  Max({n \in 0..Size(p) : \A i \in 1..n : Contains(resident, <<p, i>>)})

\* The scheduler's lookup.  It locks what the ranks will load.  The counters
\* move at a request's first lookup only, and what a preempted request said
\* before stays said.
Lookup ==
  /\ doing = "asking"
  /\ LET local == LocalPrefix(Now.prompt)
         external == IF Found(Now.prompt) > local THEN Found(Now.prompt) - local ELSE 0
     IN  /\ hit' = IF preempted THEN hit ELSE [local |-> local, external |-> external]
         /\ IF external > 0
            THEN /\ doing' = "loading"
                 /\ locks' = [k \in DOMAIN locks |-> IF k \in KeyRanks THEN locks[k] + 1 + ExtraCount ELSE locks[k]]
            ELSE doing' = "computing" /\ UNCHANGED locks
  /\ right' = (preempted => right) /\ loaded' = {}
  /\ UNCHANGED <<case, at, expected, results, verdict, resident, preempted, sent, taken, written>>

\* A rank loads its key's objects and gives one lock of them back.
LoadChunks(r) ==
  /\ doing = "loading" /\ r \in RankIds \ loaded
  /\ loaded' = loaded \cup {r}
  /\ right' = (right /\ {Shard(w) : w \in Writers(KvRank(r))} = {Shard(r)})
  /\ locks' = [locks EXCEPT ![KvRank(r)] = @ - 1]
  /\ doing' = IF loaded' = RankIds THEN "computing" ELSE "loading"
  /\ UNCHANGED <<case, at, expected, results, verdict, resident, hit, preempted, sent, taken, written>>

\* vLLM takes the request's blocks away: it is looked up again, or is computed
\* again without the cache server.  Bound: a request is preempted once.
Preempt ==
  /\ doing = "computing" /\ ~preempted
  /\ preempted' = TRUE
  /\ doing' \in {"asking", "computing"}
  /\ UNCHANGED <<case, at, expected, results, verdict, resident, hit, loaded, right, locks,
                 sent, taken, written>>

\* The completion ends: its blocks stay on the GPU, last chunk first to go,
\* and the storing ranks have submitted what was not there.
Stores(p) == {<<p, k>> : k \in {j \in KeyRanks : Writers(j) # {}}}

\* What is on the GPU of the other prompts, in its order.
Others(p) ==
  LET others[n \in 0..Len(resident)] ==
        IF n = 0 THEN <<>>
        ELSE IF resident[n][1] = p THEN others[n - 1]
        ELSE Append(others[n - 1], resident[n])
  IN  others[Len(resident)]

Keep(p) ==
  LET all == Others(p) \o Reverse(BlocksOf(p))
  IN  IF Len(all) > GpuChunks THEN SubSeq(all, Len(all) - GpuChunks + 1, Len(all)) ELSE all

\* What a phase reports: the hits and, of a matrix's replay, the preemptions its
\* counters moved by, and its output, which is right unless a shard it was
\* computed from was not the rank's own.
Outcome == [prompt |-> Now.prompt, kind |-> Now.kind, right |-> right,
            local |-> hit.local, external |-> hit.external,
            preempted |-> Now.kind = "external" /\ preempted]

Complete ==
  /\ doing = "computing"
  /\ resident' = Keep(Now.prompt)
  /\ sent' = sent \cup Stores(Now.prompt)
  /\ results' = Append(results, Outcome)
  /\ expected' = CASE Now.await = "all" -> expected + ExpectedOf(Now.prompt)
                   [] Now.await = "one" -> 1
                   [] OTHER -> expected
  /\ doing' = "waiting" /\ preempted' = FALSE
  /\ UNCHANGED <<case, at, verdict, hit, loaded, right, locks, taken, written>>

-----------------------------------------------------------------------------
(***************************************************************************)
(* The tools.                                                              *)
(***************************************************************************)

\* Two of the tools insist on four contexts registered at the server.
Registered == case.tool # "boundary" => tp = FourContexts

\* clear-cache and status; a server whose daemon is gone answers neither.
Begun(reachable) ==
  /\ doing = "start"
  /\ IF reachable /\ Registered
     THEN doing' = "asking" /\ UNCHANGED verdict
     ELSE Report("error")
  /\ UNCHANGED <<case, at, expected, results, cacheVars>>

\* wait_for_cache_stores_drained sees what the server knows of.
Drained == \A s \in taken : written[s] = Size(s[1])

\* A variant that is off by one.
EnoughButOne == TotalObjects + 1 >= expected

\* wait_for_objects
Enough == TotalObjects >= expected

Awaited ==
  CASE Now.await = "nothing" -> TRUE
    [] Now.await = "drain" -> Drained
    [] OTHER -> Enough

GoOn ==
  /\ doing = "waiting" /\ Awaited
  /\ IF at < Len(Program)
     THEN at' = at + 1 /\ doing' = "asking"
     ELSE at' = at /\ doing' = "judging"
  /\ UNCHANGED <<case, expected, results, verdict, cacheVars>>

\* A variant that waits for ever.
NoDeadlinePasses == FALSE

\* Any wait can run into its deadline.
DeadlinePasses == TRUE

GiveUp ==
  /\ doing = "waiting" /\ ~Awaited /\ DeadlinePasses
  /\ Report("error")
  /\ UNCHANGED <<case, at, expected, results, cacheVars>>

Of(kind) == {i \in DOMAIN results : results[i].kind = kind}

\* Outputs of one context at temperature 0; those of the fills are not compared.
OutputsMatch == \A i \in DOMAIN results \ Of("fill") : results[i].right

\* A variant that looks at the outputs only.
RestoredFullyAssumed(i) == TRUE

RestoredFully(i) ==
  /\ results[i].local = 0
  /\ results[i].external * ChunkTokens = Tokens(results[i].prompt)

MatrixHolds ==
  /\ OutputsMatch
  /\ \A i \in Of("external") : RestoredFully(i) /\ ~results[i].preempted

VerifyHolds ==
  OutputsMatch /\ (case.requireHit => \A i \in Of("replay") : results[i].external > 0)

Holds ==
  CASE case.tool = "matrix" -> MatrixHolds
    [] case.tool = "verify" -> VerifyHolds
    [] case.tool = "boundary" -> TRUE

Judge ==
  /\ doing = "judging"
  /\ Report(IF Holds THEN "pass" ELSE "fail")
  /\ UNCHANGED <<case, at, expected, results, cacheVars>>

ReuseStep ==
  \/ Lookup \/ Preempt \/ Complete \/ GoOn \/ GiveUp \/ Judge
  \/ \E r \in RankIds : LoadChunks(r)
  \/ \E s \in sent : TakeStore(s) \/ WriteChunk(s)

-----------------------------------------------------------------------------
(***************************************************************************)
(* Properties.                                                             *)
(***************************************************************************)

\* The ranks that share a key give back exactly the locks their lookup took:
\* none is left between completions, and none is given back too often.
LocksReturn ==
  case.extraCount =>
    \A k \in KeyRanks :
      locks[k] = IF doing = "loading"
                 THEN Cardinality({r \in RankIds \ loaded : KvRank(r) = k})
                 ELSE 0

\* "every context restored fully from host RAM" is only said of a server that
\* has every shard of every context, also when the count that the tool waits
\* for runs ahead of the writes; so an image without the store patch is
\* never passed with more than one shard.
PassIsTrue ==
  verdict = "pass" /\ case.tool = "matrix" =>
    \A p \in DOMAIN Contexts, shard \in {Shard(r) : r \in RankIds} :
      \E k \in KeyRanks :
        /\ written[<<p, k>>] = Size(p)
        /\ \A w \in Writers(k) : Shard(w) = shard

\* With enough fills and a count of finished objects only, the matrix reports a
\* failure of nothing but a replay that was preempted: its waits are long enough
\* that nothing is replayed before it is wholly readable, and a preemption of
\* another request, with the second lookup and load it brings, makes no output
\* differ and no hit be missed.  Nor are they too long: on an image
\* with the store patch, and with fills of whole chunks, the objects it waits for
\* are among those submitted.
MatrixPasses ==
  case.tool = "matrix" =>
    /\ verdict = "fail" =>
         \/ case.countsWriting \/ case.fills * (EvictTokens \div ChunkTokens) < GpuChunks
         \/ \E i \in Of("external") : results[i].preempted
    /\ doing = "waiting" /\ case.mlaStore /\ EvictTokens % ChunkTokens = 0 =>
         expected <= MapThenSumSet(LAMBDA s : Size(s[1]), sent)
=============================================================================
