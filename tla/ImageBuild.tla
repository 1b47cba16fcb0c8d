----------------------------- MODULE ImageBuild -----------------------------
(***************************************************************************)
(* The build of the image: patchers that rewrite installed sources, a      *)
(* second run of one of them, checks, the overlay of three files, one more *)
(* patcher and its checks.  A patcher looks for the text it replaces; what *)
(* it does when the text is not as expected differs from one to the next.  *)
(*                                                                         *)
(* The sources are those of the base image, which is an argument of the    *)
(* build.  Every place a patcher rewrites is in one of these conditions:   *)
(*   "original"  the text is there as often as expected                    *)
(*   "patched"   the replacement is there                                  *)
(*   "changed"   the definition is there, the exact text is not            *)
(*   "absent"    neither is there                                          *)
(*   "old"       an earlier version of the replacement is there            *)
(*   "older"     an even earlier one, which only a backup can undo         *)
(***************************************************************************)
EXTENDS FiniteSets, Naturals, Sequences

CONSTANT Bases       \* the base images to build on

VARIABLES place,     \* condition of every place
          marked,    \* markers that patchers leave besides their replacement
          overlaid,  \* per copy of the overlaid sources: "base", "other", "overlay"
          line,      \* the step of the build
          image      \* the replacements that are in the image, or NoImage

buildVars == <<place, marked, overlaid, line, image>>

Connectors == {"lmcache", "vllm"}

Guards == {"send_guard", "recv_guard"}
Ranks(c) == IF c = "lmcache" THEN "lmcache_ranks" ELSE "vllm_ranks"
AdapterBlock(c) == IF c = "lmcache" THEN "lmcache_adapter_block" ELSE "vllm_adapter_block"
ConnectorBlock(c) ==
  IF c = "lmcache" THEN "lmcache_connector_block" ELSE "vllm_connector_block"
Restore(c) == IF c = "lmcache" THEN "lmcache_restore" ELSE "vllm_restore"
EventEdits == {"event_import", "event_fields", "event_pops"}
ChunkEdits == {"chunk_fields", "chunk_submit", "chunk_poll"}
LauncherEdits == {"allocator", "cache_bytes", "lmcache_arguments"}
EagerEdits == {"eager_variable", "eager_argument"}

Places ==
  Guards \cup EventEdits \cup ChunkEdits \cup LauncherEdits \cup EagerEdits
    \cup {Ranks(c) : c \in Connectors} \cup {AdapterBlock(c) : c \in Connectors}
    \cup {ConnectorBlock(c) : c \in Connectors} \cup {Restore(c) : c \in Connectors}
    \cup {"extra_count", "mla_store", "retain", "cleanup", "weights"}

Conditions == {"original", "patched", "changed", "absent", "old", "older"}

Markers == {"mla_store", "events", "chunks", "launcher", "eager"}
Copies == {"site", "src"}
NoImage == {"not_built"}

\* What can be known of a base: a marker is written together with the whole
\* replacement, so a marked place is not changed by itself.  "base" stands for
\* the files the overlay was made from, "other" for any other ones.
ASSUME BasesAssumption ==
  \A b \in Bases :
    /\ b.place \in [Places -> Conditions]
    /\ b.marked \subseteq Markers
    /\ b.overlaid \in [Copies -> {"base", "other"}]
    /\ "events" \in b.marked => \A p \in EventEdits : b.place[p] = "patched"
    /\ "chunks" \in b.marked => \A p \in ChunkEdits : b.place[p] = "patched"
    /\ "launcher" \in b.marked => \A p \in LauncherEdits : b.place[p] = "patched"
    /\ "eager" \in b.marked => \A p \in EagerEdits : b.place[p] = "patched"

Lines ==
  <<"guards", "dcp", "mla_store", "events", "chunks", "restore", "launcher", "weights",
    "dcp_again", "validate", "base_digests", "overlay", "eager", "validate_overlay",
    "ship">>

BuildTypeOK ==
  /\ place \in [Places -> Conditions]
  /\ marked \subseteq Markers
  /\ overlaid \in [Copies -> {"base", "other", "overlay"}]
  /\ line \in {Lines[i] : i \in DOMAIN Lines} \cup {"shipped", "failed"}
  /\ image = NoImage \/ image \subseteq Places

BuildInit ==
  /\ \E base \in Bases :
       /\ place = base.place
       /\ marked = base.marked
       /\ overlaid = base.overlaid
  /\ line = Lines[1]
  /\ image = NoImage

Following(l) == Lines[1 + CHOOSE i \in DOMAIN Lines : Lines[i] = l]

\* A step that goes through, and one that stops the build.
Proceed == line' = Following(line)
Stop == line' = "failed" /\ UNCHANGED <<place, marked>>

\* Places with their replacement put in.
With(edits) == [p \in Places |-> IF p \in edits THEN "patched" ELSE place[p]]

AllOriginal(edits) == \A p \in edits : place[p] = "original"

-----------------------------------------------------------------------------
(***************************************************************************)
(* The patchers.                                                           *)
(***************************************************************************)

\* Each guard by itself: kept if it is there, refused if its text is not.
PatchGuards ==
  /\ line = "guards"
  /\ IF \A g \in Guards : place[g] \in {"original", "patched"}
     THEN place' = With(Guards) /\ Proceed /\ UNCHANGED marked
     ELSE Stop
  /\ UNCHANGED <<overlaid, image>>

\* A function whose text is not found is passed over.
ReplaceIfFound(p) == IF place[p] = "original" THEN {p} ELSE {}

\* patch_vllm_block_size: both or neither may be there already; of the two
\* texts one is enough to go on.
BlocksDone(c) == place[AdapterBlock(c)] = "patched" /\ place[ConnectorBlock(c)] = "patched"

BlocksPartial(c) ==
  /\ ~BlocksDone(c)
  /\ \/ place[AdapterBlock(c)] = "patched"
     \/ place[ConnectorBlock(c)] = "patched"

BlocksFail(c) ==
  \/ BlocksPartial(c)
  \/ /\ ~BlocksDone(c)
     /\ place[AdapterBlock(c)] # "original"
     /\ place[ConnectorBlock(c)] # "original"

BlockEdits(c) == ReplaceIfFound(AdapterBlock(c)) \cup ReplaceIfFound(ConnectorBlock(c))

RanksEdit(c) == ReplaceIfFound(Ranks(c))
ExtraCountEdit == ReplaceIfFound("extra_count")

\* main: the ranks in both connectors, the blocks in both, the extra count.
DcpEdits == (UNION {RanksEdit(c) \cup BlockEdits(c) : c \in Connectors}) \cup ExtraCountEdit

PatchDcp ==
  /\ line = "dcp"
  /\ IF \E c \in Connectors : BlocksFail(c)
     THEN Stop
     ELSE place' = With(DcpEdits) /\ Proceed /\ UNCHANGED marked
  /\ UNCHANGED <<overlaid, image>>

\* A text that is not exact is only warned about, and marked all the same.
PatchMlaStore ==
  /\ line = "mla_store"
  /\ IF "mla_store" \in marked
     THEN Proceed /\ UNCHANGED <<place, marked>>
     ELSE IF place["mla_store"] = "absent"
     THEN Stop
     ELSE /\ place' = With(ReplaceIfFound("mla_store"))
          /\ marked' = marked \cup {"mla_store"}
          /\ Proceed
  /\ UNCHANGED <<overlaid, image>>

\* Patchers that want every text exactly once and write the file at the end.
AllOrNothing(marker, edits) ==
  IF marker \in marked
  THEN Proceed /\ UNCHANGED <<place, marked>>
  ELSE IF AllOriginal(edits)
  THEN place' = With(edits) /\ marked' = marked \cup {marker} /\ Proceed
  ELSE Stop

PatchEvents ==
  /\ line = "events"
  /\ AllOrNothing("events", EventEdits)
  /\ UNCHANGED <<overlaid, image>>

EventsFirst == "events" \in marked

PatchChunks ==
  /\ line = "chunks"
  /\ IF "chunks" \notin marked /\ ~EventsFirst
     THEN Stop
     ELSE AllOrNothing("chunks", ChunkEdits)
  /\ UNCHANGED <<overlaid, image>>

PatchLauncher ==
  /\ line = "launcher"
  /\ AllOrNothing("launcher", LauncherEdits)
  /\ UNCHANGED <<overlaid, image>>

PatchWeights ==
  /\ line = "weights"
  /\ IF place["weights"] \in {"original", "patched"}
     THEN place' = With({"weights"}) /\ Proceed /\ UNCHANGED marked
     ELSE Stop
  /\ UNCHANGED <<overlaid, image>>

\* patch_connector: an earlier block and the upstream text are replaced; an
\* even earlier one needs its backup, which a fresh image does not have.
RestoreEdits == {Restore(c) : c \in {d \in Connectors : place[Restore(d)] \in {"original", "old"}}}

\* patch_session_manager and patch_lookup_cleanup
RetainEdit == ReplaceIfFound("retain")
CleanupEdit == ReplaceIfFound("cleanup")

\* A variant of the last test that looks at nothing.
RestoreVerifiedNever(after) == TRUE

\* The last test: the connector in use and the session manager.
RestoreVerified(after) ==
  /\ after[Restore("lmcache")] = "patched"
  /\ after["retain"] = "patched"

PatchRestore ==
  /\ line = "restore"
  /\ LET after == With(RestoreEdits \cup RetainEdit \cup CleanupEdit)
     IN  IF RestoreVerified(after)
         THEN place' = after /\ Proceed /\ UNCHANGED marked
         ELSE Stop
  /\ UNCHANGED <<overlaid, image>>

-----------------------------------------------------------------------------
(***************************************************************************)
(* The second run and the checks.                                          *)
(***************************************************************************)

\* The second run must leave the digests of its files as they are.
Rerun ==
  /\ line = "dcp_again"
  /\ IF \E c \in Connectors : BlocksFail(c)
     THEN Stop
     ELSE IF With(DcpEdits) # place
     THEN Stop
     ELSE place' = With(DcpEdits) /\ Proceed /\ UNCHANGED marked
  /\ UNCHANGED <<overlaid, image>>

\* The texts validate_sources wants, in both connectors, the adapter, the
\* scheduler, the launcher and the loader.  Of the block sizes any will do.
SourcesValid ==
  /\ \A c \in Connectors :
       /\ place[Ranks(c)] = "patched"
       /\ \/ place[AdapterBlock(c)] = "patched"
          \/ place[ConnectorBlock(c)] = "patched"
  /\ {"mla_store", "events", "chunks", "launcher"} \subseteq marked
  /\ \A p \in Guards \cup ChunkEdits \cup {"event_fields"} : place[p] = "patched"
  /\ \A p \in {"allocator", "lmcache_arguments", "weights"} : place[p] = "patched"

\* Both connectors are run on every rank of the tested group.
MappingValid == \A c \in Connectors : place[Ranks(c)] = "patched"

\* The adapter's own poll is driven through chunks that complete in disorder.
TrackingValid == place["chunk_poll"] = "patched"

Valid == SourcesValid /\ MappingValid /\ TrackingValid

Validate ==
  /\ line = "validate"
  /\ IF Valid THEN Proceed /\ UNCHANGED <<place, marked>> ELSE Stop
  /\ UNCHANGED <<overlaid, image>>

\* The three files the overlay replaces must be those it was made from.
CheckBase ==
  /\ line = "base_digests"
  /\ IF overlaid["site"] = "base" THEN Proceed /\ UNCHANGED <<place, marked>> ELSE Stop
  /\ UNCHANGED <<overlaid, image>>

Overlay ==
  /\ line = "overlay"
  /\ overlaid' = [c \in Copies |-> "overlay"]
  /\ Proceed
  /\ UNCHANGED <<place, marked, image>>

PatchEager ==
  /\ line = "eager"
  /\ AllOrNothing("eager", EagerEdits)
  /\ UNCHANGED <<overlaid, image>>

\* The copies must be equal and have the overlay's texts.
ValidateOverlay ==
  /\ line = "validate_overlay"
  /\ IF overlaid["site"] = overlaid["src"] /\ overlaid["site"] = "overlay"
     THEN Proceed /\ UNCHANGED <<place, marked>>
     ELSE Stop
  /\ UNCHANGED <<overlaid, image>>

\* What the image has, whatever it was made from.
Ship ==
  /\ line = "ship"
  /\ image' = {p \in Places : place[p] = "patched"}
  /\ place' = [p \in Places |-> "absent"]
  /\ marked' = {}
  /\ line' = "shipped"
  /\ UNCHANGED overlaid

BuildNext ==
  \/ PatchGuards \/ PatchDcp \/ PatchMlaStore \/ PatchEvents \/ PatchChunks
  \/ PatchRestore \/ PatchLauncher \/ PatchWeights \/ Rerun
  \/ Validate \/ CheckBase \/ Overlay \/ PatchEager \/ ValidateOverlay \/ Ship

-----------------------------------------------------------------------------
(***************************************************************************)
(* Properties.                                                             *)
(***************************************************************************)

\* Replacements that neither a patcher insists on nor a check looks for.
Unchecked == {"mla_store", "extra_count", "cleanup", Restore("vllm")}

\* A base on which each patcher finds either its texts or its own whole work.
AsOne(edits, done) == \A p \in edits : place[p] = IF done THEN "patched" ELSE "original"

Agreeable ==
  /\ overlaid["site"] # "other"
  /\ \A p \in Places : place[p] \in {"original", "patched"}
  /\ \A c \in Connectors : place[AdapterBlock(c)] = place[ConnectorBlock(c)]
  /\ AsOne({"mla_store"}, "mla_store" \in marked)
  /\ AsOne(EventEdits, "events" \in marked) /\ AsOne(ChunkEdits, "chunks" \in marked)
  /\ AsOne(LauncherEdits, "launcher" \in marked) /\ AsOne(EagerEdits, "eager" \in marked)
  /\ "chunks" \in marked => "events" \in marked

\* An image that is built has every replacement the release relies on, for any
\* condition its base was in; four can be missing without any step of the build
\* noticing.  And a base that is agreeable to each patcher alone is not refused:
\* the order of the patchers, the second run and the checks agree on it.
BuiltIsWhole ==
  /\ image # NoImage => Places \ Unchecked \subseteq image
  /\ line = "failed" => ~Agreeable

\* "Patch application fails closed when source does not match": an image that is
\* built has every replacement.  What the status says of the patchers; those of
\* the unchecked places pass over a text they do not find.
FailsClosed == image # NoImage => Places \subseteq image
=============================================================================
