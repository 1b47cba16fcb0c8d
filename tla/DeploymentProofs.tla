--------------------------- MODULE DeploymentProofs ---------------------------
(***************************************************************************)
(* Proofs about Deployment: for every set of base images, every checkpoint *)
(* and every deployment and tool, what the build, the loading of the       *)
(* weights, the start of the container and the judging of the server keep. *)
(***************************************************************************)
EXTENDS Deployment, FiniteSetTheorems, SequenceTheorems, WellFoundedInduction,
        TLAPS

-------------------------------------------------------------------------------
(* The build of the image. *)

LineNames == {Lines[i] : i \in DOMAIN Lines}

\* The steps of the build in their order.
LEMMA LineElements ==
    /\ DOMAIN Lines = 1..15
    /\ Lines[1] = "guards" /\ Lines[2] = "dcp"
    /\ Lines[3] = "mla_store" /\ Lines[4] = "events"
    /\ Lines[5] = "chunks" /\ Lines[6] = "restore"
    /\ Lines[7] = "launcher" /\ Lines[8] = "weights"
    /\ Lines[9] = "dcp_again" /\ Lines[10] = "validate"
    /\ Lines[11] = "base_digests" /\ Lines[12] = "overlay"
    /\ Lines[13] = "eager" /\ Lines[14] = "validate_overlay"
    /\ Lines[15] = "ship"
BY DEF Lines

LEMMA LineDomain == DOMAIN Lines = 1..15
BY LineElements

LEMMA LineIndices ==
    \A i \in DOMAIN Lines :
        \/ i = 1 \/ i = 2 \/ i = 3 \/ i = 4 \/ i = 5 \/ i = 6 \/ i = 7 \/ i = 8
        \/ i = 9 \/ i = 10 \/ i = 11 \/ i = 12 \/ i = 13 \/ i = 14 \/ i = 15
BY LineDomain

LEMMA LineNamesAre ==
    LineNames = {"guards", "dcp", "mla_store", "events", "chunks", "restore",
                 "launcher", "weights", "dcp_again", "validate",
                 "base_digests", "overlay", "eager", "validate_overlay", "ship"}
<1>1. LineNames = {Lines[i] : i \in DOMAIN Lines} BY DEF LineNames
<1>2. QED BY <1>1, LineIndices, LineElements

\* The step after each step of the build.
LEMMA Followings ==
    /\ Following("guards") = "dcp"
    /\ Following("dcp") = "mla_store"
    /\ Following("mla_store") = "events"
    /\ Following("events") = "chunks"
    /\ Following("chunks") = "restore"
    /\ Following("restore") = "launcher"
    /\ Following("launcher") = "weights"
    /\ Following("weights") = "dcp_again"
    /\ Following("dcp_again") = "validate"
    /\ Following("validate") = "base_digests"
    /\ Following("base_digests") = "overlay"
    /\ Following("overlay") = "eager"
    /\ Following("eager") = "validate_overlay"
    /\ Following("validate_overlay") = "ship"
<1>1. ASSUME NEW k \in 1..14, \A i \in DOMAIN Lines : Lines[i] = Lines[k] => i = k
      PROVE  Following(Lines[k]) = Lines[1 + k]
  <2>1. k \in DOMAIN Lines BY LineElements
  <2>2. (CHOOSE i \in DOMAIN Lines : Lines[i] = Lines[k]) = k BY <1>1, <2>1
  <2>3. QED BY <2>2 DEF Following
<1>2. \A i, k \in DOMAIN Lines : Lines[i] = Lines[k] => i = k
  BY LineIndices, LineElements
<1>3. \A k \in 1..14 : Following(Lines[k]) = Lines[1 + k]
  BY <1>1, <1>2, LineElements
<1>4. QED BY <1>3, LineElements

Patched(edits) == \A p \in edits : place[p] = "patched"

\* The build has gone through every step of the set.
Past(steps) == line \notin steps \cup {"failed", "shipped"}

ToDcp == {"guards", "dcp"}
ToMlaStore == ToDcp \cup {"mla_store"}
ToEvents == ToMlaStore \cup {"events"}
ToChunks == ToEvents \cup {"chunks"}
ToRestore == ToChunks \cup {"restore"}
ToLauncher == ToRestore \cup {"launcher"}
ToWeights == ToLauncher \cup {"weights"}
ToRerun == ToWeights \cup {"dcp_again"}
ToValidate == ToRerun \cup {"validate"}
ToBase == ToValidate \cup {"base_digests"}
ToOverlay == ToBase \cup {"overlay"}
ToEager == ToOverlay \cup {"eager"}

\* Everything patch_dcp_lmcache and patch_vllm_block_size look at.
DcpPlaces ==
    {Ranks(c) : c \in Connectors} \cup {AdapterBlock(c) : c \in Connectors}
      \cup {ConnectorBlock(c) : c \in Connectors} \cup {"extra_count"}

\* A marker speaks for the whole replacement.
MarkersTrue ==
    /\ "events" \in marked => Patched(EventEdits)
    /\ "chunks" \in marked => Patched(ChunkEdits)
    /\ "launcher" \in marked => Patched(LauncherEdits)
    /\ "eager" \in marked => Patched(EagerEdits)

\* What each step has left behind it.
Progress ==
    /\ Past({"guards"}) => Patched(Guards)
    /\ Past(ToDcp) => \A p \in DcpPlaces : place[p] # "original"
    /\ Past(ToMlaStore) => "mla_store" \in marked
    /\ Past(ToEvents) => "events" \in marked
    /\ Past(ToChunks) => "chunks" \in marked
    /\ Past(ToRestore) => Patched({Restore("lmcache"), "retain"})
    /\ Past(ToLauncher) => "launcher" \in marked
    /\ Past(ToWeights) => Patched({"weights"})
    /\ Past(ToRerun) => \A c \in Connectors : BlocksDone(c)
    /\ Past(ToValidate) => Patched({Ranks(c) : c \in Connectors})
    /\ Past(ToOverlay) => \A c \in Copies : overlaid[c] = "overlay"
    /\ Past(ToEager) => "eager" \in marked
    /\ line \in ToOverlay => overlaid["site"] # "overlay"

BuildInv ==
    /\ BuildTypeOK
    /\ line \notin {"failed", "shipped"} => MarkersTrue
    /\ Progress
    /\ image # NoImage => line = "shipped"
    /\ BuiltIsWhole

LEMMA PlaceSets ==
    /\ Guards \subseteq Places /\ EventEdits \subseteq Places
    /\ ChunkEdits \subseteq Places /\ LauncherEdits \subseteq Places
    /\ EagerEdits \subseteq Places /\ DcpPlaces \subseteq Places
    /\ {Restore(c) : c \in Connectors} \subseteq Places
    /\ {"retain", "cleanup", "weights", "mla_store"} \subseteq Places
BY DEF Places, DcpPlaces

LEMMA WithEdits ==
    ASSUME place \in [Places -> Conditions], NEW edits
    PROVE  /\ With(edits) \in [Places -> Conditions]
           /\ \A p \in Places :
                With(edits)[p] = IF p \in edits THEN "patched" ELSE place[p]
BY DEF With, Conditions

\* What the step at this line has to bring about before the build goes on.
Achieves ==
    /\ line = "guards" => Patched(Guards)'
    /\ line = "dcp" => \A p \in DcpPlaces : place'[p] # "original"
    /\ line = "mla_store" => "mla_store" \in marked'
    /\ line = "events" => "events" \in marked'
    /\ line = "chunks" => "chunks" \in marked'
    /\ line = "restore" => Patched({Restore("lmcache"), "retain"})'
    /\ line = "launcher" => "launcher" \in marked'
    /\ line = "weights" => Patched({"weights"})'
    /\ line = "dcp_again" => \A c \in Connectors : BlocksDone(c)
    /\ line = "validate" => Patched({Ranks(c) : c \in Connectors})
    /\ line = "overlay" => \A c \in Copies : overlaid'[c] = "overlay"
    /\ line = "eager" => "eager" \in marked'

\* A step that goes through takes nothing back.
LEMMA GoesOn ==
    ASSUME BuildInv, line \notin {"ship", "failed", "shipped"},
           NEW edits \in SUBSET Places, place' = With(edits),
           marked' \in SUBSET Markers, marked \subseteq marked', MarkersTrue',
           overlaid' \in [Copies -> {"base", "other", "overlay"}],
           line # "overlay" => overlaid' = overlaid,
           Proceed, Achieves, UNCHANGED image
    PROVE  BuildInv'
<1>1. /\ place \in [Places -> Conditions] /\ line \in LineNames \cup {"shipped", "failed"}
      /\ image = NoImage
  BY DEF BuildInv, BuildTypeOK, LineNames
<1>2. /\ place' \in [Places -> Conditions]
      /\ \A p \in Places :
          /\ place[p] = "patched" \/ p \in edits => place'[p] = "patched"
          /\ place[p] # "original" => place'[p] # "original"
  BY <1>1, WithEdits
<1>3. line' = Following(line) BY DEF Proceed
<1>4. /\ line = "guards" => line' = "dcp"
      /\ line = "dcp" => line' = "mla_store"
      /\ line = "mla_store" => line' = "events"
      /\ line = "events" => line' = "chunks"
      /\ line = "chunks" => line' = "restore"
      /\ line = "restore" => line' = "launcher"
      /\ line = "launcher" => line' = "weights"
      /\ line = "weights" => line' = "dcp_again"
      /\ line = "dcp_again" => line' = "validate"
      /\ line = "validate" => line' = "base_digests"
      /\ line = "base_digests" => line' = "overlay"
      /\ line = "overlay" => line' = "eager"
      /\ line = "eager" => line' = "validate_overlay"
      /\ line = "validate_overlay" => line' = "ship"
  BY <1>3, Followings
<1>5. line' \in LineNames
  BY <1>1, <1>4, LineNamesAre
<1>6. line' \notin {"failed", "shipped"}
  BY <1>5, LineNamesAre
<1>7. BuildTypeOK'
  BY <1>1, <1>2, <1>5 DEF BuildTypeOK, LineNames
<1>8. \A edits_ \in SUBSET Places : Patched(edits_) => Patched(edits_)'
  BY <1>2 DEF Patched
<1>9. \A c \in Connectors : BlocksDone(c) => BlocksDone(c)'
  BY <1>2, PlaceSets DEF BlocksDone, DcpPlaces
<1>10. Progress'
  <2> USE <1>1, <1>4, <1>6, LineNamesAre DEF BuildInv, Progress, Past, Achieves
  <2>1. (Past({"guards"}) => Patched(Guards))' BY <1>8, PlaceSets
  <2>2. (Past(ToDcp) => \A p \in DcpPlaces : place[p] # "original")'
    BY <1>2, PlaceSets DEF ToDcp
  <2>3. (Past(ToMlaStore) => "mla_store" \in marked)' BY DEF ToMlaStore, ToDcp
  <2>4. (Past(ToEvents) => "events" \in marked)'
    BY DEF ToEvents, ToMlaStore, ToDcp
  <2> USE DEF ToDcp, ToMlaStore, ToEvents, ToChunks
  <2>5. (Past(ToChunks) => "chunks" \in marked)' OBVIOUS
  <2> USE DEF ToRestore, ToLauncher, ToWeights, ToRerun
  <2>6. (Past(ToRestore) => Patched({Restore("lmcache"), "retain"}))'
    BY <1>8, PlaceSets DEF Connectors
  <2>7. (Past(ToLauncher) => "launcher" \in marked)' OBVIOUS
  <2>8. (Past(ToWeights) => Patched({"weights"}))' BY <1>8, PlaceSets
  <2>9. (Past(ToRerun) => \A c \in Connectors : BlocksDone(c))' BY <1>9
  <2> USE DEF ToValidate, ToBase, ToOverlay, ToEager
  <2>10. (Past(ToValidate) => Patched({Ranks(c) : c \in Connectors}))'
    BY <1>8, PlaceSets DEF DcpPlaces
  <2>11. (Past(ToOverlay) => \A c \in Copies : overlaid[c] = "overlay")'
    OBVIOUS
  <2>12. (Past(ToEager) => "eager" \in marked)' OBVIOUS
  <2>13. (line \in ToOverlay => overlaid["site"] # "overlay")' OBVIOUS
  <2>14. QED
    BY <2>1, <2>2, <2>3, <2>4, <2>5, <2>6, <2>7, <2>8, <2>9, <2>10, <2>11,
       <2>12, <2>13 DEF Progress
<1>11. BuiltIsWhole' BY <1>1, <1>6 DEF BuiltIsWhole
<1>12. QED BY <1>1, <1>7, <1>10, <1>11 DEF BuildInv

\* A step that stops the build leaves everything as it was.
LEMMA StopsShort ==
    ASSUME BuildInv, line \notin {"failed", "shipped"}, Stop, ~Agreeable,
           UNCHANGED <<overlaid, image>>
    PROVE  BuildInv'
<1> USE DEF Stop
<1>1. image = NoImage BY DEF BuildInv
<1>2. BuildTypeOK' BY DEF BuildInv, BuildTypeOK
<1>3. ~Agreeable'
  BY DEF Agreeable, AsOne
<1>4. Progress'
  BY DEF Progress, Past, ToDcp, ToMlaStore, ToEvents, ToChunks, ToRestore,
         ToLauncher, ToWeights, ToRerun, ToValidate, ToBase, ToOverlay, ToEager
<1>5. QED BY <1>1, <1>2, <1>3, <1>4 DEF BuildInv, BuiltIsWhole

\* With nothing to put in, the places stay as they are.
LEMMA WithNothing ==
    ASSUME place \in [Places -> Conditions], NEW edits,
           \A p \in Places : p \in edits => place[p] = "patched"
    PROVE  With(edits) = place
BY DEF With

LEMMA MarkersStay ==
    ASSUME BuildInv, line \notin {"failed", "shipped"}, NEW edits,
           place' = With(edits), UNCHANGED marked
    PROVE  MarkersTrue'
BY WithEdits, PlaceSets DEF BuildInv, BuildTypeOK, MarkersTrue, Patched

LEMMA GuardsKeep == ASSUME BuildInv, PatchGuards PROVE BuildInv'
<1> USE DEF PatchGuards
<1>1. place \in [Places -> Conditions] BY DEF BuildInv, BuildTypeOK
<1>2. CASE \A g \in Guards : place[g] \in {"original", "patched"}
  <2>1. place' = With(Guards) /\ Proceed /\ UNCHANGED <<marked, overlaid, image>>
    BY <1>2
  <2>2. Patched(Guards)' BY <1>1, <2>1, WithEdits, PlaceSets DEF Patched
  <2>3. MarkersTrue' BY <2>1, MarkersStay
  <2>4. QED
    BY <2>1, <2>2, <2>3, GoesOn, PlaceSets DEF Achieves, BuildInv, BuildTypeOK
<1>3. CASE ~\A g \in Guards : place[g] \in {"original", "patched"}
  <2>1. ~Agreeable BY <1>3, PlaceSets DEF Agreeable
  <2>2. QED BY <1>3, <2>1, StopsShort
<1>4. QED BY <1>2, <1>3

LEMMA BlocksAgree == ASSUME Agreeable PROVE \A c \in Connectors : ~BlocksFail(c)
BY PlaceSets DEF Agreeable, BlocksFail, BlocksPartial, BlocksDone, DcpPlaces

LEMMA FoundOrPassedOver ==
    \A p, q : q \in ReplaceIfFound(p) <=> q = p /\ place[p] = "original"
BY DEF ReplaceIfFound

\* The edits are the places that have their original text.
LEMMA DcpEditsAre ==
    \A p : p \in DcpEdits <=> p \in DcpPlaces /\ place[p] = "original"
<1>1. \A p : p \in DcpEdits <=>
            \/ \E c \in Connectors : \/ p \in ReplaceIfFound(Ranks(c))
                                   \/ p \in ReplaceIfFound(AdapterBlock(c))
                                   \/ p \in ReplaceIfFound(ConnectorBlock(c))
            \/ p \in ReplaceIfFound("extra_count")
  BY DEF DcpEdits, RanksEdit, BlockEdits, ExtraCountEdit
<1>2. \A p : p \in DcpPlaces <=>
            \/ \E c \in Connectors :
                 p = Ranks(c) \/ p = AdapterBlock(c) \/ p = ConnectorBlock(c)
            \/ p = "extra_count"
  BY DEF DcpPlaces
<1>3. QED BY <1>1, <1>2, FoundOrPassedOver

LEMMA DcpKeeps == ASSUME BuildInv, PatchDcp PROVE BuildInv'
<1> USE DEF PatchDcp
<1>1. place \in [Places -> Conditions] BY DEF BuildInv, BuildTypeOK
<1>2. CASE \E c \in Connectors : BlocksFail(c)
  <2>1. ~Agreeable BY <1>2, BlocksAgree
  <2>2. QED BY <1>2, <2>1, StopsShort
<1>3. CASE ~\E c \in Connectors : BlocksFail(c)
  <2>1. place' = With(DcpEdits) /\ Proceed /\ UNCHANGED <<marked, overlaid, image>>
    BY <1>3
  <2>2. \A p \in DcpPlaces : place[p] = "original" => p \in DcpEdits
    BY DcpEditsAre
  <2>3. \A p \in DcpPlaces : place'[p] # "original"
    BY <1>1, <2>1, <2>2, WithEdits, PlaceSets
  <2>4. MarkersTrue' BY <2>1, MarkersStay
  <2>5. QED
    BY <2>1, <2>3, <2>4, GoesOn, PlaceSets, DcpEditsAre
       DEF Achieves, BuildInv, BuildTypeOK
<1>4. QED BY <1>2, <1>3

LEMMA MlaStoreKeeps == ASSUME BuildInv, PatchMlaStore PROVE BuildInv'
<1> USE DEF PatchMlaStore
<1>1. place \in [Places -> Conditions] BY DEF BuildInv, BuildTypeOK
<1>2. CASE "mla_store" \in marked
  <2>1. place' = With({}) BY <1>1, <1>2, WithNothing
  <2>2. MarkersTrue' BY <1>2, <2>1, MarkersStay
  <2>3. QED
    BY <1>2, <2>1, <2>2, GoesOn DEF Achieves, BuildInv, BuildTypeOK
<1>3. CASE "mla_store" \notin marked /\ place["mla_store"] = "absent"
  <2>1. ~Agreeable BY <1>3, PlaceSets DEF Agreeable
  <2>2. QED BY <1>3, <2>1, StopsShort
<1>4. CASE "mla_store" \notin marked /\ place["mla_store"] # "absent"
  <2>1. /\ place' = With(ReplaceIfFound("mla_store"))
        /\ marked' = marked \cup {"mla_store"}
        /\ Proceed /\ UNCHANGED <<overlaid, image>>
    BY <1>4
  <2>2. MarkersTrue'
    BY <1>1, <2>1, WithEdits, PlaceSets
       DEF BuildInv, BuildTypeOK, MarkersTrue, Patched
  <2>3. ReplaceIfFound("mla_store") \in SUBSET Places
    BY PlaceSets DEF ReplaceIfFound
  <2>4. QED
    BY <2>1, <2>2, <2>3, GoesOn DEF Achieves, BuildInv, BuildTypeOK, Markers
<1>5. QED BY <1>2, <1>3, <1>4

\* A marker and the places it speaks for.
MarkerEdits ==
    {<<"events", EventEdits>>, <<"chunks", ChunkEdits>>,
     <<"launcher", LauncherEdits>>, <<"eager", EagerEdits>>}

LEMMA AllOrNothingKeeps ==
    ASSUME BuildInv, NEW marker, NEW edits, <<marker, edits>> \in MarkerEdits,
           line = marker, AllOrNothing(marker, edits),
           UNCHANGED <<overlaid, image>>
    PROVE  BuildInv'
<1> USE DEF AllOrNothing
<1>1. /\ place \in [Places -> Conditions]
      /\ line \notin {"ship", "failed", "shipped"}
      /\ edits \in SUBSET Places /\ marker \in Markers
  BY PlaceSets DEF BuildInv, BuildTypeOK, MarkerEdits, Markers
<1>2. CASE marker \in marked
  <2>1. place' = With({}) BY <1>1, <1>2, WithNothing
  <2>2. MarkersTrue' BY <1>1, <1>2, <2>1, MarkersStay
  <2>3. Achieves BY <1>1, <1>2 DEF Achieves, MarkerEdits
  <2>4. QED
    BY <1>1, <1>2, <2>1, <2>2, <2>3, GoesOn DEF BuildInv, BuildTypeOK
<1>3. CASE marker \notin marked /\ AllOriginal(edits)
  <2>1. /\ place' = With(edits) /\ marked' = marked \cup {marker}
        /\ Proceed
    BY <1>3
  <2>2. \A p \in Places : place'[p] = IF p \in edits THEN "patched" ELSE place[p]
    BY <1>1, <2>1, WithEdits
  <2>3. MarkersTrue'
    BY <1>1, <2>1, <2>2, PlaceSets
       DEF BuildInv, MarkersTrue, Patched, MarkerEdits
  <2>4. Achieves BY <1>1, <2>1 DEF Achieves, MarkerEdits
  <2>5. QED
    BY <1>1, <2>1, <2>3, <2>4, GoesOn DEF BuildInv, BuildTypeOK
<1>4. CASE marker \notin marked /\ ~AllOriginal(edits)
  <2>1. ~Agreeable
    BY <1>4 DEF Agreeable, AsOne, AllOriginal, MarkerEdits
  <2>2. QED BY <1>1, <1>4, <2>1, StopsShort
<1>5. QED BY <1>2, <1>3, <1>4

LEMMA MarkedKeep ==
    ASSUME BuildInv, PatchEvents \/ PatchChunks \/ PatchLauncher \/ PatchEager
    PROVE  BuildInv'
<1>1. CASE PatchEvents
  BY <1>1, AllOrNothingKeeps DEF PatchEvents, MarkerEdits
<1>2. CASE PatchChunks
  <2>1. EventsFirst
    BY <1>2 DEF PatchChunks, EventsFirst, BuildInv, Progress, Past, ToEvents,
                ToMlaStore, ToDcp
  <2>2. QED
    BY <1>2, <2>1, AllOrNothingKeeps DEF PatchChunks, MarkerEdits
<1>3. CASE PatchLauncher
  BY <1>3, AllOrNothingKeeps DEF PatchLauncher, MarkerEdits
<1>4. CASE PatchEager
  BY <1>4, AllOrNothingKeeps DEF PatchEager, MarkerEdits
<1>5. QED BY <1>1, <1>2, <1>3, <1>4
LEMMA WeightsKeep == ASSUME BuildInv, PatchWeights PROVE BuildInv'
<1> USE DEF PatchWeights
<1>1. place \in [Places -> Conditions] BY DEF BuildInv, BuildTypeOK
<1>2. CASE place["weights"] \in {"original", "patched"}
  <2>1. place' = With({"weights"}) /\ Proceed /\ UNCHANGED <<marked, overlaid, image>>
    BY <1>2
  <2>2. Patched({"weights"})' BY <1>1, <2>1, WithEdits, PlaceSets DEF Patched
  <2>3. MarkersTrue' BY <2>1, MarkersStay
  <2>4. QED
    BY <2>1, <2>2, <2>3, GoesOn, PlaceSets DEF Achieves, BuildInv, BuildTypeOK
<1>3. CASE place["weights"] \notin {"original", "patched"}
  <2>1. ~Agreeable BY <1>3, PlaceSets DEF Agreeable
  <2>2. QED BY <1>3, <2>1, StopsShort
<1>4. QED BY <1>2, <1>3

LEMMA RestoreKeeps == ASSUME BuildInv, PatchRestore PROVE BuildInv'
<1> DEFINE edits == RestoreEdits \cup RetainEdit \cup CleanupEdit
<1> USE DEF PatchRestore
<1>1. place \in [Places -> Conditions] BY DEF BuildInv, BuildTypeOK
<1>2. edits \in SUBSET Places
  BY FoundOrPassedOver, PlaceSets DEF RestoreEdits, RetainEdit, CleanupEdit
<1>3. CASE RestoreVerified(With(edits))
  <2>1. place' = With(edits) /\ Proceed /\ UNCHANGED <<marked, overlaid, image>>
    BY <1>3
  <2>2. Patched({Restore("lmcache"), "retain"})'
    BY <1>3, <2>1 DEF Patched, RestoreVerified
  <2>3. MarkersTrue' BY <2>1, MarkersStay
  <2>4. QED
    BY <1>2, <2>1, <2>2, <2>3, GoesOn DEF Achieves, BuildInv, BuildTypeOK
<1>4. CASE ~RestoreVerified(With(edits))
  <2>1. Restore("lmcache") \in Places /\ "retain" \in Places
    BY PlaceSets DEF Connectors
  <2>2. place[Restore("lmcache")] = "original" => Restore("lmcache") \in edits
    BY DEF RestoreEdits, Connectors
  <2>3. place["retain"] = "original" => "retain" \in edits
    BY FoundOrPassedOver DEF RetainEdit
  <2>4. ~Agreeable
    BY <1>1, <1>4, <2>1, <2>2, <2>3, WithEdits DEF Agreeable, RestoreVerified
  <2>5. QED BY <1>4, <2>4, StopsShort
<1>5. QED BY <1>3, <1>4

\* The second run finds nothing left to replace.
LEMMA RerunKeeps == ASSUME BuildInv, Rerun PROVE BuildInv'
<1> USE DEF Rerun
<1>1. place \in [Places -> Conditions] BY DEF BuildInv, BuildTypeOK
<1>2. \A p \in DcpPlaces : place[p] # "original"
  BY DEF BuildInv, Progress, Past, ToDcp
<1>3. With(DcpEdits) = place
  BY <1>1, <1>2, DcpEditsAre, WithNothing
<1>4. CASE \E c \in Connectors : BlocksFail(c)
  <2>1. ~Agreeable BY <1>4, BlocksAgree
  <2>2. QED BY <1>4, <2>1, StopsShort
<1>5. CASE ~\E c \in Connectors : BlocksFail(c)
  <2>1. place' = With(DcpEdits) /\ Proceed /\ UNCHANGED <<marked, overlaid, image>>
    BY <1>3, <1>5
  <2>2. \A c \in Connectors : BlocksDone(c)
    BY <1>2, <1>5 DEF BlocksFail, DcpPlaces
  <2>3. MarkersTrue' BY <2>1, MarkersStay
  <2>4. DcpEdits \in SUBSET Places BY DcpEditsAre, PlaceSets
  <2>5. QED
    BY <2>1, <2>2, <2>3, <2>4, GoesOn DEF Achieves, BuildInv, BuildTypeOK
<1>6. QED BY <1>4, <1>5

\* What the checks want is what the patchers before them have left.
LEMMA SourcesReady ==
    ASSUME BuildInv, line = "validate", Agreeable
    PROVE  Valid
<1> USE DEF BuildInv
<1>1. /\ Patched(Guards) /\ Patched({"weights"})
      /\ {"mla_store", "events", "chunks", "launcher"} \subseteq marked
      /\ \A p \in DcpPlaces : place[p] # "original"
      /\ \A c \in Connectors : BlocksDone(c)
  BY DEF Progress, Past, ToDcp, ToMlaStore, ToEvents, ToChunks, ToRestore,
         ToLauncher, ToWeights, ToRerun
<1>2. Patched(EventEdits) /\ Patched(ChunkEdits) /\ Patched(LauncherEdits)
  BY <1>1 DEF MarkersTrue
<1>3. \A c \in Connectors : place[Ranks(c)] = "patched"
  <2>1. \A c \in Connectors : Ranks(c) \in DcpPlaces BY DEF DcpPlaces
  <2>2. QED BY <1>1, <2>1, PlaceSets DEF Agreeable
<1>4. SourcesValid
  BY <1>1, <1>2, <1>3
     DEF SourcesValid, BlocksDone, Patched, EventEdits, ChunkEdits, LauncherEdits
<1>5. QED
  BY <1>2, <1>3, <1>4 DEF Valid, MappingValid, TrackingValid, Patched, ChunkEdits

LEMMA ChecksKeep ==
    ASSUME BuildInv, Validate \/ CheckBase \/ Overlay \/ ValidateOverlay
    PROVE  BuildInv'
<1>1. place \in [Places -> Conditions] BY DEF BuildInv, BuildTypeOK
<1>2. place = With({}) BY <1>1, WithNothing
<1>3. ASSUME line \in LineNames \ {"ship"}, Proceed, Achieves,
             UNCHANGED <<place, marked, image>>,
             overlaid' \in [Copies -> {"base", "other", "overlay"}],
             line # "overlay" => overlaid' = overlaid
      PROVE  BuildInv'
  <2>1. place' = With({}) BY <1>2, <1>3
  <2>2. line \notin {"ship", "failed", "shipped"} BY <1>3, LineNamesAre
  <2>3. MarkersTrue' BY <1>3, <2>1, <2>2, MarkersStay
  <2>4. QED BY <1>3, <2>1, <2>2, <2>3, GoesOn DEF BuildInv, BuildTypeOK
<1>4. overlaid \in [Copies -> {"base", "other", "overlay"}]
  BY DEF BuildInv, BuildTypeOK
<1>5. CASE Validate
  <2> USE <1>5 DEF Validate
  <2>1. CASE Valid
    <3>1. Achieves BY <2>1 DEF Achieves, Valid, MappingValid, Patched
    <3>2. QED BY <1>3, <1>4, <2>1, <3>1, LineNamesAre
  <2>2. CASE ~Valid
    <3>1. ~Agreeable BY <2>2, SourcesReady
    <3>2. QED BY <2>2, <3>1, StopsShort
  <2>3. QED BY <2>1, <2>2
<1>6. CASE CheckBase
  <2> USE <1>6 DEF CheckBase
  <2>1. CASE overlaid["site"] = "base"
    <3>1. Achieves BY DEF Achieves
    <3>2. QED BY <1>3, <1>4, <2>1, <3>1, LineNamesAre
  <2>2. CASE overlaid["site"] # "base"
    <3>1. overlaid["site"] # "overlay"
      BY DEF BuildInv, Progress, ToOverlay, ToBase
    <3>2. ~Agreeable BY <1>4, <2>2, <3>1 DEF Agreeable, Copies
    <3>3. QED BY <2>2, <3>2, StopsShort
  <2>3. QED BY <2>1, <2>2
<1>7. CASE Overlay
  <2> USE <1>7 DEF Overlay
  <2>1. Achieves BY DEF Achieves
  <2>2. QED BY <1>3, <2>1, LineNamesAre
<1>8. CASE ValidateOverlay
  <2> USE <1>8 DEF ValidateOverlay
  <2>1. \A c \in Copies : overlaid[c] = "overlay"
    BY DEF BuildInv, Progress, Past, ToOverlay, ToBase, ToValidate, ToRerun,
           ToWeights, ToLauncher, ToRestore, ToChunks, ToEvents, ToMlaStore, ToDcp
  <2>2. Achieves BY DEF Achieves
  <2>3. QED BY <1>3, <1>4, <2>1, <2>2, LineNamesAre DEF Copies
<1>9. QED BY <1>5, <1>6, <1>7, <1>8

LEMMA ShipKeeps == ASSUME BuildInv, Ship PROVE BuildInv'
<1> USE DEF Ship
<1>1. /\ Patched(Guards) /\ Patched({Restore("lmcache"), "retain", "weights"})
      /\ Patched(EventEdits) /\ Patched(ChunkEdits) /\ Patched(LauncherEdits)
      /\ Patched(EagerEdits) /\ Patched({Ranks(c) : c \in Connectors})
      /\ \A c \in Connectors : BlocksDone(c)
  <2>1. \A s \in {ToDcp, ToMlaStore, ToEvents, ToChunks, ToRestore, ToLauncher,
                  ToWeights, ToRerun, ToValidate, ToEager, {"guards"}} : Past(s)
    BY DEF Past, ToEager, ToOverlay, ToBase, ToValidate, ToRerun, ToWeights,
           ToLauncher, ToRestore, ToChunks, ToEvents, ToMlaStore, ToDcp
  <2>2. QED BY <2>1 DEF BuildInv, Progress, MarkersTrue, Patched
<1>2. ASSUME NEW p \in Places \ Unchecked
      PROVE  place[p] = "patched"
  <2>1. \/ p \in Guards \cup EventEdits \cup ChunkEdits \cup LauncherEdits \cup EagerEdits
        \/ p \in {Ranks(c) : c \in Connectors}
        \/ \E c \in Connectors : p = AdapterBlock(c) \/ p = ConnectorBlock(c)
        \/ p \in {Restore("lmcache"), "retain", "weights"}
    BY DEF Places, Unchecked, Connectors
  <2>2. QED BY <1>1, <2>1 DEF Patched, BlocksDone
<1>3. Places \ Unchecked \subseteq image' BY <1>2
<1>4. BuildTypeOK'
  BY DEF BuildInv, BuildTypeOK, Conditions
<1>5. Progress'
  BY DEF Progress, Past, ToOverlay, ToBase, ToValidate, ToRerun, ToWeights,
         ToLauncher, ToRestore, ToChunks, ToEvents, ToMlaStore, ToDcp
<1>6. QED BY <1>3, <1>4, <1>5 DEF BuildInv, BuiltIsWhole

LEMMA BuildInvInit == BuildInit => BuildInv
<1> SUFFICES ASSUME BuildInit PROVE BuildInv
  OBVIOUS
<1>1. PICK base \in Bases :
        place = base.place /\ marked = base.marked /\ overlaid = base.overlaid
  BY DEF BuildInit
<1>2. line = "guards" /\ image = NoImage BY LineElements DEF BuildInit
<1>3. BuildTypeOK
  <2>1. /\ place \in [Places -> Conditions] /\ marked \subseteq Markers
        /\ overlaid \in [Copies -> {"base", "other"}]
    BY <1>1, BasesAssumption
  <2>2. overlaid \in [Copies -> {"base", "other", "overlay"}] BY <2>1
  <2>3. line \in {Lines[i] : i \in DOMAIN Lines}
    BY <1>2, LineNamesAre DEF LineNames
  <2>4. QED BY <1>2, <2>1, <2>2, <2>3 DEF BuildTypeOK
<1>4. MarkersTrue
  BY <1>1, BasesAssumption DEF MarkersTrue, Patched
<1>5. overlaid["site"] # "overlay"
  BY <1>1, BasesAssumption DEF Copies
<1>6. Progress
  BY <1>2, <1>5 DEF Progress, Past, ToEager, ToOverlay, ToBase, ToValidate,
         ToRerun, ToWeights, ToLauncher, ToRestore, ToChunks, ToEvents,
         ToMlaStore, ToDcp
<1>7. QED BY <1>2, <1>3, <1>4, <1>6 DEF BuildInv, BuiltIsWhole

LEMMA BuildInvNext == BuildInv /\ BuildNext => BuildInv'
<1> SUFFICES ASSUME BuildInv, BuildNext PROVE BuildInv'
  OBVIOUS
<1>1. QED
  BY GuardsKeep, DcpKeeps, MlaStoreKeeps, MarkedKeep, RestoreKeeps,
     WeightsKeep, RerunKeeps, ChecksKeep, ShipKeeps DEF BuildNext

LEMMA BuildInvStays == BuildInv /\ UNCHANGED buildVars => BuildInv'
BY DEF BuildInv, BuildTypeOK, MarkersTrue, Patched, Progress, Past, BlocksDone,
       BuiltIsWhole, Agreeable, AsOne, buildVars

\* BuildInv is an invariant of the whole deployment.
LEMMA BuildInvariant == DeploySpec => []BuildInv
<1>1. DeployInit => BuildInv BY BuildInvInit DEF DeployInit
<1>2. BuildInv /\ [DeployNext]_deployVars => BuildInv'
  BY BuildInvNext, BuildInvStays
     DEF DeployNext, deployVars, BuildStep, ShellRuns, DaemonRuns, SignalSent,
         WeightsRead, LoadFails, ToolBegins, ToolRuns
<1>3. QED BY <1>1, <1>2, PTL DEF DeploySpec

\* Of the build: every place is in a known condition, and the markers, the
\* copies and the step are what the Dockerfile has (src/base/Dockerfile,
\* src/gather/Dockerfile).
THEOREM BuildTypes == DeploySpec => []BuildTypeOK
<1>1. BuildInv => BuildTypeOK BY DEF BuildInv
<1>2. QED BY <1>1, BuildInvariant, PTL

\* Whatever base the image was made from, an image that is built has every
\* replacement the release relies on, but for the four no step insists on; and
\* a build from a base that is agreeable to each patcher does not fail: the
\* patchers, the second run and the checks of src/base/patches and src/gather.
THEOREM BuildWhole == DeploySpec => []BuiltIsWhole
<1>1. BuildInv => BuiltIsWhole BY DEF BuildInv
<1>2. QED BY <1>1, BuildInvariant, PTL

-------------------------------------------------------------------------------
(* The loading of the weights. *)

LoadInv ==
    /\ LoadTypeOK
    /\ reader = "none" => unread = Tensors
    /\ WeightsOnce

LEMMA LoadInvInit == LoadInit => LoadInv
BY DEF LoadInit, LoadInv, LoadTypeOK, WeightsOnce

LEMMA LoadInvNext == LoadInv /\ LoadNext => LoadInv'
<1> SUFFICES ASSUME LoadInv, LoadNext PROVE LoadInv'
  OBVIOUS
<1> USE DEF LoadInv, LoadTypeOK, WeightsOnce, Wanted
<1>1. CASE Open BY <1>1 DEF Open
<1>2. ASSUME NEW t \in Tensors, Read(t) PROVE LoadInv'
  <2> USE <1>2 DEF Read
  <2>1. yielded[t] = 0 BY Zenon
  <2>2. yielded' \in [Tensors -> 0..2] BY <2>1
  <2>3. WeightsOnce' BY <2>1
  <2>4. QED BY <2>2, <2>3
<1>3. CASE EndPass BY <1>3, LoadAssumption DEF EndPass
<1>4. ASSUME NEW memory \in BOOLEAN, InstantRaises(memory) PROVE LoadInv'
  <2> USE <1>4 DEF InstantRaises
  <2>1. CASE FallsBack(memory) BY <2>1 DEF FallsBack
  <2>2. CASE ~FallsBack(memory) BY <2>2
  <2>3. QED BY <2>1, <2>2
<1>5. CASE InstantAborts BY <1>5 DEF InstantAborts
<1>6. QED BY <1>1, <1>2, <1>3, <1>4, <1>5 DEF LoadNext

\* LoadInv is an invariant of the whole deployment.
LEMMA LoadInvariant == DeploySpec => []LoadInv
<1>1. DeployInit => LoadInv BY LoadInvInit DEF DeployInit
<1>2. LoadInv /\ UNCHANGED loadVars => LoadInv'
  BY DEF LoadInv, LoadTypeOK, WeightsOnce, Wanted, loadVars
<1>3. LoadInv /\ [DeployNext]_deployVars => LoadInv'
  BY <1>2, LoadInvNext
     DEF DeployNext, deployVars, BuildStep, ShellRuns, DaemonRuns, SignalSent,
         WeightsRead, LoadFails, ToolBegins, ToolRuns
<1>4. QED BY <1>1, <1>3, PTL DEF DeploySpec

\* Of any checkpoint, filter and number of files: no pass hands a tensor to the
\* model twice and none skips one, whichever reader takes over and however the
\* load fails (instanttensor_weights_iterator as the image has it).
THEOREM EveryWeightOnce == DeploySpec => []WeightsOnce
<1>1. LoadInv => WeightsOnce BY DEF LoadInv
<1>2. QED BY <1>1, LoadInvariant, PTL

-------------------------------------------------------------------------------
(* The start of the container. *)

Polls ==
    /\ polls \in 0..MaxPolls
    /\ shell \in {"begin", "untrapped", "alive", "ready", "sleep"} => polls > 0

Order ==
    /\ shell = "begin" => daemon = "none" /\ ~announced
    /\ shell \in {"begin", "untrapped"} => vllm = "none"
    /\ shell = "wait" => announced
    /\ StartIsSafe

StartInv == StartTypeOK /\ Polls /\ Order

LEMMA StartInvInit == StartInit => StartInv
<1> SUFFICES ASSUME StartInit PROVE StartInv
  OBVIOUS
<1> USE DEF StartInit
<1>1. Polls BY StartAssumption DEF Polls
<1>2. StartTypeOK BY <1>1, Zenon DEF StartTypeOK, Polls
<1>3. Order BY Zenon DEF Order, StartIsSafe
<1>4. QED BY <1>1, <1>2, <1>3 DEF StartInv

LEMMA StartInvNext ==
    ASSUME StartInv,
           ShellStep \/ Announce \/ DaemonDies \/ Signal \/ VllmExits
    PROVE  StartInv'
<1>1. Polls'
  <2> USE DEF StartInv, Polls
  <2>1. MaxPolls \in Nat BY StartAssumption
  <2>2. ASSUME NEW length \in ModelLengths, Begin(length) PROVE Polls'
    BY <2>2 DEF Begin
  <2>11. CASE SetTrap BY <2>11 DEF SetTrap
  <2>3. CASE CheckAlive BY <2>3 DEF CheckAlive, Exit
  <2>4. CASE CheckReady BY <2>1, <2>4 DEF CheckReady
  <2>5. CASE Sleep BY <2>1, <2>5 DEF Sleep
  <2>6. CASE Launch BY <2>6 DEF Launch, Exit
  <2>7. CASE WaitEnds BY <2>7 DEF WaitEnds, Exit
  <2>8. CASE Announce \/ DaemonDies \/ VllmExits
    BY <2>8 DEF Announce, DaemonDies, VllmExits
  <2>9. CASE Signal BY <2>9 DEF Signal, Untrapped
  <2>10. QED
    BY <2>2, <2>3, <2>4, <2>5, <2>6, <2>7, <2>8, <2>9, <2>11 DEF ShellStep
<1>2. Order' /\ StartTypeOK'
  <2> USE <1>1, Zenon DEF StartInv, Order, StartIsSafe, StartTypeOK, Polls
  <2>1. ASSUME NEW length \in ModelLengths, Begin(length)
        PROVE  Order' /\ StartTypeOK'
    BY <2>1 DEF Begin
  <2>12. CASE SetTrap BY <2>12 DEF SetTrap
  <2>2. CASE CheckAlive BY <2>2 DEF CheckAlive, Exit, Cleanup
  <2>3. CASE CheckReady BY <2>3 DEF CheckReady
  <2>4. CASE Sleep BY <2>4 DEF Sleep
  <2>5. CASE Launch BY <2>5 DEF Launch, BecameReady, Exit, Cleanup
  <2>6. CASE WaitEnds BY <2>6 DEF WaitEnds, Exit, Cleanup
  <2>7. CASE Announce BY <2>7 DEF Announce
  <2>8. CASE DaemonDies BY <2>8 DEF DaemonDies
  <2>9. CASE Signal
    <3>1. CASE shell \in Untrapped BY <2>9, <3>1 DEF Signal, Untrapped
    <3>2. CASE shell \notin Untrapped BY <2>9, <3>2 DEF Signal, Untrapped, Cleanup
    <3>3. QED BY <3>1, <3>2
  <2>10. CASE VllmExits BY <2>10 DEF VllmExits
  <2>11. QED
    BY <2>1, <2>2, <2>3, <2>4, <2>5, <2>6, <2>7, <2>8, <2>9, <2>10, <2>12
       DEF ShellStep
<1>3. QED BY <1>1, <1>2 DEF StartInv
\* StartInv is an invariant of the whole deployment.
LEMMA StartInvariant == DeploySpec => []StartInv
<1>1. DeployInit => StartInv BY StartInvInit DEF DeployInit
<1>2. StartInv /\ UNCHANGED startVars => StartInv'
  <2> SUFFICES ASSUME StartInv, UNCHANGED startVars PROVE StartInv'
    OBVIOUS
  <2>1. /\ shell' = shell /\ polls' = polls /\ daemon' = daemon
        /\ announced' = announced /\ vllm' = vllm
    BY DEF startVars
  <2>2. StartTypeOK' BY <2>1, Zenon DEF StartInv, StartTypeOK
  <2>3. Polls' BY <2>1 DEF StartInv, Polls
  <2>4. Order' BY <2>1, Zenon DEF StartInv, Order, StartIsSafe
  <2>5. QED BY <2>2, <2>3, <2>4 DEF StartInv
<1>3. StartInv /\ [DeployNext]_deployVars => StartInv'
  BY <1>2, StartInvNext
     DEF DeployNext, deployVars, BuildStep, ShellRuns, DaemonRuns, SignalSent,
         WeightsRead, LoadFails, ToolBegins, ToolRuns
<1>4. QED BY <1>1, <1>3, PTL DEF DeploySpec

\* Whatever the polls, the daemon, vLLM and any number of signals do to each
\* other: a shell that ends leaves no daemon behind, unless a signal kills it
\* before its trap is set, which is before it starts vLLM; and vLLM is never
\* started before the daemon has said it serves (start-v17-lmcache.sh).
THEOREM StartSafe == DeploySpec => []StartIsSafe
<1>1. StartInv => StartIsSafe BY DEF StartInv, Order
<1>2. QED BY <1>1, StartInvariant, PTL
-------------------------------------------------------------------------------
(* The tools that judge the server. *)

CaseRecords ==
    [tp : Nat \ {0}, dcp : 1..FourContexts, tool : {"matrix", "verify", "boundary"},
     fills : 0..MaxFills, countsWriting : BOOLEAN, requireHit : BOOLEAN,
     mlaStore : BOOLEAN, extraCount : BOOLEAN]

CaseOK == case \in CaseRecords /\ tp % dcp = 0

\* The tool begins on a server that was launched, so the deployment does not
\* change under it.
CaseInv ==
    /\ CaseOK
    /\ doing # "start" => vllm # "none"

KeyPlaces == 0..(FourContexts - 1)

LockInv ==
    /\ loaded \subseteq RankIds
    /\ locks \in [KeyPlaces -> Int]
    /\ doing = "start" => loaded = {} /\ \A k \in KeyPlaces : locks[k] = 0
    /\ LocksReturn

\* The storing ranks of a rank's key all have its own shard.
Own(r) == {Shard(w) : w \in Writers(KvRank(r))} = {Shard(r)}

OwnShards == \A r \in RankIds : Own(r)

Readable(p, n) == \A k \in KeyRanks : n <= written[<<p, k>>]

Requests ==
    [kind : {"cold", "local", "external", "fill", "replay"}, prompt : Prompts,
     await : {"all", "one", "nothing", "drain"}]

Outcomes ==
    [prompt : Prompts, kind : {"cold", "local", "external", "fill", "replay"},
     right : BOOLEAN, local : Nat, external : Nat, preempted : BOOLEAN]

\* What was stored only grows, up to the whole prompt.
StoreInv ==
    /\ taken \subseteq sent /\ sent \subseteq AllStores
    /\ written \in [AllStores -> Nat]
    /\ \A s \in AllStores : written[s] <= Size(s[1])

\* The tool goes through its program, one result a request.
ProgramInv ==
    /\ results \in Seq(Outcomes)
    /\ doing = "start" => at = 1 /\ results = <<>>
    /\ doing # "start" => at \in 1..Len(Program) /\ Len(results) <= Len(Program)
    /\ doing \in {"asking", "loading", "computing"} => Len(results) = at - 1
    /\ doing = "waiting" => Len(results) = at
    /\ doing = "judging" => at = Len(Program) /\ Len(results) = at
    /\ \A i \in 1..Len(results) : /\ results[i].kind = Program[i].kind
                                  /\ results[i].prompt = Program[i].prompt

\* What a request found was readable, and a right output that was computed from
\* the cache had every rank's own shard.
ResultHit(result) ==
    /\ result.local = 0 => Readable(result.prompt, result.external)
    /\ result.right /\ result.external > 0 => OwnShards

\* The request has been told of its hits, and has used them.
Told == doing \in {"loading", "computing"} \/ preempted
Used == doing = "computing" \/ preempted

HitInv ==
    /\ hit \in [local : Nat, external : Nat]
    /\ right \in BOOLEAN /\ preempted \in BOOLEAN
    /\ preempted => doing \in {"asking", "loading", "computing"}
    /\ Told /\ hit.local = 0 => Readable(Now.prompt, hit.external)
    /\ doing = "loading" /\ right => \A r \in loaded : Own(r)
    /\ Used /\ right /\ hit.external > 0 => OwnShards
    /\ \A i \in 1..Len(results) : ResultHit(results[i])

VerdictInv ==
    /\ verdict # "none" => doing = "done"
    /\ PassIsTrue

-------------------------------------------------------------------------------
(* Numbers. *)

\* Quotient and remainder of natural numbers.
LEMMA DivMod ==
    ASSUME NEW a \in Nat, NEW b \in Nat \ {0}
    PROVE  /\ a \div b \in Nat /\ a % b \in 0..(b - 1)
           /\ a = b * (a \div b) + (a % b)
OBVIOUS

\* They are the only such pair.
LEMMA DivUnique ==
    ASSUME NEW b \in Nat \ {0}, NEW q \in Nat, NEW r \in 0..(b - 1)
    PROVE  (b * q + r) \div b = q /\ (b * q + r) % b = r
OBVIOUS

LEMMA LeastExists ==
    ASSUME NEW S, S \subseteq Nat, S # {}
    PROVE  \E x \in S : \A y \in S : x <= y
<1> DEFINE R == OpToRel(<, Nat)
<1>1. IsWellFoundedOn(R, Nat) BY NatLessThanWellFounded
<1>2. ASSUME NEW x \in Nat, NEW y \in Nat, y < x PROVE <<y, x>> \in R
  BY <1>2 DEF OpToRel
<1> HIDE DEF R
<1>3. PICK x \in S : \A y \in S : ~ (<<y, x>> \in R)
  BY <1>1, WFMin
<1>4. ASSUME NEW y \in S PROVE x <= y
  <2>1. x \in Nat /\ y \in Nat OBVIOUS
  <2>2. ~ (y < x) BY <1>2, <1>3, <2>1
  <2>3. QED BY <2>1, <2>2
<1>5. QED BY <1>4

LEMMA GreatestExists ==
    ASSUME NEW S, NEW n \in Nat, S \subseteq 0..n, S # {}
    PROVE  \E x \in S : \A y \in S : x >= y
<1> DEFINE bounds == {b \in Nat : \A x \in S : x <= b}
<1>1. n \in bounds OBVIOUS
<1>2. PICK b \in bounds : \A c \in bounds : b <= c
  BY <1>1, LeastExists
<1>3. b \in S
  <2>1. SUFFICES ASSUME b \notin S PROVE FALSE
    OBVIOUS
  <2>2. \A x \in S : x < b BY <2>1
  <2>3. b - 1 \in bounds
    <3>1. \A x \in S : x \in Nat /\ x < b BY <2>1, <1>2
    <3>2. PICK x \in S : TRUE OBVIOUS
    <3>3. b - 1 \in Nat BY <3>1, <3>2
    <3>4. \A y \in S : y <= b - 1 BY <3>1
    <3>5. QED BY <3>3, <3>4
  <2>4. QED BY <1>2, <2>3
<1>4. QED BY <1>2, <1>3

\* The numbers below d * q that leave a given remainder.
LEMMA CountRemainders ==
    ASSUME NEW d \in Nat \ {0}, NEW q \in Nat, NEW k \in 0..(d - 1)
    PROVE  /\ IsFiniteSet({r \in 0..(d * q - 1) : r % d = k})
           /\ Cardinality({r \in 0..(d * q - 1) : r % d = k}) = q
<1> DEFINE S == {r \in 0..(d * q - 1) : r % d = k}
           f == [i \in 1..q |-> d * (i - 1) + k]
<1>1. \A i \in 1..q : /\ f[i] \in S
                      /\ f[i] \div d = i - 1
  <2> TAKE i \in 1..q
  <2>1. i - 1 \in Nat /\ d * (i - 1) \in Nat OBVIOUS
  <2>2. f[i] \div d = i - 1 /\ f[i] % d = k BY <2>1, DivUnique
  <2>3. d * (i - 1) + d = d * i OBVIOUS
  <2>4. d * i <= d * q
    <3>1. q = i + (q - i) /\ q - i \in Nat OBVIOUS
    <3>2. d * q = d * i + d * (q - i) BY <3>1
    <3>3. d * (q - i) \in Nat BY <3>1
    <3>4. QED BY <3>2, <3>3
  <2>5. d * i \in Nat /\ d * q \in Nat OBVIOUS
  <2>6. f[i] \in 0..(d * q - 1) BY <2>1, <2>3, <2>4, <2>5
  <2>7. QED BY <2>2, <2>6
<1>2. f \in [1..q -> S] BY <1>1
<1>3. \A i, j \in 1..q : f[i] = f[j] => i = j
  <2> TAKE i, j \in 1..q
  <2> HAVE f[i] = f[j]
  <2>1. i - 1 = j - 1 BY <1>1
  <2>2. QED BY <2>1
<1>4. ASSUME NEW r \in S PROVE \E i \in 1..q : f[i] = r
  <2> DEFINE i == r \div d + 1
  <2>1. r \in Nat /\ r % d = k /\ r < d * q
    <3>1. d * q \in Nat OBVIOUS
    <3>2. QED BY <3>1
  <2>2. r \div d \in Nat /\ r = d * (r \div d) + k BY <2>1, DivMod
  <2>3. r \div d < q
    <3>1. SUFFICES ASSUME r \div d >= q PROVE FALSE
      BY <2>2
    <3>2. r \div d = q + (r \div d - q) /\ r \div d - q \in Nat BY <2>2, <3>1
    <3>3. d * (r \div d) = d * q + d * (r \div d - q) BY <3>2
    <3>4. d * (r \div d - q) \in Nat BY <3>2
    <3>5. d * q \in Nat OBVIOUS
    <3>6. QED BY <2>1, <2>2, <3>3, <3>4, <3>5
  <2>4. i \in 1..q BY <2>2, <2>3
  <2>5. f[i] = r BY <2>2, <2>4
  <2>6. QED BY <2>4, <2>5
<1> HIDE DEF S, f
<1>5. f \in Injection(1..q, S) BY <1>2, <1>3 DEF Injection, IsInjective
<1>6. f \in Surjection(1..q, S) BY <1>2, <1>4 DEF Surjection
<1>7. ExistsBijection(1..q, S) BY <1>5, <1>6 DEF ExistsBijection, Bijection
<1>8. Cardinality(S) = q BY <1>7, FS_CountingElements
<1>9. IsFiniteSet(S) BY <1>7, FS_NatBijection
<1>10. QED BY <1>8, <1>9 DEF S
-------------------------------------------------------------------------------
(* Ranks and keys. *)

\* A rank's key is its place in the context-parallel group, with one shard too.
LEMMA RanksAndKeys ==
    ASSUME CaseOK
    PROVE  /\ tp \in Nat \ {0} /\ dcp \in Nat \ {0} /\ dcp <= FourContexts
           /\ RankIds \subseteq Nat
           /\ KvWorld = dcp /\ KeyRanks = 0..(dcp - 1)
           /\ KeyRanks \subseteq KeyPlaces /\ 0 \in KeyRanks
           /\ tp \div dcp \in Nat /\ tp = dcp * (tp \div dcp)
           /\ \A r \in RankIds : KvRank(r) = r % dcp /\ KvRank(r) \in KeyRanks
<1>1. /\ tp \in Nat \ {0} /\ dcp \in Nat \ {0} /\ dcp <= FourContexts
      /\ tp % dcp = 0
  BY ReuseAssumption DEF CaseOK, CaseRecords, tp, dcp
<1>2. RankIds \subseteq Nat BY <1>1 DEF RankIds
<1>3. KvWorld = dcp BY <1>1 DEF KvWorld
<1>4. KeyRanks = 0..(dcp - 1) BY <1>3 DEF KeyRanks
<1>5. KeyRanks \subseteq KeyPlaces /\ 0 \in KeyRanks
  BY <1>1, <1>4, ReuseAssumption DEF KeyPlaces
<1>6. tp \div dcp \in Nat /\ tp = dcp * (tp \div dcp)
  <2>1. /\ tp \div dcp \in Nat
        /\ tp = dcp * (tp \div dcp) + (tp % dcp)
    BY <1>1, DivMod
  <2>2. dcp * (tp \div dcp) \in Nat BY <1>1, <2>1
  <2>3. QED BY <1>1, <2>1, <2>2
<1>7. ASSUME NEW r \in RankIds
      PROVE  KvRank(r) = r % dcp /\ KvRank(r) \in KeyRanks
  <2>1. r \in Nat /\ r < tp BY <1>1 DEF RankIds
  <2>2. r % dcp \in 0..(dcp - 1) BY <1>1, <2>1, DivMod
  <2>3. CASE dcp > 1 BY <1>4, <2>2, <2>3 DEF KvRank
  <2>4. CASE dcp = 1
    <3>1. r % dcp = 0 BY <2>2, <2>4
    <3>2. r = tp * 0 + r /\ r \in 0..(tp - 1) BY <1>1, <2>1
    <3>3. r \div tp = 0 BY <1>1, <3>2, DivUnique
    <3>4. QED BY <1>4, <2>4, <3>1, <3>3 DEF KvRank
  <2>5. QED BY <1>1, <2>3, <2>4
<1>8. QED BY <1>1, <1>2, <1>3, <1>4, <1>5, <1>6, <1>7

Sharing(k, ranks) == {r \in ranks : KvRank(r) = k}

\* Every key has the same number of ranks.
LEMMA KeyCount ==
    ASSUME CaseOK, NEW k \in KeyRanks
    PROVE  /\ IsFiniteSet(Sharing(k, RankIds))
           /\ Cardinality(Sharing(k, RankIds)) = tp \div dcp
<1>1. Sharing(k, RankIds) = {r \in RankIds : r % dcp = k}
  BY RanksAndKeys DEF Sharing
<1>2. RankIds = 0..(dcp * (tp \div dcp) - 1) BY RanksAndKeys DEF RankIds
<1>3. k \in 0..(dcp - 1) /\ dcp \in Nat \ {0} /\ tp \div dcp \in Nat
  BY RanksAndKeys
<1>4. Sharing(k, RankIds) = {r \in 0..(dcp * (tp \div dcp) - 1) : r % dcp = k}
  BY <1>1, <1>2
<1> DEFINE left == {r \in 0..(dcp * (tp \div dcp) - 1) : r % dcp = k}
<1>5. IsFiniteSet(left) /\ Cardinality(left) = tp \div dcp
  BY <1>3, CountRemainders
<1> HIDE DEF left
<1>6. QED BY <1>4, <1>5 DEF left

\* What compute_extra_count adds to a lock is the other ranks of the key.
LEMMA ExtraIsOthers ==
    ASSUME CaseOK, case.extraCount
    PROVE  ExtraCount \in Nat /\ 1 + ExtraCount = tp \div dcp
<1>1. /\ tp \in Nat \ {0} /\ dcp \in Nat \ {0} /\ KvWorld = dcp
      /\ tp \div dcp \in Nat /\ tp = dcp * (tp \div dcp)
  BY RanksAndKeys
<1>2. tp \div dcp # 0 BY <1>1
<1>3. CASE tp > dcp BY <1>1, <1>2, <1>3 DEF ExtraCount
<1>4. CASE ~(tp > dcp)
  <2>1. tp \div dcp >= 2 => dcp * (tp \div dcp) >= dcp * 2
    <3>1. SUFFICES ASSUME tp \div dcp >= 2
                   PROVE  dcp * (tp \div dcp) >= dcp * 2
      OBVIOUS
    <3>2. tp \div dcp = 2 + (tp \div dcp - 2) /\ tp \div dcp - 2 \in Nat
      BY <1>1, <3>1
    <3>3. dcp * (tp \div dcp) = dcp * 2 + dcp * (tp \div dcp - 2)
      BY <1>1, <3>2
    <3>4. dcp * (tp \div dcp - 2) \in Nat /\ dcp * 2 \in Nat BY <1>1, <3>2
    <3>5. QED BY <3>3, <3>4
  <2>2. tp \div dcp = 1 BY <1>1, <1>2, <1>4, <2>1
  <2>3. QED BY <1>1, <1>4, <2>2 DEF ExtraCount
<1>5. QED BY <1>3, <1>4

-------------------------------------------------------------------------------
(* The locks of a lookup. *)

LEMMA LookupKeeps == ASSUME CaseOK, LockInv, Lookup PROVE LockInv'
<1> DEFINE n == 1 + ExtraCount
<1> USE DEF LockInv, Lookup, LocksReturn
<1>1. UNCHANGED case /\ loaded' = {} /\ doing' \in {"loading", "computing"}
  OBVIOUS
<1>2. UNCHANGED <<tp, dcp, RankIds, KvWorld, KeyRanks>> /\ \A r : KvRank(r)' = KvRank(r)
  BY <1>1 DEF tp, dcp, RankIds, KvWorld, KeyRanks, KvRank
<1>3. ExtraCount \in Int
  BY RanksAndKeys DEF ExtraCount
<1>4. CASE doing' = "computing"
  <2>1. UNCHANGED locks BY <1>4
  <2>2. QED BY <1>1, <1>2, <1>4, <2>1
<1>5. CASE doing' = "loading"
  <2>1. locks' = [k \in KeyPlaces |-> IF k \in KeyRanks THEN locks[k] + 1 + ExtraCount
                                      ELSE locks[k]]
    BY <1>5
  <2>2. locks' \in [KeyPlaces -> Int] BY <1>3, <2>1
  <2>3. ASSUME case.extraCount, NEW k \in KeyRanks
        PROVE  locks'[k] = Cardinality(Sharing(k, RankIds))
    <3>1. locks[k] = 0 BY <2>3
    <3>2. k \in KeyPlaces BY RanksAndKeys
    <3>3. locks'[k] = 1 + ExtraCount BY <1>3, <2>1, <3>1, <3>2
    <3>4. QED BY <2>3, <3>3, ExtraIsOthers, KeyCount
  <2>4. \A k : Sharing(k, RankIds) = {r \in RankIds' \ loaded' : KvRank(r)' = k}
    BY <1>1, <1>2 DEF Sharing
  <2>5. QED BY <1>1, <1>2, <1>5, <2>2, <2>3, <2>4
<1>6. QED BY <1>1, <1>4, <1>5

LEMMA LoadChunksKeeps ==
    ASSUME CaseOK, LockInv, NEW r \in RankIds, LoadChunks(r)
    PROVE  LockInv'
<1> USE DEF LockInv, LoadChunks, LocksReturn
<1>1. UNCHANGED case /\ loaded' = loaded \cup {r} /\ r \notin loaded
  OBVIOUS
<1>2. UNCHANGED <<tp, dcp, RankIds, KvWorld, KeyRanks>> /\ \A s : KvRank(s)' = KvRank(s)
  BY <1>1 DEF tp, dcp, RankIds, KvWorld, KeyRanks, KvRank
<1>3. KvRank(r) \in KeyRanks /\ KeyRanks \subseteq KeyPlaces BY RanksAndKeys
<1>4. locks' = [locks EXCEPT ![KvRank(r)] = locks[KvRank(r)] - 1] OBVIOUS
<1>5. locks' \in [KeyPlaces -> Int] BY <1>3, <1>4
<1>6. ASSUME case.extraCount, NEW k \in KeyRanks
      PROVE  locks'[k] = Cardinality(Sharing(k, RankIds \ loaded'))
  <2> DEFINE before == Sharing(k, RankIds \ loaded)
  <2>1. locks[k] = Cardinality(before) BY <1>6 DEF Sharing
  <2>2. IsFiniteSet(before)
    <3>1. before \in SUBSET Sharing(k, RankIds) BY DEF Sharing
    <3>2. QED BY <3>1, KeyCount, FS_Subset
  <2>3. CASE KvRank(r) = k
    <3>1. Sharing(k, RankIds \ loaded') = before \ {r} BY <1>1 DEF Sharing
    <3>2. r \in before BY <1>1, <2>3 DEF Sharing
    <3>3. Cardinality(before \ {r}) = Cardinality(before) - 1
      BY <2>2, <3>2, FS_RemoveElement
    <3>4. QED BY <1>3, <1>4, <2>1, <2>3, <3>1, <3>3
  <2>4. CASE KvRank(r) # k
    <3>1. Sharing(k, RankIds \ loaded') = before BY <1>1, <2>4 DEF Sharing
    <3>2. locks'[k] = locks[k] BY <1>3, <1>4, <2>4
    <3>3. QED BY <2>1, <3>1, <3>2
  <2>5. QED BY <2>3, <2>4
<1>7. \A k : Sharing(k, RankIds \ loaded') = {s \in RankIds' \ loaded' : KvRank(s)' = k}
  BY <1>2 DEF Sharing
<1>8. CASE loaded' = RankIds
  <2>1. \A k : Sharing(k, RankIds \ loaded') = {} BY <1>8 DEF Sharing
  <2>2. case.extraCount => \A k \in KeyRanks : locks'[k] = 0
    BY <1>6, <2>1, FS_EmptySet
  <2>3. doing' = "computing" BY <1>8
  <2>4. QED BY <1>1, <1>2, <1>5, <2>2, <2>3
<1>9. CASE loaded' # RankIds
  <2>1. doing' = "loading" BY <1>9
  <2>2. QED BY <1>1, <1>2, <1>5, <1>6, <1>7, <2>1
<1>10. QED BY <1>8, <1>9
\* Steps that are neither a lookup nor a load leave the locks alone.
LEMMA LocksStay ==
    ASSUME LockInv, UNCHANGED <<case, locks, loaded>>,
           \/ doing' = doing
           \/ doing # "loading" /\ doing' \notin {"loading", "start"}
    PROVE  LockInv'
<1>1. UNCHANGED <<tp, dcp, RankIds, KvWorld, KeyRanks>> /\ \A r : KvRank(r)' = KvRank(r)
  BY DEF tp, dcp, RankIds, KvWorld, KeyRanks, KvRank
<1>2. \A k : {r \in RankIds \ loaded : KvRank(r) = k}
               = {r \in RankIds' \ loaded' : KvRank(r)' = k}
  BY <1>1
<1>3. LocksReturn' BY <1>1, <1>2 DEF LockInv, LocksReturn
<1>4. QED BY <1>1, <1>3 DEF LockInv

LEMMA OtherStepsKeepLocks ==
    ASSUME LockInv,
           \/ Preempt \/ Complete \/ GoOn \/ GiveUp \/ Judge
           \/ Begun(daemon = "running")
           \/ \E s \in sent : TakeStore(s) \/ WriteChunk(s)
    PROVE  LockInv'
<1>1. UNCHANGED <<case, locks, loaded>>
  BY DEF Preempt, Complete, GoOn, GiveUp, Judge, Begun, Report, TakeStore, WriteChunk,
         toolVars, cacheVars
<1>2. \/ doing' = doing
      \/ doing # "loading" /\ doing' \notin {"loading", "start"}
  BY DEF Preempt, Complete, GoOn, GiveUp, Judge, Begun, Report, TakeStore, WriteChunk,
         toolVars
<1>3. QED BY <1>1, <1>2, LocksStay

\* The deployment is chosen when nothing has been asked of the server yet.
LEMMA CaseKeeps ==
    ASSUME StartInv, CaseInv, [DeployNext]_deployVars
    PROVE  /\ CaseInv'
           /\ case' # case => doing = "start" /\ UNCHANGED <<at, doing, results, verdict>>
                              /\ UNCHANGED cacheVars
<1> USE DEF CaseInv
<1>1. CASE ShellRuns
  <2>1. UNCHANGED <<at, doing, results, verdict, cacheVars>> BY <1>1 DEF ShellRuns
  <2>2. vllm # "none" => vllm' # "none"
    BY <1>1 DEF ShellRuns, ShellStep, Begin, SetTrap, CheckAlive, CheckReady, Sleep,
                Launch, WaitEnds
  <2>3. CASE shell = "begin"
    <3>1. vllm = "none" BY <2>3, Zenon DEF StartInv, Order
    <3>2. doing = "start" BY <3>1
    <3>3. PICK c \in Cases :
            case' = [c EXCEPT !.mlaStore = "mla_store" \in image,
                              !.extraCount = "extra_count" \in image]
      BY <1>1, <2>3 DEF ShellRuns
    <3>4. c \in CaseRecords /\ c.tp % c.dcp = 0
      BY CasesAssumption DEF CaseRecords
    <3>5. CaseOK'
      <4> DEFINE m == "mla_store" \in image
                 e == "extra_count" \in image
      <4>1. case' = [c EXCEPT !.mlaStore = m, !.extraCount = e] BY <3>3, Zenon
      <4>2. m \in BOOLEAN /\ e \in BOOLEAN OBVIOUS
      <4> HIDE <3>3 DEF m, e
      <4>3. case' \in CaseRecords /\ case'.tp = c.tp /\ case'.dcp = c.dcp
        BY <3>4, <4>1, <4>2 DEF CaseRecords
      <4>4. QED BY <3>4, <4>3 DEF CaseOK, tp, dcp, CaseRecords
    <3>6. QED BY <2>1, <2>2, <3>2, <3>5
  <2>4. CASE shell # "begin"
    <3>1. UNCHANGED case BY <1>1, <2>4 DEF ShellRuns
    <3>2. CaseOK' BY <3>1 DEF CaseOK, tp, dcp
    <3>3. QED BY <2>1, <2>2, <3>1, <3>2
  <2>5. QED BY <2>3, <2>4
<1>2. CASE ~ShellRuns
  <2>1. UNCHANGED case
    BY <1>2 DEF DeployNext, deployVars, BuildStep, DaemonRuns, SignalSent,
                WeightsRead, LoadFails, ToolBegins, ToolRuns, ReuseStep, Lookup,
                Preempt, Complete, GoOn, GiveUp, Judge, LoadChunks, TakeStore,
                WriteChunk, Begun, reuseVars, toolVars
  <2>2. \/ UNCHANGED doing
        \/ vllm = "running" /\ UNCHANGED vllm
    BY <1>2 DEF DeployNext, deployVars, BuildStep, DaemonRuns, SignalSent,
                WeightsRead, LoadFails, ToolBegins, ToolRuns, Serving, reuseVars,
                toolVars, startVars
  <2>3. vllm # "none" => vllm' # "none"
    BY <1>2 DEF DeployNext, deployVars, BuildStep, DaemonRuns, SignalSent,
                WeightsRead, LoadFails, ToolBegins, ToolRuns, Announce,
                DaemonDies, Signal, VllmExits, startVars
  <2>4. CaseOK' BY <2>1 DEF CaseOK, tp, dcp
  <2>5. QED BY <2>1, <2>2, <2>3, <2>4
<1>3. QED BY <1>1, <1>2

LEMMA LockInvNext ==
    ASSUME StartInv, CaseInv, LockInv, [DeployNext]_deployVars
    PROVE  LockInv'
<1>1. CaseInv' BY CaseKeeps
<1>2. CASE case' # case
  <2>1. doing = "start" /\ doing' = "start" /\ UNCHANGED <<locks, loaded>>
    BY <1>2, CaseKeeps DEF cacheVars
  <2>2. KeyRanks' \subseteq KeyPlaces
    <3>1. FourContexts \in Nat BY ReuseAssumption
    <3>2. case'.dcp \in 1..FourContexts
      BY <1>1 DEF CaseInv, CaseOK, CaseRecords
    <3>3. KeyRanks' = 0..(case'.dcp - 1)
      BY <3>1, <3>2 DEF KeyRanks, KvWorld, dcp
    <3>4. QED BY <3>1, <3>2, <3>3 DEF KeyPlaces
  <2>3. QED BY <2>1, <2>2 DEF LockInv, LocksReturn
<1>3. CASE case' = case
  <2>1. CASE ToolRuns
    BY <2>1, LookupKeeps, LoadChunksKeeps, OtherStepsKeepLocks
       DEF ToolRuns, ReuseStep, CaseInv
  <2>2. CASE ToolBegins BY <2>2, OtherStepsKeepLocks DEF ToolBegins
  <2>3. CASE ~ToolRuns /\ ~ToolBegins
    <3>1. UNCHANGED <<doing, locks, loaded>>
      BY <2>3 DEF DeployNext, deployVars, BuildStep, ShellRuns, DaemonRuns,
                  SignalSent, WeightsRead, LoadFails, reuseVars, toolVars, cacheVars
    <3>2. QED BY <1>3, <3>1, LocksStay
  <2>4. QED BY <2>1, <2>2, <2>3
<1>4. QED BY <1>2, <1>3

LEMMA CaseInvInit == DeployInit => CaseInv
<1> SUFFICES ASSUME DeployInit PROVE CaseInv
  OBVIOUS
<1>1. case \in Cases BY CasesAssumption DEF DeployInit
<1>2. CaseOK BY <1>1, CasesAssumption DEF CaseOK, CaseRecords, tp, dcp
<1>3. QED BY <1>2 DEF CaseInv, DeployInit, ReuseInit

LEMMA LockInvInit == DeployInit => LockInv
<1> SUFFICES ASSUME DeployInit PROVE LockInv
  OBVIOUS
<1>1. KeyRanks \subseteq KeyPlaces BY CaseInvInit, RanksAndKeys DEF CaseInv
<1>2. QED
  BY <1>1 DEF DeployInit, ReuseInit, LockInv, LocksReturn, KeyPlaces

\* The deployment stays, once something was asked of it.
LEMMA CaseInvariant == DeploySpec => []CaseInv
<1>1. StartInv /\ CaseInv /\ [DeployNext]_deployVars => CaseInv' BY CaseKeeps
<1>2. QED BY <1>1, CaseInvInit, StartInvariant, PTL DEF DeploySpec

\* For any number of ranks and any part of them that shares a copy of the
\* cache: the ranks of a key give back exactly the locks their lookup took
\* (patch_dcp_lmcache's compute_extra_count).
THEOREM LocksComeBack == DeploySpec => []LocksReturn
<1>1. StartInv /\ CaseInv /\ LockInv /\ [DeployNext]_deployVars => LockInv'
  BY LockInvNext
<1>2. LockInv => LocksReturn BY DEF LockInv
<1>3. QED
  BY <1>1, <1>2, LockInvInit, StartInvariant, CaseInvariant, PTL DEF DeploySpec
-------------------------------------------------------------------------------
(* The programs of the tools. *)

LEMMA ContextsAre ==
    /\ Len(Contexts) \in Nat \ {0} /\ DOMAIN Contexts = 1..Len(Contexts)
    /\ \A p \in 1..Len(Contexts) : Contexts[p] \in Nat \ {0} /\ Contexts[p] % ChunkTokens = 0
<1>1. Contexts \in Seq(Nat \ {0}) /\ Contexts # <<>> BY ReuseAssumption
<1>2. Len(Contexts) \in Nat \ {0} BY <1>1, EmptySeq
<1>3. DOMAIN Contexts = 1..Len(Contexts) BY <1>1, LenProperties
<1>4. \A p \in 1..Len(Contexts) : Contexts[p] \in Nat \ {0} BY <1>1, ElementOfSeq
<1>5. QED BY <1>2, <1>3, <1>4, ReuseAssumption

LEMMA FunctionIsSeq ==
    ASSUME NEW S, NEW n \in Nat, NEW f \in [1..n -> S]
    PROVE  f \in Seq(S) /\ Len(f) = n
OBVIOUS

LEMMA ProgramParts ==
    ASSUME CaseOK
    PROVE  /\ \A await \in {"all", "nothing"} :
                Fills(await) \in Seq(Requests) /\ Len(Fills(await)) = case.fills
           /\ MatrixContexts \in Seq(Requests)
           /\ Len(MatrixContexts) = 2 * Len(Contexts)
           /\ MatrixReplays \in Seq(Requests) /\ Len(MatrixReplays) = Len(Contexts)
           /\ \A p \in 1..Len(Contexts) :
                MatrixReplays[p] = Request("external", p, "nothing")
           /\ case.fills \in Nat
<1> DEFINE L == Len(Contexts)
<1>1. /\ L \in Nat \ {0} /\ DOMAIN Contexts = 1..L /\ MaxFills \in Nat
      /\ case.fills \in 0..MaxFills
  BY ContextsAre, ReuseAssumption DEF CaseOK, CaseRecords
<1>2. Prompts = 1..(L + MaxFills) BY DEF Prompts
<1> HIDE DEF L
<1>3. ASSUME NEW await \in {"all", "nothing"}
      PROVE  Fills(await) \in Seq(Requests) /\ Len(Fills(await)) = case.fills
  <2>1. Fills(await) = [i \in 1..case.fills |-> Request("fill", L + i, await)]
    BY DEF Fills, L
  <2>2. \A i \in 1..case.fills : Request("fill", L + i, await) \in Requests
    <3>1. \A i \in 1..case.fills : L + i \in Prompts BY <1>1, <1>2
    <3>2. QED BY <1>3, <3>1 DEF Request, Requests
  <2>3. Fills(await) \in [1..case.fills -> Requests] BY <2>1, <2>2
  <2>4. QED BY <1>1, <2>3, FunctionIsSeq
<1>4. MatrixContexts \in Seq(Requests) /\ Len(MatrixContexts) = 2 * L
  <2>1. MatrixContexts = [j \in 1..(2 * L) |->
                            IF j % 2 = 1 THEN Request("cold", (j + 1) \div 2, "all")
                            ELSE Request("local", j \div 2, "nothing")]
    BY DEF MatrixContexts, L
  <2>2. \A p \in Prompts : /\ Request("cold", p, "all") \in Requests
                           /\ Request("local", p, "nothing") \in Requests
    BY DEF Request, Requests
  <2>3. \A j \in 1..(2 * L) : /\ j % 2 = 1 => (j + 1) \div 2 \in Prompts
                              /\ j % 2 # 1 => j \div 2 \in Prompts
    BY <1>1, <1>2
  <2>4. MatrixContexts \in [1..(2 * L) -> Requests] BY <2>1, <2>2, <2>3
  <2>5. 2 * L \in Nat BY <1>1
  <2>6. QED BY <2>4, <2>5, FunctionIsSeq
<1>5. /\ MatrixReplays \in Seq(Requests) /\ Len(MatrixReplays) = L
      /\ \A p \in 1..L : MatrixReplays[p] = Request("external", p, "nothing")
  <2>1. MatrixReplays = [p \in 1..L |-> Request("external", p, "nothing")]
    BY <1>1 DEF MatrixReplays
  <2>2. \A p \in 1..L : Request("external", p, "nothing") \in Requests
    BY <1>1, <1>2 DEF Request, Requests
  <2>3. MatrixReplays \in [1..L -> Requests] BY <2>1, <2>2
  <2>4. QED BY <1>1, <2>1, <2>3, FunctionIsSeq
<1>6. QED BY <1>1, <1>3, <1>4, <1>5 DEF L

LEMMA Concatenated ==
    ASSUME NEW S, NEW s \in Seq(S), NEW t \in Seq(S)
    PROVE  /\ s \o t \in Seq(S) /\ Len(s \o t) = Len(s) + Len(t)
           /\ \A i \in 1..(Len(s) + Len(t)) :
                (s \o t)[i] = IF i <= Len(s) THEN s[i] ELSE t[i - Len(s)]
OBVIOUS

\* A program is a sequence of requests, and the matrix ends with the replay of
\* every context.
LEMMA ProgramIs ==
    ASSUME CaseOK
    PROVE  /\ Program \in Seq(Requests) /\ Len(Program) \in Nat \ {0}
           /\ DOMAIN Program = 1..Len(Program)
           /\ case.tool = "matrix" =>
                \A p \in 1..Len(Contexts) :
                  \E i \in 1..Len(Program) :
                    Program[i] = Request("external", p, "nothing")
<1> DEFINE L == Len(Contexts)
<1>1. L \in Nat \ {0} /\ case.fills \in Nat BY ContextsAre, ProgramParts
<1>2. case.tool \in {"matrix", "verify", "boundary"}
  BY DEF CaseOK, CaseRecords
<1>3. /\ Request("cold", 1, "one") \in Requests
      /\ Request("cold", 1, "drain") \in Requests
      /\ Request("replay", 1, "nothing") \in Requests
  <2>1. 1 \in Prompts BY ContextsAre, ReuseAssumption DEF Prompts
  <2>2. QED BY <2>1 DEF Request, Requests
<1>4. CASE case.tool = "matrix"
  <2> DEFINE first == MatrixContexts \o Fills("all")
  <2>1. Program = first \o MatrixReplays BY <1>4 DEF Program
  <2>2. first \in Seq(Requests) /\ Len(first) = 2 * L + case.fills
    <3> DEFINE fills == Fills("all")
    <3>1. fills \in Seq(Requests) /\ Len(fills) = case.fills
      BY ProgramParts
    <3>2. MatrixContexts \in Seq(Requests) /\ Len(MatrixContexts) = 2 * L
      BY ProgramParts
    <3> HIDE DEF fills, L
    <3>3. Len(first) = Len(MatrixContexts) + Len(fills) /\ first \in Seq(Requests)
      BY <3>1, <3>2, Concatenated DEF fills
    <3>4. QED BY <3>1, <3>2, <3>3
  <2> HIDE DEF first
  <2>3. /\ Program \in Seq(Requests) /\ Len(Program) = Len(first) + L
        /\ \A i \in 1..(Len(first) + L) :
             Program[i] = IF i <= Len(first) THEN first[i]
                          ELSE MatrixReplays[i - Len(first)]
    <3>1. MatrixReplays \in Seq(Requests) /\ Len(MatrixReplays) = L
      BY ProgramParts
    <3> HIDE DEF L
    <3>2. QED BY <2>1, <2>2, <3>1, Concatenated
  <2>4. ASSUME NEW p \in 1..L
        PROVE  \E i \in 1..Len(Program) : Program[i] = Request("external", p, "nothing")
    <3>1. Len(first) \in Nat BY <1>1, <2>2
    <3>2. Len(first) + p \in 1..Len(Program) /\ Len(first) + p > Len(first)
          /\ (Len(first) + p) - Len(first) = p
      BY <1>1, <2>3, <3>1
    <3>3. Program[Len(first) + p] = MatrixReplays[p] BY <2>3, <3>1, <3>2
    <3>4. QED BY <3>2, <3>3, ProgramParts
  <2>5. Len(Program) \in Nat \ {0} BY <1>1, <2>2, <2>3
  <2>6. QED BY <2>3, <2>4, <2>5, LenProperties
<1>5. CASE case.tool = "verify"
  <2> DEFINE ask == <<Request("cold", 1, "one")>>
             replay == <<Request("replay", 1, "nothing")>>
  <2>1. Program = (ask \o Fills("nothing")) \o replay
    BY <1>5 DEF Program, VerifyProgram
  <2>2. /\ ask \in Seq(Requests) /\ Len(ask) = 1
        /\ replay \in Seq(Requests) /\ Len(replay) = 1
    BY <1>3
  <2> HIDE DEF ask, replay
  <2>3. /\ ask \o Fills("nothing") \in Seq(Requests)
        /\ Len(ask \o Fills("nothing")) = 1 + case.fills
    <3> DEFINE fills == Fills("nothing")
    <3>1. fills \in Seq(Requests) /\ Len(fills) = case.fills
      BY ProgramParts
    <3> HIDE DEF fills
    <3>2. ask \o fills \in Seq(Requests) /\ Len(ask \o fills) = Len(ask) + Len(fills)
      BY <2>2, <3>1, Concatenated
    <3>3. QED BY <2>2, <3>1, <3>2 DEF fills
  <2>4. Program \in Seq(Requests) /\ Len(Program) = 1 + case.fills + 1
    <3> DEFINE most == ask \o Fills("nothing")
    <3>1. most \in Seq(Requests) /\ Len(most) = 1 + case.fills BY <2>3
    <3>2. Program = most \o replay BY <2>1
    <3> HIDE DEF most
    <3>3. Program \in Seq(Requests) /\ Len(Program) = Len(most) + Len(replay)
      BY <2>2, <3>1, <3>2, Concatenated
    <3>4. QED BY <2>2, <3>1, <3>3
  <2>5. QED BY <1>1, <1>5, <2>4, LenProperties
<1>6. CASE case.tool = "boundary"
  <2>1. Program = <<Request("cold", 1, "drain")>>
    BY <1>6 DEF Program, BoundaryProgram
  <2>2. Program \in Seq(Requests) /\ Len(Program) = 1 BY <1>3, <2>1
  <2>3. QED BY <1>6, <2>2, LenProperties
<1>7. QED BY <1>2, <1>4, <1>5, <1>6
-------------------------------------------------------------------------------
(* What a pass says of the cache. *)

LEMMA MinOfNaturals ==
    ASSUME NEW S, S \subseteq Nat, S # {}
    PROVE  Min(S) \in S /\ \A y \in S : Min(S) <= y
<1>1. \E x \in S : \A y \in S : x <= y BY LeastExists
<1>2. QED BY <1>1 DEF Min

LEMMA MaxOfBounded ==
    ASSUME NEW S, NEW n \in Nat, S \subseteq 0..n, S # {}
    PROVE  Max(S) \in S
<1>1. \E x \in S : \A y \in S : x >= y BY GreatestExists
<1>2. QED BY <1>1 DEF Max

LEMMA Sizes ==
    ASSUME NEW p \in Prompts
    PROVE  Tokens(p) \in Nat /\ Size(p) \in Nat
<1>1. Tokens(p) \in Nat
  BY ContextsAre, ReuseAssumption DEF Prompts, Tokens
<1>2. QED BY <1>1, ReuseAssumption, DivMod DEF Size

LEMMA LocalPrefixType ==
    ASSUME NEW p \in Prompts
    PROVE  LocalPrefix(p) \in Nat
<1> DEFINE prefixes == {n \in 0..Size(p) : \A i \in 1..n : Contains(resident, <<p, i>>)}
<1>1. prefixes \subseteq 0..Size(p) /\ 0 \in prefixes BY Sizes
<1>2. LocalPrefix(p) = Max(prefixes) BY DEF LocalPrefix
<1> HIDE DEF prefixes
<1>3. Size(p) \in Nat /\ prefixes # {} BY <1>1, Sizes
<1>4. Max(prefixes) \in prefixes BY <1>1, <1>3, MaxOfBounded
<1>5. Max(prefixes) \in 0..Size(p) BY <1>1, <1>4
<1>6. LocalPrefix(p) \in 0..Size(p) BY <1>2, <1>5
<1>7. QED BY <1>3, <1>6

LEMMA StoresAre ==
    ASSUME CaseOK, NEW p \in Prompts, NEW k \in KeyRanks
    PROVE  <<p, k>> \in AllStores
BY RanksAndKeys DEF AllStores, KeyPlaces

\* What a lookup finds is readable for every key.
LEMMA FoundIsReadable ==
    ASSUME CaseOK, StoreInv, NEW p \in Prompts
    PROVE  Found(p) \in Nat /\ Readable(p, Found(p))
<1> DEFINE chunks == {written[<<p, k>>] : k \in KeyRanks}
<1>1. \A k \in KeyRanks : written[<<p, k>>] \in Nat
  BY StoresAre DEF StoreInv
<1>2. chunks \subseteq Nat /\ chunks # {} BY <1>1, RanksAndKeys
<1>3. Found(p) = Min(chunks) BY DEF Found
<1> HIDE DEF chunks
<1>4. Found(p) \in Nat /\ \A n \in chunks : Found(p) <= n
  BY <1>2, <1>3, MinOfNaturals
<1>5. QED BY <1>4 DEF Readable, chunks

\* With the deployment, everything that is derived from it stays.
LEMMA CaseFixes ==
    ASSUME UNCHANGED case
    PROVE  /\ UNCHANGED <<tp, dcp, RankIds, KvWorld, KeyRanks, Program>>
           /\ \A r : UNCHANGED <<Shard(r), KvRank(r), Storing(r)>>
           /\ \A k : UNCHANGED Writers(k)
           /\ \A r : Own(r)' <=> Own(r)
           /\ OwnShards' <=> OwnShards
           /\ CaseOK' <=> CaseOK
<1>1. UNCHANGED <<tp, dcp>> BY DEF tp, dcp
<1>2. UNCHANGED <<RankIds, KvWorld>> /\ \A r : UNCHANGED Shard(r)
  BY <1>1 DEF RankIds, KvWorld, Shard
<1>3. UNCHANGED KeyRanks /\ \A r : UNCHANGED <<KvRank(r), Storing(r)>>
  BY <1>1, <1>2 DEF KeyRanks, KvRank, Storing
<1>4. \A k : UNCHANGED Writers(k) BY <1>2, <1>3 DEF Writers
<1>5. UNCHANGED Program
  BY DEF Program, MatrixContexts, Fills, MatrixReplays, VerifyProgram,
         BoundaryProgram
<1>6. \A r : Own(r)' <=> Own(r) BY <1>2, <1>3, <1>4 DEF Own
<1>7. OwnShards' <=> OwnShards BY <1>2, <1>6 DEF OwnShards
<1>8. CaseOK' <=> CaseOK BY <1>1 DEF CaseOK
<1>9. QED BY <1>1, <1>2, <1>3, <1>4, <1>5, <1>6, <1>7, <1>8

Grows == \A s \in AllStores : written'[s] >= written[s]

LEMMA StaysReadable ==
    ASSUME CaseOK, StoreInv, StoreInv', UNCHANGED case, Grows,
           NEW p \in Prompts, NEW n \in Nat, Readable(p, n)
    PROVE  Readable(p, n)'
<1>1. ASSUME NEW k \in KeyRanks PROVE n <= written'[<<p, k>>]
  <2>1. <<p, k>> \in AllStores BY StoresAre
  <2>2. written[<<p, k>>] \in Nat /\ written'[<<p, k>>] \in Nat
    BY <2>1 DEF StoreInv
  <2>3. n <= written[<<p, k>>] /\ written[<<p, k>>] <= written'[<<p, k>>]
    BY <2>1, <2>2 DEF Readable, Grows
  <2>4. QED BY <2>2, <2>3
<1>2. QED BY <1>1, CaseFixes DEF Readable

\* The cache server and the ranks only add to what is stored.
LEMMA StoreInvNext ==
    ASSUME CaseOK, StoreInv, UNCHANGED case,
           \/ UNCHANGED <<sent, taken, written>>
           \/ Complete /\ Now.prompt \in Prompts
           \/ \E s \in sent : TakeStore(s) \/ WriteChunk(s)
    PROVE  StoreInv' /\ Grows
<1> USE DEF StoreInv
<1>1. CASE UNCHANGED <<sent, taken, written>> BY <1>1 DEF Grows
<1>2. CASE Complete /\ Now.prompt \in Prompts
  <2>1. sent' = sent \cup Stores(Now.prompt) /\ UNCHANGED <<taken, written>>
    BY <1>2 DEF Complete
  <2>2. Stores(Now.prompt) \subseteq AllStores
    BY <1>2, StoresAre DEF Stores
  <2>3. QED BY <2>1, <2>2 DEF Grows
<1>3. ASSUME NEW s \in sent, TakeStore(s) PROVE StoreInv' /\ Grows
  BY <1>3 DEF TakeStore, Grows
<1>4. ASSUME NEW s \in sent, WriteChunk(s) PROVE StoreInv' /\ Grows
  <2>1. s \in AllStores /\ s[1] \in Prompts BY DEF AllStores
  <2>2. written[s] \in Nat /\ Size(s[1]) \in Nat BY <2>1, Sizes
  <2>3. /\ written[s] < Size(s[1]) /\ written' = [written EXCEPT ![s] = written[s] + 1]
        /\ UNCHANGED <<sent, taken>>
    BY <1>4 DEF WriteChunk
  <2>4. written' \in [AllStores -> Nat] BY <2>2, <2>3
  <2>5. \A t \in AllStores : written'[t] = IF t = s THEN written[s] + 1 ELSE written[t]
    BY <2>3
  <2>6. \A t \in AllStores : written'[t] <= Size(t[1]) BY <2>2, <2>3, <2>5
  <2>7. Grows BY <2>2, <2>5 DEF Grows
  <2>8. QED BY <2>3, <2>4, <2>6, <2>7
<1>5. QED BY <1>1, <1>2, <1>3, <1>4
LEMMA NowIs ==
    ASSUME CaseOK, ProgramInv, doing # "start"
    PROVE  Now \in Requests /\ Now.prompt \in Prompts /\ Now = Program[at]
<1>1. at \in DOMAIN Program BY ProgramIs DEF ProgramInv
<1>2. Program[at] \in Requests BY <1>1, ProgramIs, ElementOfSeq
<1>3. QED BY <1>2 DEF Now, Requests

\* What was readable stays so, spelled out for the next state.
LEMMA ReadableNext ==
    ASSUME CaseOK, StoreInv, StoreInv', UNCHANGED case, Grows
    PROVE  \A p \in Prompts, n \in Nat :
             Readable(p, n) => \A k \in KeyRanks' : n <= written'[<<p, k>>]
BY StaysReadable DEF Readable

LEMMA ResultsStay ==
    ASSUME CaseOK, StoreInv, StoreInv', UNCHANGED <<case, results>>, Grows,
           ProgramInv, HitInv
    PROVE  \A i \in 1..Len(results') : ResultHit(results[i])'
<1> TAKE i \in 1..Len(results')
<1>1. results[i] \in Outcomes BY ElementOfSeq DEF ProgramInv
<1>2. results[i].prompt \in Prompts /\ results[i].external \in Nat
  BY <1>1 DEF Outcomes
<1>3. ResultHit(results[i]) BY DEF HitInv
<1>4. results[i].local = 0 =>
        \A k \in KeyRanks' : results[i].external <= written'[<<results[i].prompt, k>>]
  BY <1>2, <1>3, ReadableNext DEF ResultHit
<1>5. results[i].right /\ results[i].external > 0 => OwnShards'
  BY <1>3, CaseFixes DEF ResultHit
<1>6. QED BY <1>4, <1>5 DEF ResultHit, Readable

LEMMA PassStays ==
    ASSUME CaseOK, StoreInv, StoreInv', UNCHANGED <<case, verdict>>, Grows,
           PassIsTrue
    PROVE  PassIsTrue'
<1> SUFFICES ASSUME verdict = "pass", case.tool = "matrix",
                    NEW p \in DOMAIN Contexts, NEW shard \in {Shard(r)' : r \in RankIds'}
             PROVE  \E k \in KeyRanks' :
                      /\ written'[<<p, k>>] = Size(p)
                      /\ \A w \in Writers(k)' : Shard(w)' = shard
  BY DEF PassIsTrue
<1>1. shard \in {Shard(r) : r \in RankIds} BY CaseFixes
<1>2. PICK k \in KeyRanks :
        written[<<p, k>>] = Size(p) /\ \A w \in Writers(k) : Shard(w) = shard
  BY <1>1 DEF PassIsTrue
<1>3. p \in Prompts BY ContextsAre, ReuseAssumption DEF Prompts
<1>4. <<p, k>> \in AllStores BY <1>3, StoresAre
<1>5. /\ written[<<p, k>>] \in Nat /\ written'[<<p, k>>] \in Nat
      /\ written'[<<p, k>>] <= Size(<<p, k>>[1])
      /\ written'[<<p, k>>] >= written[<<p, k>>]
  BY <1>4 DEF StoreInv, Grows
<1>6. written'[<<p, k>>] = Size(p) BY <1>2, <1>5
<1>7. k \in KeyRanks' /\ \A w \in Writers(k)' : Shard(w)' = shard
  BY <1>2, CaseFixes
<1>8. QED BY <1>6, <1>7

ToolInv == StoreInv /\ ProgramInv /\ HitInv /\ VerdictInv

LEMMA LookupFinds == ASSUME CaseOK, ToolInv, Lookup PROVE ToolInv'
<1> USE DEF ToolInv
<1>1. /\ doing = "asking" /\ doing' \in {"loading", "computing"}
      /\ UNCHANGED <<case, at, results, verdict, preempted, sent, taken, written>>
      /\ loaded' = {} /\ right' = (preempted => right)
  BY DEF Lookup
<1>2. StoreInv' /\ Grows BY <1>1, StoreInvNext
<1>3. Now \in Requests /\ Now.prompt \in Prompts /\ Now = Program[at]
  BY <1>1, NowIs
<1>4. UNCHANGED <<Now, Program>> BY <1>1, CaseFixes DEF Now
<1>5. LocalPrefix(Now.prompt) \in Nat /\ Found(Now.prompt) \in Nat
      /\ Readable(Now.prompt, Found(Now.prompt))
  BY <1>3, LocalPrefixType, FoundIsReadable
<1>6. \A i \in 1..Len(results') : ResultHit(results[i])'
  BY <1>1, <1>2, ResultsStay
<1>7. preempted \in BOOLEAN /\ right \in BOOLEAN BY DEF HitInv
<1>8. ASSUME preempted PROVE HitInv'
  <2>1. UNCHANGED hit /\ right' = right BY <1>1, <1>7, <1>8 DEF Lookup
  <2>2. hit.external \in Nat BY DEF HitInv
  <2>3. hit.local = 0 => \A k \in KeyRanks' : hit.external <= written'[<<Now.prompt, k>>]
    BY <1>1, <1>2, <1>3, <1>8, <2>2, ReadableNext DEF HitInv, Told
  <2>4. (hit.local = 0 => Readable(Now.prompt, hit.external))'
    BY <1>4, <2>1, <2>3 DEF Readable
  <2>5. right /\ hit.external > 0 => OwnShards' BY <1>1, <1>8, CaseFixes DEF HitInv, Used
  <2>6. /\ hit' \in [local : Nat, external : Nat]
        /\ right' \in BOOLEAN /\ preempted' \in BOOLEAN
    BY <1>1, <1>7, <2>1 DEF HitInv
  <2>7. doing' \in {"asking", "loading", "computing"} BY <1>1
  <2>8. right' /\ hit'.external > 0 => OwnShards' BY <2>1, <2>5
  <2>9. loaded' = {} BY <1>1
  <2>10. QED BY <1>6, <2>4, <2>6, <2>7, <2>8, <2>9, Zenon DEF HitInv
<1>9. ASSUME ~preempted PROVE HitInv'
  <2>1. /\ hit'.local = LocalPrefix(Now.prompt)
        /\ hit'.external = IF Found(Now.prompt) > LocalPrefix(Now.prompt)
                           THEN Found(Now.prompt) - LocalPrefix(Now.prompt) ELSE 0
        /\ hit' = [local |-> hit'.local, external |-> hit'.external]
        /\ doing' = "computing" => ~(hit'.external > 0)
    BY <1>9 DEF Lookup
  <2>2. hit'.local \in Nat /\ hit'.external \in Nat BY <1>5, <2>1
  <2>3. hit'.local = 0 => hit'.external = Found(Now.prompt) BY <1>5, <2>1
  <2>4. hit'.local = 0 =>
          \A k \in KeyRanks' : hit'.external <= written'[<<Now.prompt, k>>]
    BY <1>2, <1>1, <1>3, <1>5, <2>3, ReadableNext
  <2>5. hit' \in [local : Nat, external : Nat] BY <2>1, <2>2
  <2>6. (hit.local = 0 => Readable(Now.prompt, hit.external))'
    BY <1>4, <2>4 DEF Readable
  <2>7. right' = TRUE /\ ~preempted' /\ preempted' \in BOOLEAN /\ loaded' = {}
    BY <1>1, <1>7, <1>9
  <2>8. Used' => ~(hit'.external > 0) BY <2>1, <2>7 DEF Used
  <2>9. QED BY <1>6, <2>5, <2>6, <2>7, <2>8, Zenon DEF HitInv
<1>10. HitInv' BY <1>7, <1>8, <1>9
<1>11. ProgramInv' BY <1>1, <1>4 DEF ProgramInv
<1>12. VerdictInv' BY <1>1, <1>2, PassStays DEF VerdictInv
<1>13. QED BY <1>2, <1>10, <1>11, <1>12

LEMMA LoadChunksGets ==
    ASSUME CaseOK, ToolInv, NEW r \in RankIds, LoadChunks(r)
    PROVE  ToolInv'
<1> USE DEF ToolInv
<1>1. /\ doing = "loading" /\ doing' \in {"loading", "computing"}
      /\ UNCHANGED <<case, at, results, verdict, hit, preempted, sent, taken, written>>
      /\ loaded' = loaded \cup {r} /\ (doing' = "computing" => loaded' = RankIds)
  BY DEF LoadChunks
<1>2. right' \in BOOLEAN /\ (right' => right /\ Own(r))
  BY DEF LoadChunks, Own, HitInv
<1>3. StoreInv' /\ Grows BY <1>1, StoreInvNext
<1>4. Now.prompt \in Prompts /\ UNCHANGED <<Now, Program>>
  BY <1>1, NowIs, CaseFixes DEF Now
<1>5. HitInv'
  <2>1. \A i \in 1..Len(results') : ResultHit(results[i])'
    BY <1>1, <1>3, ResultsStay
  <2>2. hit.external \in Nat BY DEF HitInv
  <2>3. hit.local = 0 => \A k \in KeyRanks' : hit.external <= written'[<<Now.prompt, k>>]
    BY <1>1, <1>3, <1>4, <2>2, ReadableNext DEF HitInv, Told
  <2>4. (hit.local = 0 => Readable(Now.prompt, hit.external))'
    BY <1>1, <1>4, <2>3 DEF Readable
  <2>5. right' => \A s \in loaded' : Own(s)
    BY <1>1, <1>2 DEF HitInv
  <2>6. right' => \A s \in loaded' : Own(s)' BY <1>1, <2>5, CaseFixes
  <2>7. right' /\ doing' = "computing" => OwnShards'
    BY <1>1, <2>5, CaseFixes DEF OwnShards
  <2>8. right' /\ preempted /\ hit.external > 0 => OwnShards'
    BY <1>1, <1>2, CaseFixes DEF HitInv, Used
  <2>9. preempted \in BOOLEAN BY DEF HitInv
  <2>10. QED BY <1>1, <1>2, <2>1, <2>4, <2>6, <2>7, <2>8, <2>9 DEF HitInv, Used
<1>6. ProgramInv' BY <1>1, <1>4 DEF ProgramInv
<1>7. VerdictInv' BY <1>1, <1>3, PassStays DEF VerdictInv
<1>8. QED BY <1>3, <1>5, <1>6, <1>7

\* A preemption takes back nothing that the request was told.
LEMMA PreemptKeeps == ASSUME CaseOK, ToolInv, Preempt PROVE ToolInv'
<1> USE DEF ToolInv
<1>1. /\ doing = "computing" /\ doing' \in {"asking", "computing"} /\ preempted' = TRUE
      /\ UNCHANGED <<case, at, results, verdict, hit, right, loaded, sent, taken, written>>
  BY DEF Preempt
<1>2. StoreInv' /\ Grows BY <1>1, StoreInvNext
<1>3. UNCHANGED <<Now, Program, KeyRanks>> BY <1>1, CaseFixes DEF Now
<1>4. HitInv'
  <2>1. \A i \in 1..Len(results') : ResultHit(results[i])'
    BY <1>1, <1>2, ResultsStay
  <2>2. (hit.local = 0 => Readable(Now.prompt, hit.external))'
    BY <1>1, <1>3 DEF HitInv, Told, Readable
  <2>3. (right /\ hit.external > 0 => OwnShards)'
    BY <1>1, CaseFixes DEF HitInv, Used
  <2>4. hit' \in [local : Nat, external : Nat] /\ right' \in BOOLEAN
    BY <1>1 DEF HitInv
  <2>5. QED BY <1>1, <2>1, <2>2, <2>3, <2>4 DEF HitInv
<1>5. ProgramInv' BY <1>1, <1>3 DEF ProgramInv
<1>6. VerdictInv' BY <1>1, <1>2, PassStays DEF VerdictInv
<1>7. QED BY <1>2, <1>4, <1>5, <1>6

LEMMA CompleteAdds == ASSUME CaseOK, ToolInv, Complete PROVE ToolInv'
<1> USE DEF ToolInv
<1>1. /\ doing = "computing" /\ doing' = "waiting" /\ preempted' = FALSE
      /\ UNCHANGED <<case, at, verdict, hit, loaded, right, taken, written>>
      /\ results' = Append(results, Outcome)
  BY DEF Complete
<1>2. Now \in Requests /\ Now.prompt \in Prompts /\ Now = Program[at]
  BY <1>1, NowIs
<1>3. StoreInv' /\ Grows BY <1>1, <1>2, StoreInvNext
<1>4. UNCHANGED <<Now, Program>> BY <1>1, CaseFixes DEF Now
<1>5. /\ Outcome \in Outcomes /\ Outcome.kind = Now.kind
      /\ Outcome.prompt = Now.prompt /\ Outcome.local = hit.local
      /\ Outcome.external = hit.external /\ Outcome.right = right
  <2>1. /\ hit.local \in Nat /\ hit.external \in Nat /\ right \in BOOLEAN
        /\ preempted \in BOOLEAN
    BY DEF HitInv
  <2>2. (Now.kind = "external" /\ preempted) \in BOOLEAN BY <2>1
  <2>3. QED BY <1>2, <2>1, <2>2 DEF Outcome, Outcomes, Requests
<1>6. results \in Seq(Outcomes) /\ Len(results) \in Nat BY LenProperties DEF ProgramInv
<1>7. /\ results' \in Seq(Outcomes) /\ Len(results') = Len(results) + 1
      /\ \A i \in 1..Len(results) : results'[i] = results[i]
      /\ results'[Len(results) + 1] = Outcome
  BY <1>1, <1>5, <1>6, AppendProperties
<1>8. \A i \in 1..Len(results') : i \in 1..Len(results) \/ i = Len(results) + 1
  BY <1>6, <1>7
<1>9. Len(results) = at - 1 /\ at \in 1..Len(Program) /\ Len(results) + 1 = at
  <2>1. Len(results) = at - 1 /\ at \in 1..Len(Program) BY <1>1 DEF ProgramInv
  <2>2. Len(Program) \in Nat BY ProgramIs
  <2>3. QED BY <2>1, <2>2
<1>10. ProgramInv'
  <2>1. ASSUME NEW i \in 1..Len(results')
        PROVE  results'[i].kind = Program[i].kind /\ results'[i].prompt = Program[i].prompt
    <3>1. CASE i \in 1..Len(results) BY <1>7, <3>1 DEF ProgramInv
    <3>2. CASE i = Len(results) + 1 BY <1>2, <1>5, <1>7, <1>9, <3>2
    <3>3. QED BY <1>8, <3>1, <3>2
  <2>2. Len(results') = at /\ Len(results') <= Len(Program)
    <3>1. Len(Program) \in Nat BY ProgramIs
    <3>2. QED BY <1>7, <1>9, <3>1
  <2>3. QED BY <1>1, <1>4, <1>7, <1>9, <2>1, <2>2 DEF ProgramInv
<1>11. HitInv'
  <2>1. \A x \in Outcomes : ResultHit(x) =>
          /\ x.local = 0 => \A k \in KeyRanks' : x.external <= written'[<<x.prompt, k>>]
          /\ x.right /\ x.external > 0 => OwnShards'
    BY <1>1, <1>3, ReadableNext, CaseFixes DEF ResultHit, Outcomes
  <2>2. ResultHit(Outcome) BY <1>1, <1>5 DEF ResultHit, HitInv, Told, Used
  <2>3. ASSUME NEW i \in 1..Len(results') PROVE ResultHit(results[i])'
    <3>1. results'[i] \in Outcomes BY <1>7, ElementOfSeq
    <3>2. CASE i \in 1..Len(results)
      <4>1. ResultHit(results[i]) /\ results'[i] = results[i] BY <1>7, <3>2 DEF HitInv
      <4>2. QED BY <2>1, <3>1, <4>1 DEF ResultHit, Readable
    <3>3. CASE i = Len(results) + 1
      <4>1. results'[i] = Outcome BY <1>7, <3>3
      <4>2. QED BY <2>1, <2>2, <3>1, <4>1 DEF ResultHit, Readable
    <3>4. QED BY <1>8, <3>2, <3>3
  <2>4. QED BY <1>1, <2>3 DEF HitInv, Told, Used
<1>12. VerdictInv' BY <1>1, <1>3, PassStays DEF VerdictInv
<1>13. QED BY <1>3, <1>10, <1>11, <1>12

\* Steps that add no result and change nothing of the cache.
LEMMA ToolMoves ==
    ASSUME CaseOK, ToolInv, UNCHANGED <<case, results, cacheVars>>,
           (doing' \notin {"start", "loading", "computing"} /\ ~preempted) \/ doing' = doing,
           doing' = doing => at' = at,
           ProgramInv', VerdictInv'
    PROVE  ToolInv'
<1> USE DEF ToolInv
<1>1. UNCHANGED <<hit, loaded, right, preempted, sent, taken, written>> BY DEF cacheVars
<1>2. StoreInv' /\ Grows BY <1>1, StoreInvNext
<1>3. \A i \in 1..Len(results') : ResultHit(results[i])' BY <1>2, ResultsStay
<1>4. HitInv'
  <2>1. CASE doing' = doing
    <3>1. UNCHANGED Now BY <2>1, CaseFixes DEF Now
    <3>2. QED BY <1>1, <1>3, <2>1, <3>1, CaseFixes DEF HitInv, Told, Used, Readable
  <2>2. CASE doing' \notin {"start", "loading", "computing"} /\ ~preempted
    BY <1>1, <1>3, <2>2 DEF HitInv, Told, Used
  <2>3. QED BY <2>1, <2>2
<1>5. QED BY <1>2, <1>4

LEMMA ToolTalks ==
    ASSUME CaseOK, ToolInv, Begun(daemon = "running") \/ GoOn \/ GiveUp
    PROVE  ToolInv'
<1>1. UNCHANGED <<case, results, cacheVars>>
  BY DEF Begun, GoOn, GiveUp
<1>2. /\ Len(Program) \in Nat \ {0} /\ UNCHANGED Program
      /\ results \in Seq(Outcomes) /\ Len(results) \in Nat
  BY <1>1, ProgramIs, CaseFixes, LenProperties DEF ToolInv, ProgramInv
<1>7. ~preempted
  BY DEF Begun, GoOn, GiveUp, ToolInv, HitInv
<1>3. CASE Begun(daemon = "running")
  <2>1. /\ doing = "start" /\ UNCHANGED at
        /\ \/ doing' = "asking" /\ UNCHANGED verdict
           \/ doing' = "done" /\ verdict' = "error"
    BY <1>3 DEF Begun, Report
  <2>2. at = 1 /\ Len(results) = 0 BY <2>1, EmptySeq DEF ToolInv, ProgramInv
  <2>3. ProgramInv' BY <1>1, <1>2, <2>1, <2>2 DEF ToolInv, ProgramInv
  <2>4. VerdictInv'
    <3>1. verdict = "none" BY <2>1 DEF ToolInv, VerdictInv
    <3>2. QED BY <2>1, <3>1 DEF VerdictInv, PassIsTrue
  <2>5. QED BY <1>1, <1>7, <2>1, <2>3, <2>4, ToolMoves
<1>4. CASE GoOn
  <2>1. /\ doing = "waiting" /\ UNCHANGED verdict
        /\ \/ at < Len(Program) /\ at' = at + 1 /\ doing' = "asking"
           \/ ~(at < Len(Program)) /\ at' = at /\ doing' = "judging"
    BY <1>4 DEF GoOn
  <2>2. at \in 1..Len(Program) /\ Len(results) = at
    BY <2>1 DEF ToolInv, ProgramInv
  <2>3. ProgramInv' BY <1>1, <1>2, <2>1, <2>2 DEF ToolInv, ProgramInv
  <2>4. VerdictInv'
    <3>1. verdict = "none" BY <2>1 DEF ToolInv, VerdictInv
    <3>2. QED BY <2>1, <3>1 DEF VerdictInv, PassIsTrue
  <2>5. QED BY <1>1, <1>7, <2>1, <2>3, <2>4, ToolMoves
<1>5. CASE GiveUp
  <2>1. doing = "waiting" /\ UNCHANGED at /\ doing' = "done" /\ verdict' = "error"
    BY <1>5 DEF GiveUp, Report
  <2>2. ProgramInv' BY <1>1, <1>2, <2>1 DEF ToolInv, ProgramInv
  <2>3. VerdictInv' BY <2>1 DEF VerdictInv, PassIsTrue
  <2>4. QED BY <1>1, <1>7, <2>1, <2>2, <2>3, ToolMoves
<1>6. QED BY <1>3, <1>4, <1>5

\* A full restore, counted by a tool that went through its program, is one of
\* every chunk and of each rank's own shard.
LEMMA MatrixTells ==
    ASSUME CaseOK, ToolInv, doing = "judging", case.tool = "matrix", Holds
    PROVE  \A p \in DOMAIN Contexts, shard \in {Shard(r) : r \in RankIds} :
             \E k \in KeyRanks :
               /\ written[<<p, k>>] = Size(p)
               /\ \A w \in Writers(k) : Shard(w) = shard
<1> USE DEF ToolInv
<1> TAKE p \in DOMAIN Contexts, shard \in {Shard(r) : r \in RankIds}
<1>1. p \in 1..Len(Contexts) /\ p \in Prompts
  BY ContextsAre, ReuseAssumption DEF Prompts
<1>2. /\ Len(results) = Len(Program) /\ results \in Seq(Outcomes)
      /\ DOMAIN results = 1..Len(results)
  BY LenProperties DEF ProgramInv
<1>3. PICK i \in 1..Len(Program) : Program[i] = Request("external", p, "nothing")
  BY <1>1, ProgramIs
<1>4. /\ i \in DOMAIN results /\ results[i] \in Outcomes
      /\ results[i].kind = "external" /\ results[i].prompt = p
      /\ ResultHit(results[i])
  BY <1>2, <1>3, ElementOfSeq DEF ProgramInv, HitInv, Request
<1>5. MatrixHolds BY DEF Holds
<1>6. results[i].local = 0 /\ results[i].external * ChunkTokens = Tokens(p)
  BY <1>4, <1>5 DEF MatrixHolds, RestoredFully, Of
<1>7. results[i].right BY <1>4, <1>5 DEF MatrixHolds, OutputsMatch, Of
<1> DEFINE n == results[i].external
<1>8. n \in Nat /\ ChunkTokens \in Nat \ {0} BY <1>4, ReuseAssumption DEF Outcomes
<1>9. Tokens(p) \in Nat \ {0} BY <1>1, ContextsAre DEF Tokens
<1>10. n > 0
  <2>1. n = 0 => n * ChunkTokens = 0 BY <1>8
  <2>2. QED BY <1>6, <1>8, <1>9, <2>1
<1>11. Size(p) = n
  <2>1. ChunkTokens * n + 0 = Tokens(p)
    <3>1. n * ChunkTokens = ChunkTokens * n + 0 BY <1>8
    <3>2. QED BY <1>6, <3>1
  <2>2. 0 \in 0..(ChunkTokens - 1) BY <1>8
  <2>3. (ChunkTokens * n + 0) \div ChunkTokens = n BY <1>8, <2>2, DivUnique
  <2>4. QED BY <2>1, <2>3 DEF Size
<1>12. OwnShards /\ Readable(p, n) BY <1>4, <1>6, <1>7, <1>10 DEF ResultHit
<1>13. PICK r \in RankIds : shard = Shard(r) OBVIOUS
<1>14. KvRank(r) \in KeyRanks BY RanksAndKeys
<1>15. written[<<p, KvRank(r)>>] = Size(p)
  <2>1. <<p, KvRank(r)>> \in AllStores BY <1>1, <1>14, StoresAre
  <2>2. /\ written[<<p, KvRank(r)>>] \in Nat
        /\ written[<<p, KvRank(r)>>] <= Size(<<p, KvRank(r)>>[1])
    BY <2>1 DEF StoreInv
  <2>3. n <= written[<<p, KvRank(r)>>] BY <1>12, <1>14 DEF Readable
  <2>4. QED BY <1>8, <1>11, <2>2, <2>3
<1>16. \A w \in Writers(KvRank(r)) : Shard(w) = shard
  BY <1>12, <1>13 DEF OwnShards, Own
<1>17. QED BY <1>14, <1>15, <1>16

LEMMA JudgeKeeps == ASSUME CaseOK, ToolInv, Judge PROVE ToolInv'
<1>1. /\ doing = "judging" /\ doing' = "done"
      /\ UNCHANGED <<case, at, results, cacheVars>>
      /\ verdict' = IF Holds THEN "pass" ELSE "fail"
  BY DEF Judge, Report
<1>2. UNCHANGED Program BY <1>1, CaseFixes
<1>3. ProgramInv' BY <1>1, <1>2 DEF ToolInv, ProgramInv
<1>4. PassIsTrue'
  <2>1. CASE case.tool = "matrix" /\ Holds
    <3>1. \A p \in DOMAIN Contexts, shard \in {Shard(r) : r \in RankIds} :
            \E k \in KeyRanks :
              /\ written[<<p, k>>] = Size(p)
              /\ \A w \in Writers(k) : Shard(w) = shard
      BY <1>1, <2>1, MatrixTells
    <3>2. UNCHANGED written BY <1>1 DEF cacheVars
    <3>3. /\ UNCHANGED <<RankIds, KeyRanks>> /\ \A r : UNCHANGED Shard(r)
          /\ \A k : UNCHANGED Writers(k)
      BY <1>1, CaseFixes
    <3>4. QED BY <3>1, <3>2, <3>3 DEF PassIsTrue
  <2>2. CASE ~(case.tool = "matrix" /\ Holds) BY <1>1, <2>2 DEF PassIsTrue
  <2>3. QED BY <2>1, <2>2
<1>5. VerdictInv' BY <1>1, <1>4 DEF VerdictInv
<1>6. ~preempted BY <1>1 DEF ToolInv, HitInv
<1>7. QED BY <1>1, <1>3, <1>5, <1>6, ToolMoves

LEMMA ServerStores ==
    ASSUME CaseOK, ToolInv, NEW s \in sent, TakeStore(s) \/ WriteChunk(s)
    PROVE  ToolInv'
<1> USE DEF ToolInv
<1>1. UNCHANGED <<case, at, doing, results, verdict, hit, loaded, right, preempted>>
  BY DEF TakeStore, WriteChunk, toolVars
<1>2. StoreInv' /\ Grows BY <1>1, StoreInvNext
<1>3. UNCHANGED <<Now, Program>> BY <1>1, CaseFixes DEF Now
<1>4. HitInv'
  <2>1. \A i \in 1..Len(results') : ResultHit(results[i])'
    BY <1>1, <1>2, ResultsStay
  <2>2. Told /\ hit.local = 0 =>
          \A k \in KeyRanks' : hit.external <= written'[<<Now.prompt, k>>]
    <3>1. hit.external \in Nat BY DEF HitInv
    <3>2. Told => Now.prompt \in Prompts
      BY NowIs DEF HitInv, Told
    <3>3. QED BY <1>1, <1>2, <3>1, <3>2, ReadableNext DEF HitInv
  <2>3. QED BY <1>1, <1>3, <2>1, <2>2, CaseFixes DEF HitInv, Told, Used, Readable
<1>5. ProgramInv' BY <1>1, <1>3 DEF ProgramInv
<1>6. VerdictInv' BY <1>1, <1>2, PassStays DEF VerdictInv
<1>7. QED BY <1>2, <1>4, <1>5, <1>6
LEMMA ToolInvNext ==
    ASSUME StartInv, CaseInv, ToolInv, [DeployNext]_deployVars
    PROVE  ToolInv'
<1>1. CaseOK BY DEF CaseInv
<1>2. CASE case' # case
  <2>1. doing = "start" /\ UNCHANGED <<at, doing, results, verdict>>
        /\ UNCHANGED cacheVars
    BY <1>2, CaseKeeps
  <2>2. /\ results = <<>> /\ at = 1 /\ verdict = "none"
        /\ UNCHANGED <<sent, taken, written, hit, right, loaded, preempted>>
    BY <2>1 DEF ToolInv, ProgramInv, VerdictInv, cacheVars
  <2>3. StoreInv' BY <2>2 DEF ToolInv, StoreInv
  <2>4. Len(results') = 0 BY <2>1, <2>2, EmptySeq
  <2>5. ProgramInv' BY <2>1, <2>2, <2>4 DEF ToolInv, ProgramInv
  <2>6. HitInv' BY <2>1, <2>2, <2>4 DEF ToolInv, HitInv, Told, Used
  <2>7. VerdictInv' BY <2>1, <2>2 DEF VerdictInv, PassIsTrue
  <2>8. QED BY <2>3, <2>5, <2>6, <2>7 DEF ToolInv
<1>3. CASE case' = case
  <2>1. CASE ToolRuns
    BY <1>1, <2>1, LookupFinds, LoadChunksGets, PreemptKeeps, CompleteAdds, ToolTalks,
       JudgeKeeps, ServerStores DEF ToolRuns, ReuseStep
  <2>2. CASE ToolBegins BY <1>1, <2>2, ToolTalks DEF ToolBegins
  <2>3. CASE ~ToolRuns /\ ~ToolBegins
    <3>1. UNCHANGED <<at, doing, results, verdict, cacheVars>>
      BY <2>3 DEF DeployNext, deployVars, BuildStep, ShellRuns, DaemonRuns,
                  SignalSent, WeightsRead, LoadFails, reuseVars, toolVars
    <3>2. UNCHANGED <<sent, taken, written>> BY <3>1 DEF cacheVars
    <3>3. UNCHANGED Program BY <1>3, CaseFixes
    <3>4. ProgramInv' BY <3>1, <3>3 DEF ToolInv, ProgramInv
    <3>5. StoreInv' /\ Grows BY <1>1, <1>3, <3>2, StoreInvNext DEF ToolInv
    <3>6. VerdictInv' BY <1>1, <1>3, <3>1, <3>5, PassStays DEF ToolInv, VerdictInv
    <3>7. QED BY <1>1, <1>3, <3>1, <3>4, <3>6, ToolMoves
  <2>4. QED BY <2>1, <2>2, <2>3
<1>4. QED BY <1>2, <1>3

LEMMA ToolInvInit == DeployInit => ToolInv
<1> SUFFICES ASSUME DeployInit PROVE ToolInv
  OBVIOUS
<1> USE DEF DeployInit, ReuseInit
<1>1. StoreInv
  <2>1. \A s \in AllStores : Size(s[1]) \in Nat BY Sizes DEF AllStores
  <2>2. QED BY <2>1 DEF StoreInv
<1>2. results = <<>> /\ results \in Seq(Outcomes) /\ Len(results) = 0 BY EmptySeq
<1>3. ProgramInv BY <1>2 DEF ProgramInv
<1>4. HitInv
  <2>1. hit \in [local : Nat, external : Nat] /\ right = TRUE /\ preempted = FALSE
    OBVIOUS
  <2>2. ~Told /\ ~Used /\ doing # "loading" BY <2>1 DEF Told, Used
  <2>3. \A i \in 1..Len(results) : ResultHit(results[i]) BY <1>2
  <2>4. QED BY <2>1, <2>2, <2>3, Zenon DEF HitInv
<1>5. VerdictInv BY DEF VerdictInv, PassIsTrue
<1>6. QED BY <1>1, <1>3, <1>4, <1>5 DEF ToolInv

\* For any contexts, chunk size and group of ranks, and whether or not the count
\* the tool waits for runs ahead of the writes: what benchmark_reuse calls
\* restored from host RAM has every shard of every context in the cache.
THEOREM PassTellsTruth == DeploySpec => []PassIsTrue
<1>1. StartInv /\ CaseInv /\ ToolInv /\ [DeployNext]_deployVars => ToolInv'
  BY ToolInvNext
<1>2. ToolInv => PassIsTrue BY DEF ToolInv, VerdictInv
<1>3. QED
  BY <1>1, <1>2, ToolInvInit, StartInvariant, CaseInvariant, PTL DEF DeploySpec
\* A set of numbers with 0 that is closed under successor has every number.
LEMMA SetInduction ==
    ASSUME NEW N, N \subseteq Nat, 0 \in N, \A n \in N : n + 1 \in N
    PROVE  N = Nat
<1> SUFFICES ASSUME Nat \ N # {} PROVE FALSE OBVIOUS
<1>1. PICK x \in Nat \ N : \A y \in Nat \ N : x <= y BY LeastExists
<1>2. x # 0 /\ x - 1 \in Nat /\ x = (x - 1) + 1 BY <1>1
<1>3. ~(x <= x - 1) BY <1>2
<1>4. x - 1 \in N BY <1>1, <1>2, <1>3
<1>5. QED BY <1>2, <1>4

-------------------------------------------------------------------------------
(* What stays on the GPU. *)

\* The recursion of Others over the first m blocks of s.
OthersRec(o, m, s, p) ==
    o = [n \in 0..m |->
          IF n = 0 THEN <<>>
          ELSE IF s[n][1] = p THEN o[n - 1]
          ELSE Append(o[n - 1], s[n])]

\* q has of the first m blocks of s those that are not of p, in their order.
Passed(q, m, s, p) ==
    /\ q \in Seq({s[i] : i \in {j \in 1..m : s[j][1] # p}})
    /\ Len(q) <= m
    /\ (\A i \in 1..m : s[i][1] # p) => Len(q) = m /\ \A i \in 1..m : q[i] = s[i]

LEMMA PassedStep ==
    ASSUME NEW m \in Nat, NEW s, NEW p, NEW q, Passed(q, m, s, p)
    PROVE  Passed(IF s[m + 1][1] = p THEN q ELSE Append(q, s[m + 1]), m + 1, s, p)
<1> DEFINE S(n) == {s[i] : i \in {j \in 1..n : s[j][1] # p}}
<1>1. q \in Seq(S(m)) /\ Len(q) <= m BY DEF Passed
<1>2. S(m) \subseteq S(m + 1) /\ (s[m + 1][1] # p => s[m + 1] \in S(m + 1)) OBVIOUS
<1> HIDE DEF S
<1>3. q \in Seq(S(m + 1)) /\ Len(q) \in Nat BY <1>1, <1>2, SeqMonotonic, LenProperties
<1>4. CASE s[m + 1][1] = p
  <2>1. Len(q) <= m + 1 BY <1>1, <1>3
  <2>2. m + 1 \in 1..(m + 1) OBVIOUS
  <2>3. QED BY <1>3, <1>4, <2>1, <2>2 DEF Passed, S
<1>5. CASE s[m + 1][1] # p
  <2> DEFINE a == Append(q, s[m + 1])
  <2>1. /\ a \in Seq(S(m + 1)) /\ Len(a) = Len(q) + 1
        /\ \A i \in 1..Len(q) : a[i] = q[i]
        /\ a[Len(q) + 1] = s[m + 1]
    BY <1>2, <1>3, <1>5, AppendProperties
  <2> HIDE DEF a
  <2>2. Len(a) <= m + 1 BY <1>1, <1>3, <2>1
  <2>3. ASSUME \A i \in 1..(m + 1) : s[i][1] # p
        PROVE  Len(a) = m + 1 /\ \A i \in 1..(m + 1) : a[i] = s[i]
    <3>1. Len(q) = m /\ \A i \in 1..m : q[i] = s[i] BY <2>3 DEF Passed
    <3>2. \A i \in 1..(m + 1) : i \in 1..m \/ i = m + 1 OBVIOUS
    <3>3. QED BY <2>1, <3>1, <3>2
  <2>4. QED BY <1>5, <2>1, <2>2, <2>3 DEF Passed, S, a
<1>6. QED BY <1>4, <1>5

LEMMA OthersExist ==
    ASSUME NEW n \in Nat, NEW s, NEW p
    PROVE  \E o : OthersRec(o, n, s, p)
<1> DEFINE Has(m) == \E o : OthersRec(o, m, s, p)
           N == {m \in Nat : Has(m)}
<1>1. 0 \in N
  <2>1. OthersRec([k \in 0..0 |-> <<>>], 0, s, p) BY DEF OthersRec
  <2>2. QED BY <2>1
<1>2. ASSUME NEW m \in N PROVE m + 1 \in N
  <2>1. PICK o : OthersRec(o, m, s, p) OBVIOUS
  <2> DEFINE d == [k \in 0..(m + 1) |->
                     IF k = m + 1
                     THEN IF s[m + 1][1] = p THEN o[m] ELSE Append(o[m], s[m + 1])
                     ELSE o[k]]
  <2>2. m \in Nat OBVIOUS
  <2>3. \A k \in 0..m : o[k] = IF k = 0 THEN <<>>
                               ELSE IF s[k][1] = p THEN o[k - 1]
                               ELSE Append(o[k - 1], s[k])
    BY <2>1 DEF OthersRec
  <2>4. ASSUME NEW k \in 0..(m + 1)
        PROVE  d[k] = IF k = 0 THEN <<>>
                      ELSE IF s[k][1] = p THEN d[k - 1] ELSE Append(d[k - 1], s[k])
    <3>1. CASE k = m + 1
      <4>1. m \in 0..(m + 1) /\ m # m + 1 /\ k - 1 = m /\ k # 0 BY <2>2, <3>1
      <4>2. d[k - 1] = o[m] BY <4>1
      <4>3. d[k] = IF s[m + 1][1] = p THEN o[m] ELSE Append(o[m], s[m + 1])
        BY <3>1
      <4> HIDE DEF d
      <4>4. QED BY <3>1, <4>1, <4>2, <4>3
    <3>2. CASE k # m + 1
      <4>1. k \in 0..m /\ d[k] = o[k] BY <2>2, <3>2
      <4>2. k # 0 => d[k - 1] = o[k - 1] BY <2>2, <3>2
      <4> HIDE DEF d
      <4>3. QED BY <2>3, <4>1, <4>2
    <3>3. QED BY <3>1, <3>2
  <2>5. d = [k \in 0..(m + 1) |->
               IF k = 0 THEN <<>>
               ELSE IF s[k][1] = p THEN d[k - 1] ELSE Append(d[k - 1], s[k])]
    BY <2>4
  <2> HIDE DEF d
  <2>6. OthersRec(d, m + 1, s, p) BY <2>5 DEF OthersRec
  <2>7. QED BY <2>2, <2>6
<1> HIDE DEF Has
<1>3. N = Nat BY <1>1, <1>2, SetInduction
<1>4. QED BY <1>3 DEF Has

\* The blocks of the other prompts are some of those there were: all of them,
\* if the prompt has none.
LEMMA OthersAre ==
    ASSUME NEW S, resident \in Seq(S), NEW p
    PROVE  Passed(Others(p), Len(resident), resident, p)
<1>1. PICK s : s = resident OBVIOUS
<1>2. PICK n : n = Len(s) /\ n \in Nat BY <1>1, LenProperties
<1>3. Others(p) = (CHOOSE o : OthersRec(o, n, s, p))[n]
  BY <1>1, <1>2 DEF Others, OthersRec
<1>4. PICK o : o = (CHOOSE x : OthersRec(x, n, s, p)) OBVIOUS
<1>5. OthersRec(o, n, s, p) BY <1>2, <1>4, OthersExist
<1>6. \A k \in 0..n : o[k] = IF k = 0 THEN <<>>
                             ELSE IF s[k][1] = p THEN o[k - 1] ELSE Append(o[k - 1], s[k])
  BY <1>5 DEF OthersRec
<1> DEFINE N == {m \in Nat : m <= n => Passed(o[m], m, s, p)}
<1>7. 0 \in N
  <2>1. o[0] = <<>> BY <1>2, <1>6
  <2>2. Passed(<<>>, 0, s, p) BY EmptySeq DEF Passed
  <2>3. QED BY <2>1, <2>2
<1>8. ASSUME NEW m \in N PROVE m + 1 \in N
  <2>1. m \in Nat OBVIOUS
  <2>2. CASE m + 1 <= n
    <3>1. m + 1 \in 0..n /\ m + 1 # 0 /\ (m + 1) - 1 = m BY <1>2, <2>1, <2>2
    <3>2. o[m + 1] = IF s[m + 1][1] = p THEN o[m] ELSE Append(o[m], s[m + 1])
      BY <1>6, <3>1
    <3>3. Passed(o[m], m, s, p) BY <1>2, <2>1, <2>2
    <3>4. Passed(o[m + 1], m + 1, s, p) BY <2>1, <3>2, <3>3, PassedStep
    <3>5. QED BY <2>1, <3>4
  <2>3. QED BY <2>1, <2>2
<1>9. N = Nat BY <1>7, <1>8, SetInduction
<1>10. Passed(o[n], n, s, p) BY <1>2, <1>9
<1>11. QED BY <1>1, <1>2, <1>3, <1>4, <1>10

-------------------------------------------------------------------------------
\* A block is a chunk of a prompt, by its place.
Blocks == Prompts \X Nat

\* The blocks on the GPU are chunks of prompts, no more than fit.
ResidentInv ==
    /\ resident \in Seq(Blocks) /\ Len(resident) <= GpuChunks
    /\ \A j \in 1..Len(resident) : resident[j][2] \in 1..Size(resident[j][1])

\* s has the blocks of the end of t, at their distances from it.
EndOf(s, t) ==
    \A j \in 1..Len(s) :
      \E i \in 1..Len(t) : s[j] = t[i] /\ Len(s) - j = Len(t) - i

\* The end of a sequence.
LEMMA EndIs ==
    ASSUME NEW S, NEW s \in Seq(S), NEW n \in Nat,
           NEW e, e = IF Len(s) > n THEN SubSeq(s, Len(s) - n + 1, Len(s)) ELSE s
    PROVE  /\ e \in Seq(S) /\ Len(e) <= n
           /\ EndOf(e, s)
<1>1. Len(s) \in Nat /\ \A i \in 1..Len(s) : s[i] \in S
  BY LenProperties, ElementOfSeq
<1>2. CASE Len(s) > n
  <2>1. PICK m : m = Len(s) - n + 1 OBVIOUS
  <2>2. m \in 1..(Len(s) + 1) /\ e = SubSeq(s, m, Len(s)) /\ Len(s) - m + 1 = n
    BY <1>1, <1>2, <2>1
  <2>3. \A i \in m..Len(s) : s[i] \in S BY <1>1, <2>2
  <2>4. /\ e \in Seq(S) /\ Len(e) = n
        /\ \A i \in 1..n : e[i] = s[m + i - 1]
    BY <1>1, <2>2, <2>3, SubSeqProperties
  <2>5. ASSUME NEW j \in 1..Len(e)
        PROVE  \E i \in 1..Len(s) : e[j] = s[i] /\ Len(e) - j = Len(s) - i
    <3>1. m + j - 1 \in 1..Len(s) /\ Len(e) - j = Len(s) - (m + j - 1)
      BY <1>1, <2>2, <2>4
    <3>2. e[j] = s[m + j - 1] BY <2>4
    <3>3. QED BY <3>1, <3>2
  <2>6. EndOf(e, s) BY <2>5 DEF EndOf
  <2>7. QED BY <2>4, <2>6
<1>3. CASE ~(Len(s) > n)
  <2>1. e = s BY <1>3
  <2>2. Len(s) <= n BY <1>1, <1>3
  <2>3. QED BY <2>1, <2>2 DEF EndOf
<1>4. QED BY <1>2, <1>3

\* What is on the GPU after a completion: of its own prompt or of what was there
\* before; and if there was none of its own, what is left of the others moved on by
\* its chunks.
LEMMA KeepIs ==
    ASSUME ResidentInv, NEW p \in Prompts, NEW kept, kept = Keep(p)
    PROVE  /\ kept \in Seq(Blocks) /\ Len(kept) <= GpuChunks
           /\ \A j \in 1..Len(kept) :
                \/ kept[j][1] = p /\ kept[j][2] \in 1..Size(p)
                \/ /\ kept[j][1] # p
                   /\ \E i \in 1..Len(resident) :
                        /\ kept[j] = resident[i]
                        /\ (\A k \in 1..Len(resident) : resident[k][1] # p) =>
                             Len(kept) - j = Len(resident) - i + Size(p)
<1> DEFINE own == Reverse(BlocksOf(p))
           all == Others(p) \o own
<1>1. PICK n : n = Size(p) /\ n \in Nat BY Sizes
<1>2. /\ own \in Seq(Blocks) /\ Len(own) = n
      /\ \A i \in 1..n : own[i][1] = p /\ own[i][2] \in 1..n
  <2>1. PICK b : b = BlocksOf(p) OBVIOUS
  <2>2. b = [i \in 1..n |-> <<p, i>>] BY <1>1, <2>1 DEF BlocksOf
  <2>3. \A i \in 1..n : <<p, i>> \in Blocks BY DEF Blocks
  <2>4. b \in [1..n -> Blocks] BY <2>2, <2>3
  <2>5. Len(b) = n BY <1>1, <2>4, FunctionIsSeq
  <2>6. own = [i \in 1..n |-> b[n - i + 1]] BY <2>1, <2>5 DEF Reverse
  <2>7. \A i \in 1..n : n - i + 1 \in 1..n BY <1>1
  <2>8. own \in [1..n -> Blocks] BY <2>4, <2>6, <2>7
  <2>9. own \in Seq(Blocks) /\ Len(own) = n BY <1>1, <2>8, FunctionIsSeq
  <2>10. \A i \in 1..n : own[i] = <<p, n - i + 1>> BY <2>2, <2>6, <2>7
  <2>11. QED BY <2>7, <2>9, <2>10
<1>3. PICK s : s = resident /\ s \in Seq(Blocks) BY DEF ResidentInv
<1>4. PICK m : m = Len(s) /\ m \in Nat BY <1>3, LenProperties
<1>5. PICK q : q = Others(p) /\ Passed(q, m, s, p) BY <1>3, <1>4, OthersAre
<1> DEFINE S == {s[i] : i \in {j \in 1..m : s[j][1] # p}}
<1>6. S \subseteq Blocks
  <2>1. \A i \in 1..m : s[i] \in Blocks BY <1>3, <1>4, ElementOfSeq
  <2>2. QED BY <2>1
<1>7. /\ q \in Seq(S) /\ q \in Seq(Blocks) /\ Len(q) \in Nat
      /\ \A i \in 1..Len(q) : q[i] \in S
  <2>1. q \in Seq(S) BY <1>5 DEF Passed
  <2> HIDE DEF S
  <2>2. QED BY <1>6, <2>1, SeqMonotonic, LenProperties, ElementOfSeq
<1>8. (\A k \in 1..m : s[k][1] # p) => Len(q) = m /\ \A i \in 1..m : q[i] = s[i]
  BY <1>5 DEF Passed
<1> HIDE DEF own
<1>9. /\ all \in Seq(Blocks) /\ Len(all) = Len(q) + n
      /\ \A i \in 1..(Len(q) + n) : all[i] = IF i <= Len(q) THEN q[i] ELSE own[i - Len(q)]
  BY <1>2, <1>5, <1>7, Concatenated
<1>10. kept = IF Len(all) > GpuChunks THEN SubSeq(all, Len(all) - GpuChunks + 1, Len(all))
              ELSE all
  BY DEF Keep, own
<1> HIDE DEF all
<1>11. GpuChunks \in Nat BY ReuseAssumption
<1>12. /\ kept \in Seq(Blocks) /\ Len(kept) <= GpuChunks
       /\ EndOf(kept, all)
  BY <1>9, <1>10, <1>11, EndIs
<1>13. ASSUME NEW j \in 1..Len(kept)
       PROVE  \/ kept[j][1] = p /\ kept[j][2] \in 1..n
              \/ /\ kept[j][1] # p
                 /\ \E i \in 1..m :
                      /\ kept[j] = s[i]
                      /\ (\A k \in 1..m : s[k][1] # p) => Len(kept) - j = m - i + n
  <2>1. PICK i \in 1..(Len(q) + n) : kept[j] = all[i] /\ Len(kept) - j = (Len(q) + n) - i
    BY <1>9, <1>12 DEF EndOf
  <2>2. CASE i <= Len(q)
    <3>1. i \in 1..Len(q) /\ kept[j] = q[i] BY <1>7, <1>9, <2>1, <2>2
    <3>2. PICK k \in 1..m : q[i] = s[k] /\ s[k][1] # p BY <1>7, <3>1
    <3>3. CASE \A x \in 1..m : s[x][1] # p
      <4>1. Len(q) = m /\ kept[j] = s[i] /\ i \in 1..m BY <1>8, <3>1, <3>3
      <4>2. Len(kept) - j = m - i + n BY <1>1, <1>4, <2>1, <4>1
      <4>3. QED BY <3>3, <4>1, <4>2
    <3>4. CASE ~(\A x \in 1..m : s[x][1] # p)
      BY <3>1, <3>2, <3>4
    <3>5. QED BY <3>3, <3>4
  <2>3. CASE ~(i <= Len(q))
    <3>1. i - Len(q) \in 1..n /\ kept[j] = own[i - Len(q)] BY <1>1, <1>7, <1>9, <2>1, <2>3
    <3>2. QED BY <1>2, <3>1
  <2>4. QED BY <2>2, <2>3
<1>14. QED BY <1>1, <1>3, <1>4, <1>12, <1>13

\* A prompt's chunks on the GPU are no more than fit there.
LEMMA LocalPrefixFits ==
    ASSUME ResidentInv, NEW p \in Prompts
    PROVE  LocalPrefix(p) \in 0..GpuChunks
<1> DEFINE prefixes == {n \in 0..Size(p) : \A i \in 1..n : Contains(resident, <<p, i>>)}
<1>1. prefixes \subseteq 0..Size(p) /\ 0 \in prefixes BY Sizes
<1>2. LocalPrefix(p) = Max(prefixes) BY DEF LocalPrefix
<1>3. Max(prefixes) \in prefixes
  <2> HIDE DEF prefixes
  <2>1. QED BY <1>1, Sizes, MaxOfBounded
<1>4. PICK n : n = LocalPrefix(p) /\ n \in 0..Size(p)
                /\ \A i \in 1..n : Contains(resident, <<p, i>>)
  BY <1>2, <1>3
<1>5. PICK m : m = Len(resident) /\ m \in Nat BY LenProperties DEF ResidentInv
<1>6. n \in Nat BY <1>4, Sizes
<1>7. \A i \in 1..n : \E j \in 1..m : resident[j] = <<p, i>>
  BY <1>4, <1>5 DEF Contains
<1> DEFINE place_ == [i \in 1..n |-> CHOOSE j \in 1..m : resident[j] = <<p, i>>]
<1>8. \A i \in 1..n : place_[i] \in 1..m /\ resident[place_[i]] = <<p, i>>
  BY <1>7
<1> HIDE DEF place_
<1>9. place_ \in [1..n -> 1..m] BY <1>8 DEF place_
<1>10. \A i, k \in 1..n : place_[i] = place_[k] => i = k BY <1>8
<1>11. place_ \in Injection(1..n, 1..m) BY <1>9, <1>10 DEF Injection, IsInjective
<1>12. /\ IsFiniteSet(1..n) /\ Cardinality(1..n) = n
       /\ IsFiniteSet(1..m) /\ Cardinality(1..m) = m
  <2>1. \A k \in Nat : IsFiniteSet(1..k) /\ Cardinality(1..k) = IF 1 > k THEN 0 ELSE k - 1 + 1
    BY FS_Interval
  <2>2. \A k \in Nat : (IF 1 > k THEN 0 ELSE k - 1 + 1) = k OBVIOUS
  <2>3. QED BY <1>5, <1>6, <2>1, <2>2
<1>13. n <= m BY <1>11, <1>12, FS_Injection
<1>14. QED BY <1>4, <1>5, <1>6, <1>13, ReuseAssumption DEF ResidentInv

-------------------------------------------------------------------------------
(* The types of the tools and of what they judge. *)

\* The locks of a key cover the ranks that have one to give back.
LocksCover ==
    \A k \in KeyPlaces :
      /\ locks[k] >= 0
      /\ k \in KeyRanks /\ doing = "loading" =>
           locks[k] >= Cardinality(Sharing(k, RankIds \ loaded))

TypesInv ==
    /\ doing \in {"start", "asking", "loading", "computing", "waiting", "judging", "done"}
    /\ verdict \in {"none", "pass", "fail", "error"}
    /\ expected \in Nat
    /\ ResidentInv
    /\ hit.local \in 0..GpuChunks
    /\ LocksCover
    /\ \A s \in AllStores : written[s] > 0 => s \in taken

\* A lookup takes at least a lock for each rank of a key.
LEMMA ExtraIsEnough ==
    ASSUME CaseOK
    PROVE  ExtraCount \in Nat /\ tp \div dcp <= 1 + ExtraCount
<1>1. CASE case.extraCount BY <1>1, ExtraIsOthers, RanksAndKeys
<1>2. CASE ~case.extraCount
  <2>1. PICK t, d, n : t = tp /\ d = dcp /\ n = tp \div dcp OBVIOUS
  <2>2. t \in Nat \ {0} /\ d \in Nat \ {0} /\ n \in Nat /\ t = d * n /\ KvWorld = d
    BY <2>1, RanksAndKeys
  <2>3. n <= t BY <2>2
  <2>4. ExtraCount = IF t > d THEN t - 1 ELSE 0 BY <1>2, <2>1, <2>2 DEF ExtraCount
  <2>5. CASE t > d BY <2>1, <2>2, <2>3, <2>4, <2>5
  <2>6. CASE ~(t > d)
    <3>1. n >= 2 => d * n >= d * 2 BY <2>2
    <3>2. n <= 1 BY <2>2, <2>6, <3>1
    <3>3. QED BY <2>1, <2>2, <2>4, <2>6, <3>2
  <2>7. QED BY <2>5, <2>6
<1>3. QED BY <1>1, <1>2

LEMMA LookupCovers ==
    ASSUME CaseOK, LockInv, LocksCover, Lookup
    PROVE  LocksCover'
<1>1. UNCHANGED case /\ loaded' = {} /\ doing' \in {"loading", "computing"} BY DEF Lookup
<1>2. UNCHANGED <<RankIds, KeyRanks>> /\ \A r : KvRank(r)' = KvRank(r)
  BY <1>1, CaseFixes
<1>3. \A k \in KeyPlaces : locks[k] \in Int /\ locks[k] >= 0 BY DEF LockInv, LocksCover
<1>4. CASE doing' = "computing"
  <2>1. UNCHANGED locks BY <1>4 DEF Lookup
  <2>2. QED BY <1>3, <1>4, <2>1 DEF LocksCover
<1>5. CASE doing' = "loading"
  <2>1. locks' = [k \in KeyPlaces |-> IF k \in KeyRanks THEN locks[k] + 1 + ExtraCount
                                      ELSE locks[k]]
    BY <1>5 DEF Lookup, LockInv
  <2>2. ASSUME NEW k \in KeyRanks, k \in KeyPlaces
        PROVE  locks'[k] >= 0 /\ locks'[k] >= Cardinality(Sharing(k, RankIds))
    <3>1. locks'[k] = locks[k] + 1 + ExtraCount BY <2>1, <2>2
    <3>2. Cardinality(Sharing(k, RankIds)) = tp \div dcp /\ tp \div dcp \in Nat
      BY KeyCount, RanksAndKeys
    <3>3. QED BY <1>3, <2>2, <3>1, <3>2, ExtraIsEnough
  <2>3. \A k \in KeyPlaces : k \notin KeyRanks => locks'[k] = locks[k] BY <2>1
  <2>4. \A k : Sharing(k, RankIds \ loaded)' = Sharing(k, RankIds)
    BY <1>1, <1>2 DEF Sharing
  <2>5. QED BY <1>2, <1>3, <2>2, <2>3, <2>4 DEF LocksCover
<1>6. QED BY <1>1, <1>4, <1>5

LEMMA LoadChunksCovers ==
    ASSUME CaseOK, LockInv, LocksCover, NEW r \in RankIds, LoadChunks(r)
    PROVE  LocksCover'
<1>1. /\ UNCHANGED case /\ doing = "loading" /\ loaded' = loaded \cup {r} /\ r \notin loaded
      /\ locks' = [locks EXCEPT ![KvRank(r)] = locks[KvRank(r)] - 1]
  BY DEF LoadChunks
<1>2. UNCHANGED <<RankIds, KeyRanks>> /\ \A s : KvRank(s)' = KvRank(s)
  BY <1>1, CaseFixes
<1>3. KvRank(r) \in KeyRanks /\ KeyRanks \subseteq KeyPlaces BY RanksAndKeys
<1>4. \A k \in KeyPlaces : locks[k] \in Int /\ locks[k] >= 0 BY DEF LockInv, LocksCover
<1>5. \A k \in KeyPlaces :
        locks'[k] = IF k = KvRank(r) THEN locks[k] - 1 ELSE locks[k]
  BY <1>1 DEF LockInv
<1>6. ASSUME NEW k \in KeyRanks
      PROVE  locks'[k] >= 0 /\ locks'[k] >= Cardinality(Sharing(k, RankIds \ loaded'))
  <2> DEFINE before == Sharing(k, RankIds \ loaded)
  <2>1. k \in KeyPlaces /\ locks[k] >= Cardinality(before)
    BY <1>1, <1>3 DEF LocksCover
  <2>2. IsFiniteSet(before) /\ Cardinality(before) \in Nat
    <3>1. before \in SUBSET Sharing(k, RankIds) BY DEF Sharing
    <3>2. QED BY <3>1, KeyCount, FS_Subset, FS_CardinalityType
  <2>3. CASE KvRank(r) = k
    <3>1. Sharing(k, RankIds \ loaded') = before \ {r} BY <1>1 DEF Sharing
    <3>2. r \in before BY <1>1, <2>3 DEF Sharing
    <3>3. /\ Cardinality(before \ {r}) = Cardinality(before) - 1
          /\ Cardinality(before \ {r}) \in Nat
      BY <2>2, <3>2, FS_RemoveElement, FS_CardinalityType
    <3>4. locks'[k] = locks[k] - 1 BY <1>5, <2>1, <2>3
    <3>5. PICK a, b : a = Cardinality(before) /\ b = Cardinality(before \ {r}) OBVIOUS
    <3> HIDE DEF before
    <3>6. locks'[k] >= 0 /\ locks'[k] >= b BY <1>4, <2>1, <2>2, <3>3, <3>4, <3>5
    <3>7. QED BY <3>1, <3>5, <3>6
  <2>4. CASE KvRank(r) # k
    <3>1. Sharing(k, RankIds \ loaded') = before BY <1>1, <2>4 DEF Sharing
    <3>2. locks'[k] = locks[k] BY <1>5, <2>1, <2>4
    <3>3. QED BY <1>4, <2>1, <2>2, <3>1, <3>2
  <2>5. QED BY <2>3, <2>4
<1>7. \A k \in KeyPlaces : k \notin KeyRanks => locks'[k] = locks[k] BY <1>3, <1>5
<1>8. \A k : Sharing(k, RankIds \ loaded)' = Sharing(k, RankIds \ loaded')
  BY <1>2 DEF Sharing
<1>9. QED BY <1>2, <1>4, <1>6, <1>7, <1>8 DEF LocksCover

\* Other steps of the tools and of the cache server.
LEMMA CoverStays ==
    ASSUME LocksCover, UNCHANGED <<case, locks, loaded>>,
           doing' = doing \/ doing' # "loading"
    PROVE  LocksCover'
<1>1. UNCHANGED <<RankIds, KeyRanks>> /\ \A r : KvRank(r)' = KvRank(r) BY CaseFixes
<1>2. \A k : Sharing(k, RankIds \ loaded)' = Sharing(k, RankIds \ loaded)
  BY <1>1 DEF Sharing
<1>3. QED BY <1>1, <1>2 DEF LocksCover

LEMMA ObjectsAre ==
    ASSUME CaseOK, NEW p \in Prompts
    PROVE  /\ Objects(p) \in Nat /\ Size(p) <= Objects(p) /\ ExpectedOf(p) \in Nat
           /\ Tokens(p) % ChunkTokens = 0 => Objects(p) = Size(p)
<1>1. PICK t, c : t = Tokens(p) /\ c = ChunkTokens OBVIOUS
<1>2. t \in Nat /\ c \in Nat \ {0} BY <1>1, Sizes, ReuseAssumption
<1>3. PICK q, r : q = t \div c /\ r = t % c OBVIOUS
<1>4. q \in Nat /\ r \in 0..(c - 1) /\ t = c * q + r BY <1>2, <1>3, DivMod
<1>5. (t + c - 1) \div c = IF r = 0 THEN q ELSE q + 1
  <2>1. CASE r = 0
    <3>1. t + c - 1 = c * q + (c - 1) /\ c - 1 \in 0..(c - 1) BY <1>2, <1>4, <2>1
    <3>2. (c * q + (c - 1)) \div c = q BY <1>2, <1>4, <3>1, DivUnique
    <3>3. QED BY <2>1, <3>1, <3>2
  <2>2. CASE r # 0
    <3>1. c * (q + 1) = c * q + c BY <1>2, <1>4
    <3>2. t + c - 1 = c * (q + 1) + (r - 1) /\ r - 1 \in 0..(c - 1) /\ q + 1 \in Nat
      BY <1>2, <1>4, <2>2, <3>1
    <3>3. (c * (q + 1) + (r - 1)) \div c = q + 1 BY <1>2, <3>2, DivUnique
    <3>4. QED BY <2>2, <3>2, <3>3
  <2>3. QED BY <2>1, <2>2
<1>6. Objects(p) = (IF r = 0 THEN q ELSE q + 1) /\ Size(p) = q
  BY <1>1, <1>3, <1>5 DEF Objects, Size
<1>7. Objects(p) \in Nat /\ Size(p) <= Objects(p) BY <1>4, <1>6
<1>8. ExpectedOf(p) \in Nat BY <1>7, RanksAndKeys DEF ExpectedOf
<1>9. QED BY <1>1, <1>3, <1>6, <1>7, <1>8

-------------------------------------------------------------------------------
\* Nobody changes the blocks but a completion.
LEMMA ResidentStays == ASSUME ResidentInv, UNCHANGED resident PROVE ResidentInv'
BY DEF ResidentInv

LEMMA WrittenIsTaken ==
    ASSUME CaseOK, StoreInv, \A s \in AllStores : written[s] > 0 => s \in taken,
           \/ UNCHANGED <<taken, written>>
           \/ \E s \in sent : TakeStore(s) \/ WriteChunk(s)
    PROVE  \A s \in AllStores : written'[s] > 0 => s \in taken'
<1>1. CASE UNCHANGED <<taken, written>> BY <1>1
<1>2. ASSUME NEW s \in sent, TakeStore(s)
      PROVE  \A t \in AllStores : written'[t] > 0 => t \in taken'
  BY <1>2 DEF TakeStore
<1>3. ASSUME NEW s \in sent, WriteChunk(s)
      PROVE  \A t \in AllStores : written'[t] > 0 => t \in taken'
  <2>1. s \in taken /\ UNCHANGED taken /\ written' = [written EXCEPT ![s] = written[s] + 1]
    BY <1>3 DEF WriteChunk
  <2>2. \A t \in AllStores : t # s => written'[t] = written[t] BY <2>1 DEF StoreInv
  <2>3. QED BY <2>1, <2>2
<1>4. QED BY <1>1, <1>2, <1>3

\* Steps of the tools.
LEMMA ToolTypes ==
    ASSUME CaseOK, LockInv, ToolInv, TypesInv,
           \/ Lookup \/ Preempt \/ Complete \/ GoOn \/ GiveUp \/ Judge
           \/ Begun(daemon = "running")
           \/ \E r \in RankIds : LoadChunks(r)
           \/ \E s \in sent : TakeStore(s) \/ WriteChunk(s)
    PROVE  TypesInv'
<1> USE DEF TypesInv
<1>1. StoreInv /\ ProgramInv BY DEF ToolInv
<1>2. ASSUME Lookup PROVE TypesInv'
  <2>1. /\ doing = "asking" /\ doing' \in {"loading", "computing"}
        /\ UNCHANGED <<verdict, expected, resident, taken, written>>
        /\ hit' = hit \/ hit'.local = LocalPrefix(Now.prompt)
    BY <1>2 DEF Lookup
  <2>2. Now.prompt \in Prompts BY <1>1, <2>1, NowIs
  <2>3. hit'.local \in 0..GpuChunks BY <2>1, <2>2, LocalPrefixFits
  <2>4. LocksCover' BY <1>2, LookupCovers
  <2>5. ResidentInv' BY <2>1, ResidentStays
  <2>6. QED BY <2>1, <2>3, <2>4, <2>5
<1>3. ASSUME NEW r \in RankIds, LoadChunks(r) PROVE TypesInv'
  <2>1. /\ doing' \in {"loading", "computing"}
        /\ UNCHANGED <<verdict, expected, resident, hit, taken, written>>
    BY <1>3 DEF LoadChunks
  <2>2. LocksCover' BY <1>3, LoadChunksCovers
  <2>3. ResidentInv' BY <2>1, ResidentStays
  <2>4. QED BY <2>1, <2>2, <2>3
<1>4. ASSUME Complete PROVE TypesInv'
  <2>1. /\ doing = "computing" /\ doing' = "waiting" /\ resident' = Keep(Now.prompt)
        /\ UNCHANGED <<case, verdict, hit, loaded, locks, taken, written>>
        /\ expected' = CASE Now.await = "all" -> expected + ExpectedOf(Now.prompt)
                         [] Now.await = "one" -> 1
                         [] OTHER -> expected
    BY <1>4 DEF Complete
  <2>2. Now.prompt \in Prompts BY <1>1, <2>1, NowIs
  <2>3. ExpectedOf(Now.prompt) \in Nat
    <3>1. PICK p \in Prompts : p = Now.prompt BY <2>2
    <3>2. ExpectedOf(p) \in Nat BY <3>1, ObjectsAre
    <3>3. QED BY <3>1, <3>2
  <2>4. expected' \in Nat BY <2>1, <2>3
  <2>5. PICK kept : kept = Keep(Now.prompt) OBVIOUS
  <2>6. /\ kept \in Seq(Blocks) /\ Len(kept) <= GpuChunks
        /\ \A j \in 1..Len(kept) : kept[j][2] \in 1..Size(kept[j][1])
    <3>1. /\ kept \in Seq(Blocks) /\ Len(kept) <= GpuChunks
          /\ \A j \in 1..Len(kept) :
               \/ kept[j][1] = Now.prompt /\ kept[j][2] \in 1..Size(Now.prompt)
               \/ \E i \in 1..Len(resident) : kept[j] = resident[i]
      BY <2>2, <2>5, KeepIs
    <3>2. QED BY <3>1 DEF ResidentInv
  <2>7. ResidentInv' BY <2>1, <2>5, <2>6 DEF ResidentInv
  <2>8. LocksCover' BY <2>1, CoverStays
  <2>9. QED BY <2>1, <2>4, <2>7, <2>8
<1>5. ASSUME GoOn \/ GiveUp \/ Judge \/ Begun(daemon = "running") PROVE TypesInv'
  <2>1. /\ UNCHANGED <<case, expected, resident, hit, loaded, locks, taken, written>>
        /\ doing' \in {"asking", "judging", "done"}
        /\ verdict' \in {verdict, "pass", "fail", "error"}
    BY <1>5 DEF GoOn, GiveUp, Judge, Begun, Report, cacheVars
  <2>2. LocksCover' BY <2>1, CoverStays
  <2>3. ResidentInv' BY <2>1, ResidentStays
  <2>4. QED BY <2>1, <2>2, <2>3
<1>6. ASSUME NEW s \in sent, TakeStore(s) \/ WriteChunk(s) PROVE TypesInv'
  <2>1. UNCHANGED <<case, doing, verdict, expected, resident, hit, loaded, locks>>
    BY <1>6 DEF TakeStore, WriteChunk, toolVars
  <2>2. LocksCover' BY <2>1, CoverStays
  <2>3. ResidentInv' BY <2>1, ResidentStays
  <2>4. \A t \in AllStores : written'[t] > 0 => t \in taken'
    BY <1>1, <1>6, WrittenIsTaken
  <2>5. QED BY <2>1, <2>2, <2>3, <2>4
<1>7. ASSUME Preempt PROVE TypesInv'
  <2>1. /\ doing = "computing" /\ doing' \in {"asking", "computing"}
        /\ UNCHANGED <<case, verdict, expected, resident, hit, loaded, locks, taken, written>>
    BY <1>7 DEF Preempt
  <2>2. LocksCover' BY <2>1, CoverStays
  <2>3. ResidentInv' BY <2>1, ResidentStays
  <2>4. QED BY <2>1, <2>2, <2>3
<1>8. QED BY <1>2, <1>3, <1>4, <1>5, <1>6, <1>7

LEMMA TypesNext ==
    ASSUME StartInv, CaseInv, LockInv, ToolInv, TypesInv, [DeployNext]_deployVars
    PROVE  TypesInv'
<1>1. CaseOK BY DEF CaseInv
<1>2. CASE ToolRuns BY <1>1, <1>2, ToolTypes DEF ToolRuns, ReuseStep
<1>3. CASE ToolBegins BY <1>1, <1>3, ToolTypes DEF ToolBegins
<1>4. CASE ~ToolRuns /\ ~ToolBegins
  <2>1. UNCHANGED <<at, doing, expected, results, verdict, cacheVars>>
    BY <1>4 DEF DeployNext, deployVars, BuildStep, ShellRuns, DaemonRuns,
                SignalSent, WeightsRead, LoadFails, reuseVars, toolVars
  <2>2. UNCHANGED <<resident, hit, loaded, locks, taken, written>>
    BY <2>1 DEF cacheVars
  <2>3. ResidentInv' BY <2>2, ResidentStays DEF TypesInv
  <2>4. LocksCover'
    <3>1. CASE case' = case BY <2>1, <2>2, <3>1, CoverStays DEF TypesInv
    <3>2. CASE case' # case
      <4>1. doing = "start" BY <3>2, CaseKeeps
      <4>2. QED BY <2>1, <2>2, <4>1 DEF TypesInv, LocksCover
    <3>3. QED BY <3>1, <3>2
  <2>5. QED BY <2>1, <2>2, <2>3, <2>4 DEF TypesInv
<1>5. QED BY <1>2, <1>3, <1>4

LEMMA TypesInit == DeployInit => TypesInv
<1> SUFFICES ASSUME DeployInit PROVE TypesInv
  OBVIOUS
<1> USE DEF DeployInit, ReuseInit
<1>1. ResidentInv
  <2>1. resident = <<>> /\ Len(resident) = 0 /\ resident \in Seq(Blocks) BY EmptySeq
  <2>2. QED BY <2>1, ReuseAssumption DEF ResidentInv
<1>2. LocksCover BY DEF LocksCover, KeyPlaces
<1>3. QED BY <1>1, <1>2, ReuseAssumption DEF TypesInv

\* The tools' deployment is one of those there are, with what its image has.
Deployed ==
    \E c \in Cases :
        \/ case = c
        \/ \E m, e \in BOOLEAN : case = [c EXCEPT !.mlaStore = m, !.extraCount = e]

LEMMA DeploymentStays ==
    ASSUME Deployed, [DeployNext]_deployVars
    PROVE  Deployed'
<1>1. CASE ShellRuns /\ shell = "begin"
  <2>1. PICK c \in Cases :
          case' = [c EXCEPT !.mlaStore = "mla_store" \in image,
                            !.extraCount = "extra_count" \in image]
    BY <1>1 DEF ShellRuns
  <2> DEFINE m == "mla_store" \in image
             e == "extra_count" \in image
  <2>2. m \in BOOLEAN /\ e \in BOOLEAN OBVIOUS
  <2>3. case' = [c EXCEPT !.mlaStore = m, !.extraCount = e] BY <2>1, Zenon
  <2> HIDE DEF m, e
  <2>4. QED BY <2>1, <2>2, <2>3, Zenon DEF Deployed
<1>2. CASE ~(ShellRuns /\ shell = "begin")
  <2>1. UNCHANGED case
    BY <1>2 DEF DeployNext, deployVars, BuildStep, ShellRuns, DaemonRuns, SignalSent,
                WeightsRead, LoadFails, ToolBegins, ToolRuns, ReuseStep, Lookup,
                Preempt, Complete, GoOn, GiveUp, Judge, LoadChunks, TakeStore,
                WriteChunk, Begun, reuseVars, toolVars
  <2>2. QED BY <2>1 DEF Deployed
<1>3. QED BY <1>1, <1>2

LEMMA ToolInvariant == DeploySpec => []ToolInv
<1>1. StartInv /\ CaseInv /\ ToolInv /\ [DeployNext]_deployVars => ToolInv'
  BY ToolInvNext
<1>2. QED BY <1>1, ToolInvInit, StartInvariant, CaseInvariant, PTL DEF DeploySpec

LEMMA LockInvariant == DeploySpec => []LockInv
<1>1. StartInv /\ CaseInv /\ LockInv /\ [DeployNext]_deployVars => LockInv'
  BY LockInvNext
<1>2. QED BY <1>1, LockInvInit, StartInvariant, CaseInvariant, PTL DEF DeploySpec

LEMMA TypesInvariant == DeploySpec => []TypesInv
<1>1. StartInv /\ CaseInv /\ LockInv /\ ToolInv /\ TypesInv /\ [DeployNext]_deployVars
        => TypesInv'
  BY TypesNext
<1>2. QED
  BY <1>1, TypesInit, StartInvariant, CaseInvariant, LockInvariant, ToolInvariant, PTL
     DEF DeploySpec

\* Types of a deployment and of what is judged there, the locks' included: none is
\* given back that was not taken, also in an image whose count is that of an
\* unsharded cache.
THEOREM DeployTypes == DeploySpec => []DeployTypeOK
<1>1. Deployed /\ [DeployNext]_deployVars => Deployed'
  BY DeploymentStays
<1>2. DeployInit => Deployed
  <2>1. (CHOOSE c \in Cases : TRUE) \in Cases BY CasesAssumption, Zenon
  <2>2. QED BY <2>1, Zenon DEF DeployInit, Deployed
<1>3. DeploySpec => []Deployed BY <1>1, <1>2, PTL DEF DeploySpec
<1>4. BuildInv /\ LoadInv /\ StartInv /\ CaseInv /\ LockInv /\ ToolInv /\ TypesInv
        /\ Deployed => DeployTypeOK
  <2> SUFFICES ASSUME BuildInv, LoadInv, StartInv, CaseInv, LockInv, ToolInv, TypesInv,
                      Deployed
               PROVE  DeployTypeOK
    OBVIOUS
  <2>1. CaseOK BY DEF CaseInv
  <2>2. at \in 1..Len(Program) /\ Len(results) <= Len(Program)
    <3>1. Len(Program) \in Nat \ {0} BY <2>1, ProgramIs
    <3>2. CASE doing = "start"
      <4>1. at = 1 /\ results = <<>> /\ Len(results) = 0
        BY <3>2, EmptySeq DEF ToolInv, ProgramInv
      <4>2. QED BY <3>1, <4>1
    <3>3. CASE doing # "start" BY <3>3 DEF ToolInv, ProgramInv
    <3>4. QED BY <3>2, <3>3
  <2>3. \A b \in ToSet(resident) : b[1] \in Prompts /\ b[2] \in 1..Size(b[1])
    <3>1. \A j \in 1..Len(resident) : resident[j] \in Blocks
      BY ElementOfSeq DEF TypesInv, ResidentInv
    <3>2. DOMAIN resident = 1..Len(resident) BY LenProperties DEF TypesInv, ResidentInv
    <3>3. \A b \in ToSet(resident) : \E j \in 1..Len(resident) : b = resident[j]
      BY <3>2 DEF ToSet
    <3>4. \A b \in Blocks : b[1] \in Prompts BY DEF Blocks
    <3>5. QED BY <3>1, <3>3, <3>4 DEF TypesInv, ResidentInv
  <2>4. /\ hit \in [local : 0..GpuChunks, external : Nat] /\ right \in BOOLEAN
        /\ preempted \in BOOLEAN
    BY DEF ToolInv, HitInv, TypesInv
  <2>5. locks \in [0..(FourContexts - 1) -> Nat]
    <3>1. \A k \in KeyPlaces : locks[k] \in Nat BY DEF LockInv, TypesInv, LocksCover
    <3>2. QED BY <3>1 DEF LockInv, KeyPlaces
  <2>6. ReuseTypeOK
    BY <2>2, <2>3, <2>4, <2>5 DEF ReuseTypeOK, TypesInv, ResidentInv, LockInv, ToolInv, StoreInv
  <2>7. BuildTypeOK BY DEF BuildInv
  <2>8. LoadTypeOK BY DEF LoadInv
  <2>9. StartTypeOK BY DEF StartInv
  <2>10. QED BY <2>6, <2>7, <2>8, <2>9, Zenon DEF DeployTypeOK, Deployed
<1>5. QED
  BY <1>3, <1>4, BuildInvariant, LoadInvariant, StartInvariant, CaseInvariant,
     LockInvariant, ToolInvariant, TypesInvariant, PTL

-------------------------------------------------------------------------------
(* When the matrix passes. *)

FillSize == EvictTokens \div ChunkTokens

\* The fills evict everything.
Flushes == case.fills * FillSize >= GpuChunks

\* The keys that some rank stores under.
StoredKeys == {k \in KeyRanks : Writers(k) # {}}

Whole(p) == \A k \in KeyRanks : written[<<p, k>>] = Size(p)

\* The prompts of the first requests.
Asked(n) == {Program[i].prompt : i \in 1..n}

SizeSum(S) == MapThenSumSet(LAMBDA s : Size(s[1]), S)

\* What was submitted, and what is expected of it: more, if a key has no rank that
\* stores under it.
SentInv ==
    /\ sent = Asked(Len(results)) \X StoredKeys
    /\ SizeSum(sent) <= expected
    /\ results # <<>> /\ StoredKeys # KeyRanks => SizeSum(sent) < expected
    /\ StoredKeys = KeyRanks /\ EvictTokens % ChunkTokens = 0 => expected = SizeSum(sent)

\* With a count of finished objects, what was waited for is whole.
WholeInv ==
    ~case.countsWriting =>
      /\ doing \in {"asking", "loading", "computing", "judging"} =>
           \A p \in Asked(Len(results)) : Whole(p)
      /\ doing = "waiting" => \A p \in Asked(Len(results) - 1) : Whole(p)

\* The requests of the contexts, and all those before the replays.
ContextPart == 2 * Len(Contexts)
StorePart == ContextPart + case.fills

\* After n requests a chunk of prompt p is at distance d from the end of the queue:
\* every fill has moved the contexts on by its chunks; after the last, those on the
\* GPU have been replayed.
Moved(p, d, n) ==
    /\ p \in Asked(n)
    /\ p <= Len(Contexts) =>
         /\ \A m \in 0..case.fills : n = ContextPart + m => d >= m * FillSize
         /\ \A r \in 0..Len(Contexts) : Flushes /\ n = StorePart + r => p <= r

FlushInv ==
    \A j \in 1..Len(resident) :
      Moved(resident[j][1], Len(resident) - j, Len(results))

\* So the replays find everything in the cache, and nothing on the GPU.
Restored(p, local, external) == local = 0 /\ external = Size(p)

Sure == ~case.countsWriting /\ Flushes

ReplayPreempted ==
    \E i \in 1..Len(results) : results[i].kind = "external" /\ results[i].preempted

RightInv ==
    /\ doing = "loading" => StoredKeys = KeyRanks
    /\ Told =>
         /\ right
         /\ Sure /\ Now.kind = "external" => Restored(Now.prompt, hit.local, hit.external)
    /\ \A i \in 1..Len(results) :
         /\ results[i].right
         /\ Sure /\ results[i].kind = "external" =>
              Restored(results[i].prompt, results[i].local, results[i].external)
    /\ verdict = "fail" => ~Sure \/ ReplayPreempted

MatrixInv ==
    case.tool = "matrix" => SentInv /\ WholeInv /\ FlushInv /\ RightInv

-------------------------------------------------------------------------------
(* Sums over finite sets.  A fold takes the elements in an order of its own; the *)
(* sum it arrives at does not depend on the order.                               *)

Pick(s) == CHOOSE x \in s : TRUE

\* g is the fold of the additions of f over the subsets of S.
IsFold(g, f, S) ==
  /\ g \in [SUBSET S -> Nat]
  /\ \A s \in SUBSET S :
       g[s] = IF s = {} THEN 0 ELSE f[Pick(s)] + g[s \ {Pick(s)}]

\* A set that is not empty gives one of its members.
LEMMA PickIn == ASSUME NEW s, s # {} PROVE Pick(s) \in s
  BY DEF Pick

\* A member less, a finite set is smaller by one.
LEMMA SmallerSet ==
  ASSUME NEW s, IsFiniteSet(s), NEW x \in s, NEW n \in Nat, Cardinality(s) <= n + 1
  PROVE  IsFiniteSet(s \ {x}) /\ Cardinality(s \ {x}) <= n
<1>1. /\ IsFiniteSet(s \ {x})
      /\ Cardinality(s \ {x}) = Cardinality(s) - 1
  BY FS_RemoveElement
<1>2. Cardinality(s) \in Nat
  BY FS_CardinalityType
<1> QED BY <1>1, <1>2

\* The recursion of a fold has a solution.
LEMMA FoldExists ==
  ASSUME NEW S, IsFiniteSet(S), NEW f \in [S -> Nat]
  PROVE  \E g : IsFold(g, f, S)
<1> DEFINE Dom(n) == {s \in SUBSET S : Cardinality(s) <= n}
           Step(g, s) == IF s = {} THEN 0 ELSE f[Pick(s)] + g[s \ {Pick(s)}]
           T == {n \in Nat : \E g \in [Dom(n) -> Nat] :
                   \A s \in Dom(n) : g[s] = Step(g, s)}
<1>1. 0 \in T
  <2> DEFINE g == [s \in Dom(0) |-> 0]
  <2>1. \A s \in Dom(0) : s = {}
    BY FS_EmptySet, FS_Subset, FS_CardinalityType
  <2>2. g \in [Dom(0) -> Nat] /\ \A s \in Dom(0) : g[s] = Step(g, s)
    BY <2>1
  <2> QED BY <2>2
<1>2. ASSUME NEW n \in T PROVE n + 1 \in T
  <2>1. PICK g \in [Dom(n) -> Nat] : \A s \in Dom(n) : g[s] = Step(g, s)
    BY <1>2
  <2> DEFINE h == [s \in Dom(n + 1) |-> Step(g, s)]
  <2>2. ASSUME NEW s \in Dom(n + 1), s # {}
        PROVE  /\ Pick(s) \in s /\ f[Pick(s)] \in Nat
               /\ s \ {Pick(s)} \in Dom(n) /\ s \ {Pick(s)} \in Dom(n + 1)
    <3>1. IsFiniteSet(s) /\ Pick(s) \in s
      BY <2>2, PickIn, FS_Subset
    <3>2. Cardinality(s \ {Pick(s)}) <= n
      BY <3>1, <1>2, SmallerSet
    <3>3. Cardinality(s \ {Pick(s)}) <= n + 1
      <4>1. Cardinality(s \ {Pick(s)}) \in Nat /\ n \in Nat
        BY <1>2, <3>1, SmallerSet, FS_CardinalityType
      <4> QED BY <3>2, <4>1
    <3> QED BY <3>1, <3>2, <3>3
  <2>3. h \in [Dom(n + 1) -> Nat]
    BY <2>2
  <2>4. \A s \in Dom(n) \cap Dom(n + 1) : h[s] = g[s]
    BY <2>1
  <2>5. ASSUME NEW s \in Dom(n + 1) PROVE h[s] = Step(h, s)
    <3>1. CASE s = {}
      BY <3>1
    <3>2. CASE s # {}
      <4>1. h[s \ {Pick(s)}] = g[s \ {Pick(s)}]
        BY <2>2, <2>4, <3>2
      <4> HIDE DEF Dom
      <4> QED BY <3>2, <4>1
    <3> QED BY <3>1, <3>2
  <2>6. n + 1 \in Nat
    BY <1>2
  <2> HIDE DEF Dom, h
  <2> QED BY <2>3, <2>5, <2>6
<1>3. T = Nat
  BY <1>1, <1>2, SetInduction
<1>4. Cardinality(S) \in T
  BY <1>3, FS_CardinalityType
<1>5. Dom(Cardinality(S)) = SUBSET S
  BY FS_Subset
<1> HIDE DEF Dom
<1>6. PICK g \in [SUBSET S -> Nat] : \A s \in SUBSET S : g[s] = Step(g, s)
  BY <1>4, <1>5
<1> QED BY <1>6 DEF IsFold

\* Any element can be taken off first.
LEMMA FoldSplits ==
  ASSUME NEW S, IsFiniteSet(S), NEW f \in [S -> Nat], NEW g, IsFold(g, f, S)
  PROVE  \A s \in SUBSET S, x \in S : x \in s => g[s] = f[x] + g[s \ {x}]
<1> DEFINE T == {n \in Nat : \A t \in SUBSET S : \A y \in t :
                   Cardinality(t) <= n => g[t] = f[y] + g[t \ {y}]}
<1>1. 0 \in T
  BY FS_EmptySet, FS_Subset, FS_CardinalityType
<1>2. ASSUME NEW n \in T PROVE n + 1 \in T
  <2> SUFFICES ASSUME NEW t \in SUBSET S, NEW y \in t, Cardinality(t) <= n + 1
               PROVE  g[t] = f[y] + g[t \ {y}]
    BY <1>2
  <2> DEFINE z == Pick(t)
  <2>1. z \in t /\ g[t] = f[z] + g[t \ {z}]
    BY PickIn DEF IsFold
  <2>2. CASE y = z
    BY <2>1, <2>2
  <2>3. CASE y # z
    <3>1. IsFiniteSet(t) /\ n \in Nat
      BY <1>2, FS_Subset
    <3> HIDE DEF z
    <3>2. Cardinality(t \ {z}) <= n /\ Cardinality(t \ {y}) <= n
      BY <2>1, <3>1, SmallerSet
    <3>3. y \in t \ {z} /\ z \in t \ {y}
          /\ t \ {z} \in SUBSET S /\ t \ {y} \in SUBSET S
      BY <2>1, <2>3
    <3>4. g[t \ {z}] = f[y] + g[(t \ {z}) \ {y}]
          /\ g[t \ {y}] = f[z] + g[(t \ {y}) \ {z}]
      BY <1>2, <3>2, <3>3
    <3>5. (t \ {z}) \ {y} = (t \ {y}) \ {z} /\ (t \ {y}) \ {z} \in SUBSET S
      OBVIOUS
    <3>6. f[y] \in Nat /\ f[z] \in Nat /\ g[(t \ {y}) \ {z}] \in Nat
      BY <2>1, <3>5 DEF IsFold
    <3>7. g[t \ {z}] = f[y] + g[(t \ {y}) \ {z}]
      BY <3>4, <3>5
    <3> QED BY <2>1, <3>4, <3>6, <3>7
  <2> QED BY <2>2, <2>3
<1>3. T = Nat
  BY <1>1, <1>2, SetInduction
<1>4. \A s \in SUBSET S : Cardinality(s) \in Nat /\ Cardinality(s) <= Cardinality(s)
  BY FS_Subset, FS_CardinalityType
<1> QED BY <1>3, <1>4

\* Two folds of functions that agree have the same sums.
LEMMA FoldsAgree ==
  ASSUME NEW S, IsFiniteSet(S), NEW A \in SUBSET S,
         NEW f \in [S -> Nat], NEW g, IsFold(g, f, S),
         NEW e \in [A -> Nat], NEW h, IsFold(h, e, A),
         \A x \in A : e[x] = f[x]
  PROVE  g[A] = h[A]
<1> DEFINE T == {n \in Nat : \A t \in SUBSET A : Cardinality(t) <= n => g[t] = h[t]}
<1>1. 0 \in T
  <2> SUFFICES ASSUME NEW t \in SUBSET A, Cardinality(t) <= 0 PROVE g[t] = h[t]
    OBVIOUS
  <2>1. t = {}
    BY FS_EmptySet, FS_Subset, FS_CardinalityType
  <2> QED BY <2>1 DEF IsFold
<1>2. ASSUME NEW n \in T PROVE n + 1 \in T
  <2> SUFFICES ASSUME NEW t \in SUBSET A, Cardinality(t) <= n + 1
               PROVE  g[t] = h[t]
    BY <1>2
  <2>1. CASE t = {}
    BY <2>1 DEF IsFold
  <2>2. CASE t # {}
    <3> DEFINE z == Pick(t)
    <3>1. z \in t
      BY <2>2, PickIn
    <3>2. g[t] = f[z] + g[t \ {z}] /\ h[t] = e[z] + h[t \ {z}]
      BY <2>2 DEF IsFold
    <3> HIDE DEF z
    <3>3. Cardinality(t \ {z}) <= n
      BY <1>2, <3>1, SmallerSet, FS_Subset
    <3>4. g[t \ {z}] = h[t \ {z}]
      BY <1>2, <3>3
    <3> QED BY <3>1, <3>2, <3>4
  <2> QED BY <2>1, <2>2
<1>3. T = Nat
  BY <1>1, <1>2, SetInduction
<1>4. Cardinality(A) \in T
  BY <1>3, FS_Subset, FS_CardinalityType
<1> QED BY <1>4, FS_Subset, FS_CardinalityType
\* Whatever satisfies the recursion is a fold.
LEMMA RecursionIsFold ==
  ASSUME NEW S, IsFiniteSet(S), NEW f \in [S -> Nat], NEW V,
         NEW g \in [SUBSET S -> V],
         \A s \in SUBSET S :
           g[s] = IF s = {} THEN 0 ELSE f[Pick(s)] + g[s \ {Pick(s)}]
  PROVE  IsFold(g, f, S)
<1>0. g[{}] \in Nat
  OBVIOUS
<1> DEFINE T == {n \in Nat : \A t \in SUBSET S : Cardinality(t) <= n => g[t] \in Nat}
<1>1. 0 \in T
  <2> SUFFICES ASSUME NEW t \in SUBSET S, Cardinality(t) <= 0 PROVE g[t] \in Nat
    OBVIOUS
  <2>1. t = {}
    BY FS_EmptySet, FS_Subset, FS_CardinalityType
  <2> QED BY <1>0, <2>1
<1>2. ASSUME NEW n \in T PROVE n + 1 \in T
  <2> SUFFICES ASSUME NEW t \in SUBSET S, Cardinality(t) <= n + 1
               PROVE  g[t] \in Nat
    BY <1>2
  <2>1. CASE t = {}
    BY <1>0, <2>1
  <2>2. CASE t # {}
    <3>1. Pick(t) \in t /\ IsFiniteSet(t)
      BY <2>2, PickIn, FS_Subset
    <3>2. Cardinality(t \ {Pick(t)}) <= n /\ f[Pick(t)] \in Nat
      BY <1>2, <3>1, SmallerSet
    <3>3. g[t \ {Pick(t)}] \in Nat
      BY <1>2, <3>2
    <3> QED BY <2>2, <3>2, <3>3
  <2> QED BY <2>1, <2>2
<1>3. T = Nat
  BY <1>1, <1>2, SetInduction
<1>4. \A t \in SUBSET S : g[t] \in Nat
  <2> TAKE t \in SUBSET S
  <2>1. Cardinality(t) \in Nat
    BY FS_Subset, FS_CardinalityType
  <2> QED BY <1>3, <2>1
<1> QED BY <1>4 DEF IsFold

\* A set of elements of one value adds that value for each of them.
LEMMA FoldAddsEqual ==
  ASSUME NEW S, IsFiniteSet(S), NEW f \in [S -> Nat], NEW g, IsFold(g, f, S),
         NEW A \in SUBSET S, NEW B \in SUBSET S, A \cap B = {},
         NEW v \in Nat, \A x \in B : f[x] = v
  PROVE  g[A \cup B] = g[A] + Cardinality(B) * v
<1> DEFINE T == {n \in Nat : \A C \in SUBSET B :
                   Cardinality(C) = n => g[A \cup C] = g[A] + n * v}
<1>1. \A C \in SUBSET S : g[C] \in Nat /\ IsFiniteSet(C) /\ Cardinality(C) \in Nat
  BY FS_Subset, FS_CardinalityType DEF IsFold
<1>2. 0 \in T
  <2> SUFFICES ASSUME NEW C \in SUBSET B, Cardinality(C) = 0
               PROVE  g[A \cup C] = g[A] + 0 * v
    OBVIOUS
  <2>1. C \in SUBSET S BY Zenon
  <2>2. C = {} BY <1>1, <2>1, FS_EmptySet
  <2>3. A \cup C = A BY <2>2
  <2>4. g[A] \in Nat BY <1>1
  <2>5. 0 * v = 0 OBVIOUS
  <2> QED BY <2>3, <2>4, <2>5
<1>3. ASSUME NEW n \in T PROVE n + 1 \in T
  <2> SUFFICES ASSUME NEW C \in SUBSET B, Cardinality(C) = n + 1
               PROVE  g[A \cup C] = g[A] + (n + 1) * v
    OBVIOUS
  <2>1. n \in Nat /\ C \in SUBSET S /\ IsFiniteSet(C) BY <1>1
  <2>2. C # {} BY <2>1, FS_EmptySet
  <2>3. PICK x : x \in C BY <2>2
  <2>4. Cardinality(C \ {x}) = n
    <3>1. Cardinality(C \ {x}) = Cardinality(C) - 1 BY <2>1, <2>3, FS_RemoveElement
    <3> QED BY <2>1, <3>1
  <2>5. C \ {x} \in SUBSET B /\ x \in S /\ x \notin A BY <2>3
  <2>6. g[A \cup (C \ {x})] = g[A] + n * v BY <1>3, <2>4, <2>5
  <2>7. /\ A \cup C \in SUBSET S /\ x \in A \cup C
        /\ (A \cup C) \ {x} = A \cup (C \ {x})
    BY <2>3, <2>5
  <2>8. g[A \cup C] = f[x] + g[A \cup (C \ {x})] BY <2>5, <2>7, FoldSplits
  <2>9. f[x] = v /\ g[A] \in Nat BY <1>1, <2>3
  <2>10. (n + 1) * v = n * v + v /\ n * v \in Nat BY <2>1
  <2> QED BY <2>6, <2>8, <2>9, <2>10
<1>4. T = Nat BY <1>2, <1>3, SetInduction
<1>5. Cardinality(B) \in T BY <1>1, <1>4
<1> QED BY <1>5

\* A sum of smaller numbers is smaller, and equal only to one of equal numbers.
LEMMA FoldBelow ==
  ASSUME NEW S, IsFiniteSet(S), NEW A \in SUBSET S,
         NEW f \in [S -> Nat], NEW g, IsFold(g, f, S),
         NEW e \in [S -> Nat], NEW h, IsFold(h, e, S),
         \A x \in A : f[x] <= e[x]
  PROVE  g[A] <= h[A] /\ (g[A] = h[A] => \A x \in A : f[x] = e[x])
<1> DEFINE Below(C) == g[C] <= h[C] /\ (g[C] = h[C] => \A x \in C : f[x] = e[x])
           T == {n \in Nat : \A C \in SUBSET A : Cardinality(C) <= n => Below(C)}
<1>1. \A C \in SUBSET S :
        g[C] \in Nat /\ h[C] \in Nat /\ IsFiniteSet(C) /\ Cardinality(C) \in Nat
  BY FS_Subset, FS_CardinalityType DEF IsFold
<1>2. 0 \in T
  <2> SUFFICES ASSUME NEW C \in SUBSET A, Cardinality(C) <= 0 PROVE Below(C)
    OBVIOUS
  <2>1. C \in SUBSET S BY Zenon
  <2>2. C = {} BY <1>1, <2>1, FS_EmptySet
  <2>3. g[C] = 0 /\ h[C] = 0 BY <2>1, <2>2 DEF IsFold
  <2> QED BY <2>2, <2>3
<1>3. ASSUME NEW n \in T PROVE n + 1 \in T
  <2> SUFFICES ASSUME NEW C \in SUBSET A, Cardinality(C) <= n + 1 PROVE Below(C)
    OBVIOUS
  <2>1. n \in Nat /\ C \in SUBSET S /\ IsFiniteSet(C) BY <1>1
  <2>2. CASE C = {}
    <3>1. g[C] = 0 /\ h[C] = 0 BY <2>1, <2>2 DEF IsFold
    <3> QED BY <2>2, <3>1
  <2>3. CASE C # {}
    <3>1. PICK y : y \in C BY <2>3
    <3>2. PICK D : D = C \ {y} OBVIOUS
    <3>3. D \in SUBSET A /\ D \in SUBSET S /\ y \in S /\ y \in A BY <3>1, <3>2
    <3>4. Cardinality(D) <= n BY <2>1, <3>1, <3>2, SmallerSet
    <3>5. Below(D) BY <1>3, <3>3, <3>4
    <3>6. g[C] = f[y] + g[D] /\ h[C] = e[y] + h[D]
      BY <2>1, <3>1, <3>2, <3>3, FoldSplits
    <3>7. f[y] \in Nat /\ e[y] \in Nat /\ f[y] <= e[y] /\ g[D] \in Nat /\ h[D] \in Nat
      BY <1>1, <3>3
    <3>8. g[C] <= h[C] /\ (g[C] = h[C] => f[y] = e[y] /\ g[D] = h[D])
      BY <3>5, <3>6, <3>7
    <3>9. \A x \in C : x = y \/ x \in D BY <3>2
    <3> QED BY <3>5, <3>8, <3>9
  <2> QED BY <2>2, <2>3
<1>4. T = Nat BY <1>2, <1>3, SetInduction
<1>5. Cardinality(A) \in T /\ Cardinality(A) <= Cardinality(A) BY <1>1, <1>4
<1> HIDE DEF Below
<1>6. Below(A) BY <1>5
<1> QED BY <1>6 DEF Below

-------------------------------------------------------------------------------
(* The sums over the stores. *)

SizeOf == [s \in AllStores |-> Size(s[1])]

LEMMA StoreSizes ==
    IsFiniteSet(AllStores) /\ SizeOf \in [AllStores -> Nat]
<1>1. \A a \in Int, b \in Int : IsFiniteSet(a..b) BY FS_Interval
<1>2. IsFiniteSet(Prompts)
  <2>1. PICK m : m = Len(Contexts) + MaxFills /\ m \in Int BY ContextsAre, ReuseAssumption
  <2>2. QED BY <1>1, <2>1 DEF Prompts
<1>3. IsFiniteSet(0..(FourContexts - 1)) BY <1>1, ReuseAssumption
<1>4. IsFiniteSet(AllStores) BY <1>2, <1>3, FS_Product DEF AllStores
<1>5. \A s \in AllStores : Size(s[1]) \in Nat BY Sizes DEF AllStores
<1>6. QED BY <1>4, <1>5 DEF SizeOf

\* What TLC's sum of a set computes.
Sums(h, f, A) ==
    h = [s \in SUBSET A |-> IF s = {} THEN 0 ELSE f[Pick(s)] + h[s \ {Pick(s)}]]

LEMMA SumsAreFolds ==
    ASSUME NEW A, IsFiniteSet(A), NEW f \in [A -> Nat]
    PROVE  /\ \E h : Sums(h, f, A)
           /\ \A h : Sums(h, f, A) => IsFold(h, f, A)
<1>1. \E h : Sums(h, f, A)
  <2>1. PICK g : IsFold(g, f, A) BY FoldExists
  <2>2. Sums(g, f, A) BY <2>1 DEF IsFold, Sums
  <2> QED BY <2>2
<1>2. ASSUME NEW h, Sums(h, f, A) PROVE IsFold(h, f, A)
  <2> DEFINE V == {h[s] : s \in SUBSET A}
  <2>1. /\ h \in [SUBSET A -> V]
        /\ \A s \in SUBSET A :
             h[s] = IF s = {} THEN 0 ELSE f[Pick(s)] + h[s \ {Pick(s)}]
    BY <1>2 DEF Sums
  <2> HIDE DEF V
  <2> QED BY <2>1, RecursionIsFold
<1> QED BY <1>1, <1>2

\* A sum of a function over a set is a fold of any function that agrees with it there.
LEMMA SumIsFold ==
    ASSUME NEW S, IsFiniteSet(S), NEW f \in [S -> Nat], NEW g, IsFold(g, f, S),
           NEW A \in SUBSET S, NEW e \in [A -> Nat], \A x \in A : e[x] = f[x],
           NEW h, h = CHOOSE k : Sums(k, e, A)
    PROVE  h[A] = g[A]
<1>1. IsFiniteSet(A) BY FS_Subset
<1>2. Sums(h, e, A) BY <1>1, SumsAreFolds
<1>3. IsFold(h, e, A) BY <1>1, <1>2, SumsAreFolds
<1> QED BY <1>3, FoldsAgree

LEMMA SizeSumIs ==
    ASSUME NEW g, IsFold(g, SizeOf, AllStores), NEW A \in SUBSET AllStores
    PROVE  SizeSum(A) = g[A]
<1> DEFINE e == [s \in A |-> Size(s[1])]
           Rec(h) == h = [s \in SUBSET A |->
                            IF s = {} THEN 0 ELSE Size(Pick(s)[1]) + h[s \ {Pick(s)}]]
<1>1. SizeSum(A) = (CHOOSE h : Rec(h))[A]
  BY DEF SizeSum, MapThenSumSet, MapThenFoldSet, Pick
<1>2. \A s \in SUBSET A : s # {} => e[Pick(s)] = Size(Pick(s)[1])
  BY PickIn
<1>3. \A h : Rec(h) <=> Sums(h, e, A)
  <2> HIDE DEF e
  <2>1. \A h : [s \in SUBSET A |-> IF s = {} THEN 0 ELSE Size(Pick(s)[1]) + h[s \ {Pick(s)}]]
             = [s \in SUBSET A |-> IF s = {} THEN 0 ELSE e[Pick(s)] + h[s \ {Pick(s)}]]
    BY <1>2
  <2> QED BY <2>1 DEF Sums
<1>4. e \in [A -> Nat] /\ \A s \in A : e[s] = SizeOf[s]
  BY StoreSizes DEF SizeOf
<1> HIDE DEF e, Rec
<1>5. (CHOOSE h : Rec(h)) = (CHOOSE h : Sums(h, e, A)) BY <1>3
<1> QED BY <1>1, <1>4, <1>5, StoreSizes, SumIsFold

\* The stores of a prompt that was not asked before add a share for each key.
LEMMA SizesAdd ==
    ASSUME NEW A \in SUBSET AllStores, NEW p \in Prompts, NEW K \in SUBSET KeyPlaces,
           A \cap ({p} \X K) = {}
    PROVE  /\ SizeSum(A) \in Nat /\ IsFiniteSet(K)
           /\ SizeSum(A \cup ({p} \X K)) = SizeSum(A) + Cardinality(K) * Size(p)
<1>1. PICK g : IsFold(g, SizeOf, AllStores) BY StoreSizes, FoldExists
<1> DEFINE B == {p} \X K
<1>2. B \in SUBSET AllStores /\ \A s \in B : SizeOf[s] = Size(p)
  BY DEF AllStores, KeyPlaces, SizeOf
<1>3. IsFiniteSet(K)
  <2>1. IsFiniteSet(0..(FourContexts - 1)) BY FS_Interval, ReuseAssumption
  <2>2. QED BY <2>1, FS_Subset DEF KeyPlaces
<1>4. Cardinality(B) = Cardinality(K)
  <2>1. IsFiniteSet({p}) /\ Cardinality({p}) = 1 BY FS_Singleton
  <2>2. Cardinality(B) = Cardinality({p}) * Cardinality(K) BY <1>3, <2>1, FS_Product
  <2>3. Cardinality(K) \in Nat BY <1>3, FS_CardinalityType
  <2>4. QED BY <2>1, <2>2, <2>3
<1> HIDE DEF B
<1>5. Size(p) \in Nat BY Sizes
<1>6. g[A \cup B] = g[A] + Cardinality(B) * Size(p)
  BY <1>1, <1>2, <1>5, StoreSizes, FoldAddsEqual DEF B
<1>7. A \cup B \in SUBSET AllStores BY <1>2
<1>8. SizeSum(A) = g[A] /\ SizeSum(A \cup B) = g[A \cup B] BY <1>1, <1>7, SizeSumIs
<1>9. g[A] \in Nat BY <1>1 DEF IsFold
<1> QED BY <1>3, <1>4, <1>6, <1>8, <1>9 DEF B

LEMMA NoSizes == SizeSum({}) = 0
<1>1. PICK g : IsFold(g, SizeOf, AllStores) BY StoreSizes, FoldExists
<1>2. {} \in SUBSET AllStores OBVIOUS
<1>3. g[{}] = 0 BY <1>1, <1>2 DEF IsFold
<1> QED BY <1>1, <1>2, <1>3, SizeSumIs

\* Finished objects are never more than were submitted, and as many only when all
\* of them are.
LEMMA ObjectsBelow ==
    ASSUME StoreInv, ~case.countsWriting
    PROVE  /\ TotalObjects \in Nat /\ SizeSum(sent) \in Nat
           /\ TotalObjects <= SizeSum(sent)
           /\ TotalObjects = SizeSum(sent) => \A s \in sent : written[s] = Size(s[1])
<1>1. PICK g : IsFold(g, SizeOf, AllStores) BY StoreSizes, FoldExists
<1>2. /\ written \in [AllStores -> Nat] /\ sent \in SUBSET AllStores
      /\ \A s \in AllStores : written[s] <= SizeOf[s]
  BY DEF StoreInv, SizeOf
<1>3. PICK w : IsFold(w, written, AllStores) BY <1>2, StoreSizes, FoldExists
<1> DEFINE e == [s \in sent |-> written[s]]
           Rec(h) == h = [s \in SUBSET sent |->
                            IF s = {} THEN 0
                            ELSE (IF case.countsWriting /\ Pick(s) \in taken
                                  THEN Size(Pick(s)[1]) ELSE written[Pick(s)])
                                 + h[s \ {Pick(s)}]]
<1>4. TotalObjects = (CHOOSE h : Rec(h))[sent]
  BY DEF TotalObjects, MapThenSumSet, MapThenFoldSet, Pick
<1>5. \A s \in SUBSET sent : s # {} => e[Pick(s)] = written[Pick(s)]
  BY PickIn
<1>6. \A h : Rec(h) <=> Sums(h, e, sent)
  <2> HIDE DEF e
  <2>1. \A h : [s \in SUBSET sent |->
                  IF s = {} THEN 0
                  ELSE (IF case.countsWriting /\ Pick(s) \in taken
                        THEN Size(Pick(s)[1]) ELSE written[Pick(s)]) + h[s \ {Pick(s)}]]
             = [s \in SUBSET sent |-> IF s = {} THEN 0 ELSE e[Pick(s)] + h[s \ {Pick(s)}]]
    BY <1>5
  <2> QED BY <2>1 DEF Sums
<1>7. e \in [sent -> Nat] /\ \A s \in sent : e[s] = written[s] BY <1>2
<1> HIDE DEF e, Rec
<1>8. (CHOOSE h : Rec(h)) = (CHOOSE h : Sums(h, e, sent)) BY <1>6
<1>9. TotalObjects = w[sent] BY <1>2, <1>3, <1>4, <1>7, <1>8, StoreSizes, SumIsFold
<1>10. SizeSum(sent) = g[sent] BY <1>1, <1>2, SizeSumIs
<1>11. \A s \in sent : written[s] <= SizeOf[s] BY <1>2
<1>12. w[sent] <= g[sent] /\ (w[sent] = g[sent] => \A s \in sent : written[s] = SizeOf[s])
  BY <1>1, <1>2, <1>3, <1>11, StoreSizes, FoldBelow
<1>13. w[sent] \in Nat /\ g[sent] \in Nat BY <1>1, <1>2, <1>3 DEF IsFold
<1>14. \A s \in sent : SizeOf[s] = Size(s[1]) BY <1>2 DEF SizeOf
<1> QED BY <1>9, <1>10, <1>12, <1>13, <1>14

-------------------------------------------------------------------------------
(* The program of the matrix. *)

Matrix == CaseOK /\ case.tool = "matrix"

LEMMA PartsAre ==
    ASSUME Matrix
    PROVE  /\ Len(Contexts) \in Nat \ {0} /\ case.fills \in Nat
           /\ ContextPart \in Nat /\ ContextPart = 2 * Len(Contexts)
           /\ StorePart \in Nat /\ StorePart = ContextPart + case.fills
           /\ FillSize \in Nat /\ GpuChunks \in Nat
           /\ case.fills * FillSize \in Nat
<1>1. case.fills \in Nat BY ProgramParts DEF Matrix
<1>2. FillSize \in Nat BY ReuseAssumption, DivMod DEF FillSize
<1>3. case.fills * FillSize \in Nat BY <1>1, <1>2
<1>4. QED BY <1>1, <1>2, <1>3, ContextsAre, ReuseAssumption DEF ContextPart, StorePart

LEMMA MatrixRequests ==
    ASSUME Matrix
    PROVE  /\ Len(Program) = StorePart + Len(Contexts)
           /\ \A i \in 1..Len(Program) :
                /\ i <= ContextPart =>
                     Program[i] = IF i % 2 = 1 THEN Request("cold", (i + 1) \div 2, "all")
                                  ELSE Request("local", i \div 2, "nothing")
                /\ ContextPart < i /\ i <= StorePart =>
                     Program[i] = Request("fill", i - Len(Contexts), "all")
                /\ StorePart < i =>
                     Program[i] = Request("external", i - StorePart, "nothing")
<1>1. PICK L, f : L = Len(Contexts) /\ f = case.fills OBVIOUS
<1>2. /\ L \in Nat \ {0} /\ f \in Nat /\ ContextPart = 2 * L /\ StorePart = 2 * L + f
  BY <1>1, PartsAre
<1>3. PICK colds : /\ colds = MatrixContexts /\ colds \in Seq(Requests) /\ Len(colds) = 2 * L
  BY <1>1, ProgramParts DEF Matrix
<1>4. PICK fills : /\ fills = Fills("all") /\ fills \in Seq(Requests) /\ Len(fills) = f
  BY <1>1, ProgramParts DEF Matrix
<1>5. PICK again : /\ again = MatrixReplays /\ again \in Seq(Requests) /\ Len(again) = L
                   /\ \A p \in 1..L : again[p] = Request("external", p, "nothing")
  BY <1>1, ProgramParts DEF Matrix
<1>6. \A i \in 1..(2 * L) :
        colds[i] = IF i % 2 = 1 THEN Request("cold", (i + 1) \div 2, "all")
                   ELSE Request("local", i \div 2, "nothing")
  BY <1>1, <1>3 DEF MatrixContexts
<1>7. \A i \in 1..f : fills[i] = Request("fill", L + i, "all")
  BY <1>1, <1>4 DEF Fills
<1>8. PICK first : first = colds \o fills OBVIOUS
<1>9. /\ first \in Seq(Requests) /\ Len(first) = 2 * L + f
       /\ \A i \in 1..(2 * L + f) :
            first[i] = IF i <= 2 * L THEN colds[i] ELSE fills[i - 2 * L]
  <2>1. /\ first \in Seq(Requests) /\ Len(first) = Len(colds) + Len(fills)
        /\ \A i \in 1..(Len(colds) + Len(fills)) :
             first[i] = IF i <= Len(colds) THEN colds[i] ELSE fills[i - Len(colds)]
    BY <1>3, <1>4, <1>8, Concatenated
  <2>2. QED BY <1>3, <1>4, <2>1
<1>10. Program = first \o again BY <1>3, <1>4, <1>5, <1>8 DEF Program, Matrix
<1>11. /\ Len(Program) = 2 * L + f + L
       /\ \A i \in 1..(2 * L + f + L) :
            Program[i] = IF i <= 2 * L + f THEN first[i] ELSE again[i - (2 * L + f)]
  <2>1. first \in Seq(Requests) /\ again \in Seq(Requests) BY <1>5, <1>9
  <2>2. /\ Len(Program) = Len(first) + Len(again)
        /\ \A i \in 1..(Len(first) + Len(again)) :
             Program[i] = IF i <= Len(first) THEN first[i] ELSE again[i - Len(first)]
    BY <1>10, <2>1, Concatenated
  <2>3. QED BY <1>5, <1>9, <2>2
<1>12. ASSUME NEW i \in 1..(2 * L + f + L)
       PROVE  /\ i <= 2 * L =>
                   Program[i] = IF i % 2 = 1 THEN Request("cold", (i + 1) \div 2, "all")
                                ELSE Request("local", i \div 2, "nothing")
              /\ 2 * L < i /\ i <= 2 * L + f => Program[i] = Request("fill", i - L, "all")
              /\ 2 * L + f < i => Program[i] = Request("external", i - (2 * L + f), "nothing")
  <2>1. CASE i <= 2 * L
    <3>1. i \in 1..(2 * L) /\ i \in 1..(2 * L + f) /\ i <= 2 * L + f BY <1>2, <2>1
    <3>2. Program[i] = colds[i] BY <1>9, <1>11, <2>1, <3>1
    <3>3. QED BY <1>2, <1>6, <2>1, <3>1, <3>2
  <2>2. CASE 2 * L < i /\ i <= 2 * L + f
    <3>1. i \in 1..(2 * L + f) /\ ~(i <= 2 * L) /\ i - 2 * L \in 1..f /\ L + (i - 2 * L) = i - L
      BY <1>2, <2>2
    <3>2. Program[i] = fills[i - 2 * L] BY <1>9, <1>11, <2>2, <3>1
    <3>3. Program[i] = Request("fill", i - L, "all") BY <1>7, <3>1, <3>2
    <3>4. ~(2 * L + f < i) BY <1>2, <2>2
    <3>5. QED BY <3>1, <3>3, <3>4
  <2>3. CASE 2 * L + f < i
    <3>1. ~(i <= 2 * L) /\ ~(i <= 2 * L + f) /\ i - (2 * L + f) \in 1..L BY <1>2, <2>3
    <3>2. Program[i] = again[i - (2 * L + f)] BY <1>11, <3>1
    <3>3. QED BY <1>5, <3>1, <3>2
  <2>4. QED BY <1>2, <2>1, <2>2, <2>3
<1>13. QED BY <1>1, <1>2, <1>11, <1>12

\* The prompt at a place, by number.
LEMMA MatrixPrompts ==
    ASSUME Matrix, NEW i \in 1..Len(Program)
    PROVE  /\ i \in Nat /\ Program[i].prompt \in Prompts
           /\ Program[i].await \in {"all", "nothing"}
           /\ i <= ContextPart =>
                /\ Program[i].prompt = (i + 1) \div 2
                /\ Program[i].prompt \in 1..Len(Contexts)
                /\ Program[i].await = "all" <=> i % 2 = 1
                /\ Program[i].kind \in {"cold", "local"}
           /\ ContextPart < i /\ i <= StorePart =>
                /\ Program[i].prompt = i - Len(Contexts)
                /\ Program[i].await = "all" /\ Program[i].kind = "fill"
           /\ StorePart < i =>
                /\ Program[i].prompt = i - StorePart
                /\ Program[i].prompt \in 1..Len(Contexts)
                /\ Program[i].await = "nothing" /\ Program[i].kind = "external"
<1>1. PICK L, c, s : L = Len(Contexts) /\ c = ContextPart /\ s = StorePart OBVIOUS
<1>2. /\ L \in Nat \ {0} /\ c = 2 * L /\ s \in Nat /\ c <= s BY <1>1, PartsAre
<1>3. Len(Program) = s + L BY <1>1, MatrixRequests
<1>4. i \in Nat /\ i >= 1 /\ i <= s + L BY <1>2, <1>3
<1>5. Program[i] \in Requests BY ProgramIs, ElementOfSeq DEF Matrix
<1>6. CASE i <= c
  <2>1. Program[i] = IF i % 2 = 1 THEN Request("cold", (i + 1) \div 2, "all")
                     ELSE Request("local", i \div 2, "nothing")
    BY <1>1, <1>6, MatrixRequests
  <2>2. i % 2 # 1 => i \div 2 = (i + 1) \div 2 BY <1>4
  <2>3. (i + 1) \div 2 \in 1..L BY <1>2, <1>4, <1>6
  <2>4. ~(c < i) /\ ~(s < i) BY <1>2, <1>4, <1>6
  <2>5. QED BY <1>1, <1>4, <1>5, <2>1, <2>2, <2>3, <2>4 DEF Request, Requests
<1>7. CASE c < i /\ i <= s
  <2>1. Program[i] = Request("fill", i - L, "all") BY <1>1, <1>7, MatrixRequests
  <2>2. ~(i <= c) /\ ~(s < i) BY <1>2, <1>4, <1>7
  <2>3. QED BY <1>1, <1>4, <1>5, <2>1, <2>2 DEF Request, Requests
<1>8. CASE s < i
  <2>1. Program[i] = Request("external", i - s, "nothing") BY <1>1, <1>8, MatrixRequests
  <2>2. ~(i <= c) /\ ~(i <= s) /\ i - s \in 1..L BY <1>2, <1>4, <1>8
  <2>3. QED BY <1>1, <1>4, <1>5, <2>1, <2>2 DEF Request, Requests
<1>9. QED BY <1>2, <1>4, <1>6, <1>7, <1>8

\* What is waited for was not asked before; what is not was, and is a context.
LEMMA AskedBefore ==
    ASSUME Matrix, NEW i \in 1..Len(Program)
    PROVE  /\ Program[i].await = "all" => Program[i].prompt \notin Asked(i - 1)
           /\ Program[i].await # "all" => Program[i].prompt \in Asked(i - 1)
<1>1. PICK L, c, s, n : L = Len(Contexts) /\ c = ContextPart /\ s = StorePart /\ n = Len(Program)
  OBVIOUS
<1>2. L \in Nat \ {0} /\ c = 2 * L /\ s \in Nat /\ c <= s /\ n = s + L
  <2>1. PICK f : f = case.fills OBVIOUS
  <2>2. L \in Nat \ {0} /\ c \in Nat /\ c = 2 * L /\ f \in Nat /\ s = c + f
    BY <1>1, <2>1, PartsAre
  <2>3. n = s + L BY <1>1, MatrixRequests
  <2>4. QED BY <2>2, <2>3
<1>3. i \in Nat /\ i >= 1 /\ i <= n BY <1>1, <1>2
<1>4. \A j \in 1..(i - 1) : j \in 1..n /\ j \in Nat /\ j < i BY <1>2, <1>3
<1>5. CASE i <= c
  <2>1. /\ Program[i].prompt = (i + 1) \div 2
        /\ Program[i].await = "all" <=> i % 2 = 1
    BY <1>1, <1>5, MatrixPrompts
  <2>2. \A j \in 1..(i - 1) : Program[j].prompt = (j + 1) \div 2
    <3> TAKE j \in 1..(i - 1)
    <3>1. j <= c /\ j \in 1..n BY <1>2, <1>3, <1>4, <1>5
    <3>2. QED BY <1>1, <3>1, MatrixPrompts
  <2>3. ASSUME i % 2 = 1 PROVE Program[i].prompt \notin Asked(i - 1)
    <3>1. \A j \in 1..(i - 1) : (j + 1) \div 2 # (i + 1) \div 2 BY <1>3, <1>4, <2>3
    <3>2. QED BY <2>1, <2>2, <3>1 DEF Asked
  <2>4. ASSUME i % 2 # 1 PROVE Program[i].prompt \in Asked(i - 1)
    <3>1. i - 1 \in 1..(i - 1) /\ (i - 1) + 1 = i /\ i \div 2 = (i + 1) \div 2 BY <1>3, <2>4
    <3>2. Program[i - 1].prompt = Program[i].prompt BY <2>1, <2>2, <3>1
    <3>3. QED BY <3>1, <3>2 DEF Asked
  <2>5. QED BY <2>1, <2>3, <2>4
<1>6. CASE c < i /\ i <= s
  <2>1. Program[i].prompt = i - L /\ Program[i].await = "all" BY <1>1, <1>6, MatrixPrompts
  <2>2. ASSUME NEW j \in 1..(i - 1) PROVE Program[j].prompt # i - L
    <3>1. j \in 1..n /\ j \in Nat /\ j < i BY <1>4
    <3>2. CASE j <= c
      <4>1. Program[j].prompt \in 1..L BY <1>1, <3>1, <3>2, MatrixPrompts
      <4>2. QED BY <1>2, <1>3, <1>6, <4>1
    <3>3. CASE c < j /\ j <= s
      <4>1. Program[j].prompt = j - L BY <1>1, <3>1, <3>3, MatrixPrompts
      <4>2. QED BY <1>2, <1>3, <3>1, <4>1
    <3>4. j <= s BY <1>2, <1>3, <1>6, <3>1
    <3>5. QED BY <1>2, <3>1, <3>2, <3>3, <3>4
  <2>3. QED BY <2>1, <2>2 DEF Asked
<1>7. CASE s < i
  <2>1. /\ Program[i].prompt = i - s /\ Program[i].prompt \in 1..L
        /\ Program[i].await = "nothing"
    BY <1>1, <1>7, MatrixPrompts
  <2>2. PICK p : p = i - s /\ p \in 1..L BY <2>1
  <2>3. PICK j : j = 2 * p - 1 OBVIOUS
  <2>4. j \in 1..(i - 1) /\ j <= c /\ j \in 1..n /\ (j + 1) \div 2 = p
    BY <1>2, <1>3, <1>7, <2>2, <2>3
  <2>5. Program[j].prompt = p BY <1>1, <2>4, MatrixPrompts
  <2>6. QED BY <2>1, <2>2, <2>4, <2>5 DEF Asked
<1>8. QED BY <1>2, <1>3, <1>5, <1>6, <1>7

\* One more request, one more prompt at most.
LEMMA AskedNext ==
    ASSUME Matrix, NEW n \in Nat, n + 1 <= Len(Program)
    PROVE  /\ Asked(n + 1) = Asked(n) \cup {Program[n + 1].prompt}
           /\ Asked(n) \subseteq Prompts /\ Asked(n + 1) \subseteq Prompts
<1>1. \A i \in 1..(n + 1) : i \in 1..n \/ i = n + 1 OBVIOUS
<1>2. \A i \in 1..n : i \in 1..(n + 1) OBVIOUS
<1>3. n + 1 \in 1..(n + 1) OBVIOUS
<1>4. \A i \in 1..(n + 1) : i \in 1..Len(Program) BY ProgramIs DEF Matrix
<1>5. \A i \in 1..(n + 1) : Program[i].prompt \in Prompts BY <1>4, MatrixPrompts
<1>6. Asked(n + 1) = Asked(n) \cup {Program[n + 1].prompt}
  BY <1>1, <1>2, <1>3 DEF Asked
<1>7. QED BY <1>2, <1>5, <1>6 DEF Asked

LEMMA AskedNone == Asked(0) = {}
BY DEF Asked

\* A context has chunks, and they have all of its tokens.
LEMMA ContextSizes ==
    ASSUME NEW p \in 1..Len(Contexts)
    PROVE  /\ p \in Prompts /\ Size(p) \in Nat \ {0} /\ Tokens(p) = Size(p) * ChunkTokens
           /\ Tokens(p) % ChunkTokens = 0
<1>1. PICK L : L = Len(Contexts) /\ L \in Nat BY ContextsAre
<1>2. p \in Prompts BY <1>1, ReuseAssumption DEF Prompts
<1>3. PICK t, b : t = Tokens(p) /\ b = ChunkTokens OBVIOUS
<1>4. t \in Nat \ {0} /\ t % b = 0 /\ b \in Nat \ {0}
  BY <1>1, <1>3, ContextsAre, ReuseAssumption DEF Tokens
<1>5. PICK q : q = t \div b OBVIOUS
<1>6. q \in Nat /\ t = b * q + 0 BY <1>4, <1>5, DivMod
<1>7. q # 0
  <2>1. b * 0 = 0 BY <1>4
  <2>2. QED BY <1>4, <1>6, <2>1
<1>8. t = q * b BY <1>4, <1>6
<1>9. QED BY <1>2, <1>3, <1>4, <1>5, <1>6, <1>7, <1>8 DEF Size

LEMMA FillSizes ==
    ASSUME NEW p \in Prompts, p > Len(Contexts)
    PROVE  Tokens(p) = EvictTokens /\ Size(p) = FillSize
<1>1. p \in Nat /\ Len(Contexts) \in Nat BY ContextsAre, ReuseAssumption DEF Prompts
<1>2. ~(p <= Len(Contexts)) BY <1>1
<1>3. QED BY <1>2 DEF Tokens, Size, FillSize

-------------------------------------------------------------------------------
(* What is expected, and what was waited for. *)

LEMMA MatrixFixes ==
    ASSUME UNCHANGED case
    PROVE  /\ UNCHANGED <<StoredKeys, ContextPart, StorePart>>
           /\ Sure' <=> Sure
           /\ \A n : UNCHANGED Asked(n)
<1>1. UNCHANGED <<KeyRanks, Program>> /\ \A k : UNCHANGED Writers(k) BY CaseFixes
<1>2. UNCHANGED StoredKeys BY <1>1 DEF StoredKeys
<1>3. \A n : UNCHANGED Asked(n) BY <1>1 DEF Asked
<1>4. Sure' <=> Sure BY DEF Sure, Flushes
<1>5. QED BY <1>2, <1>3, <1>4 DEF ContextPart, StorePart

\* With nothing new submitted or expected.
LEMMA SentStays ==
    ASSUME SentInv, UNCHANGED <<case, sent, expected, results>>
    PROVE  SentInv'
<1>1. UNCHANGED <<KeyRanks, StoredKeys, Program>> BY MatrixFixes, CaseFixes
<1>2. Asked(Len(results))' = Asked(Len(results)) BY <1>1 DEF Asked
<1>3. QED BY <1>1, <1>2 DEF SentInv

LEMMA ProductsGrow ==
    ASSUME NEW z \in Nat, NEW o \in Nat, NEW k \in Nat, NEW d \in Nat, z <= o, k <= d
    PROVE  /\ z * k \in Nat /\ o * d \in Nat /\ z * k <= o * d
           /\ z > 0 /\ k < d => z * k < o * d
<1>1. PICK e, f : e = o - z /\ f = d - k /\ e \in Nat /\ f \in Nat OBVIOUS
<1>2. o = z + e /\ d = k + f BY <1>1
<1>3. o * d = z * k + z * f + e * d
  <2>1. o * d = z * d + e * d BY <1>1, <1>2
  <2>2. z * d = z * k + z * f BY <1>1, <1>2
  <2>3. z * d \in Nat /\ e * d \in Nat BY <1>1
  <2>4. QED BY <2>1, <2>2, <2>3
<1>4. z * k \in Nat /\ z * f \in Nat /\ e * d \in Nat /\ o * d \in Nat BY <1>1
<1>5. z > 0 /\ f > 0 => z * f > 0 BY <1>1
<1>6. k < d => f > 0 BY <1>1
<1>7. QED BY <1>3, <1>4, <1>5, <1>6

\* The keys with a storing rank are no more than the keys.
LEMMA StoredKeysAre ==
    ASSUME CaseOK
    PROVE  /\ StoredKeys \subseteq KeyRanks /\ StoredKeys \in SUBSET KeyPlaces
           /\ KvWorld \in Nat
           /\ Cardinality(StoredKeys) \in Nat /\ Cardinality(StoredKeys) <= KvWorld
           /\ StoredKeys # KeyRanks => Cardinality(StoredKeys) < KvWorld
           /\ StoredKeys = KeyRanks => Cardinality(StoredKeys) = KvWorld
           /\ case.mlaStore => StoredKeys = KeyRanks
<1>1. PICK d : d = dcp /\ d \in Nat \ {0} /\ KvWorld = d /\ KeyRanks = 0..(d - 1)
  BY RanksAndKeys
<1>2. StoredKeys \subseteq KeyRanks /\ KeyRanks \subseteq KeyPlaces
  BY RanksAndKeys DEF StoredKeys
<1>3. IsFiniteSet(KeyRanks) /\ Cardinality(KeyRanks) = d
  <2>1. \A a \in Int, b \in Int :
          IsFiniteSet(a..b) /\ Cardinality(a..b) = IF a > b THEN 0 ELSE b - a + 1
    BY FS_Interval
  <2>2. IsFiniteSet(0..(d - 1))
        /\ Cardinality(0..(d - 1)) = IF 0 > d - 1 THEN 0 ELSE (d - 1) - 0 + 1
    BY <1>1, <2>1
  <2>3. QED BY <1>1, <2>2
<1>4. /\ IsFiniteSet(StoredKeys) /\ Cardinality(StoredKeys) <= Cardinality(KeyRanks)
      /\ Cardinality(StoredKeys) = Cardinality(KeyRanks) => StoredKeys = KeyRanks
  BY <1>2, <1>3, FS_Subset
<1>5. Cardinality(StoredKeys) \in Nat BY <1>4, FS_CardinalityType
<1>6. ASSUME case.mlaStore PROVE StoredKeys = KeyRanks
  <2> SUFFICES ASSUME NEW k \in KeyRanks PROVE Writers(k) # {}
    BY <1>2 DEF StoredKeys
  <2>1. k \in Nat /\ k < d BY <1>1
  <2>2. d <= tp /\ tp \in Nat
    <3>1. PICK t, q : t = tp /\ q = tp \div dcp OBVIOUS
    <3>2. t \in Nat \ {0} /\ q \in Nat /\ t = d * q BY <1>1, <3>1, RanksAndKeys
    <3>3. q # 0
      <4>1. d * 0 = 0 BY <1>1
      <4>2. QED BY <3>2, <4>1
    <3>4. PICK x \in Nat : q = x + 1 BY <3>2, <3>3
    <3>5. d * (x + 1) = d * x + d /\ d * x \in Nat BY <1>1
    <3>6. QED BY <1>1, <3>1, <3>2, <3>4, <3>5
  <2>3. k \in RankIds BY <2>1, <2>2, <1>1 DEF RankIds
  <2>4. KvRank(k) = k
    <3>1. k % d = k
      <4>1. d * 0 + k = k /\ k \in 0..(d - 1) BY <1>1, <2>1
      <4>2. (d * 0 + k) % d = k BY <1>1, <4>1, DivUnique
      <4>3. QED BY <4>1, <4>2
    <3>2. QED BY <1>1, <2>3, <3>1, RanksAndKeys
  <2>5. Storing(k) BY <1>1, <1>6, <2>1 DEF Storing
  <2>6. QED BY <2>3, <2>4, <2>5 DEF Writers
<1>7. QED BY <1>1, <1>2, <1>3, <1>4, <1>5, <1>6

\* Where a completion is in the program.
LEMMA CompletesAt ==
    ASSUME Matrix, ToolInv, Complete
    PROVE  \E n \in Nat :
             /\ n = Len(results) /\ n + 1 = at /\ n + 1 \in 1..Len(Program)
             /\ n + 1 = Len(results') /\ Now = Program[n + 1]
             /\ ToolInv'
<1>1. doing = "computing" /\ doing' = "waiting" /\ UNCHANGED <<case, at>> BY DEF Complete
<1>2. ToolInv' BY CompleteAdds DEF Matrix
<1>3. at \in 1..Len(Program) /\ Len(results) = at - 1 BY <1>1 DEF ToolInv, ProgramInv
<1>4. Len(results') = at BY <1>1, <1>2 DEF ToolInv, ProgramInv
<1>5. Len(results) \in Nat BY LenProperties DEF ToolInv, ProgramInv
<1>6. Len(Program) \in Nat BY ProgramIs DEF Matrix
<1>7. Now = Program[at] BY DEF Now
<1>8. PICK n : n = Len(results) OBVIOUS
<1>9. n \in Nat /\ n + 1 = at BY <1>3, <1>5, <1>6, <1>8
<1>10. QED BY <1>2, <1>3, <1>4, <1>7, <1>8, <1>9

LEMMA CompleteSends ==
    ASSUME Matrix, ToolInv, TypesInv, SentInv, Complete
    PROVE  SentInv'
<1>1. PICK n \in Nat :
        /\ n = Len(results) /\ n + 1 \in 1..Len(Program)
        /\ n + 1 = Len(results') /\ Now = Program[n + 1]
  BY CompletesAt
<1>2. PICK p, await : p = Now.prompt /\ await = Now.await OBVIOUS
<1>3. p \in Prompts /\ await \in {"all", "nothing"} BY <1>1, <1>2, MatrixPrompts
<1>4. /\ UNCHANGED case /\ sent' = sent \cup Stores(p)
      /\ expected' = IF await = "all" THEN expected + ExpectedOf(p) ELSE expected
  BY <1>2, <1>3 DEF Complete
<1>5. PICK K : K = StoredKeys OBVIOUS
<1>6. Stores(p) = {p} \X K BY <1>5 DEF Stores, StoredKeys
<1>7. PICK A : A = Asked(n) OBVIOUS
<1>8. PICK B : B = Asked(n + 1) OBVIOUS
<1>9. B = A \cup {p} /\ A \subseteq Prompts /\ B \subseteq Prompts
  <2>1. n + 1 <= Len(Program) BY <1>1, ProgramIs DEF Matrix
  <2>2. QED BY <1>1, <1>2, <1>7, <1>8, <2>1, AskedNext
<1>10. sent = A \X K BY <1>1, <1>5, <1>7 DEF SentInv
<1>11. sent' = B \X K BY <1>4, <1>6, <1>9, <1>10
<1>12. K \in SUBSET KeyPlaces BY <1>5, StoredKeysAre DEF Matrix
<1>13. sent \in SUBSET AllStores BY DEF ToolInv, StoreInv
<1>14. /\ StoredKeys' = K /\ KeyRanks' = KeyRanks
       /\ Asked(Len(results))' = B
  <2>1. UNCHANGED <<StoredKeys, Program, KeyRanks>> BY <1>4, MatrixFixes, CaseFixes
  <2>2. Asked(Len(results))' = {Program'[i].prompt : i \in 1..Len(results')} BY DEF Asked
  <2>3. B = {Program[i].prompt : i \in 1..(n + 1)} BY <1>8 DEF Asked
  <2>4. QED BY <1>1, <1>5, <2>1, <2>2, <2>3
<1>15. PICK x, y, v, w : x = SizeSum(sent) /\ y = SizeSum(sent') /\ v = expected /\ w = expected'
  OBVIOUS
<1>16. /\ x <= v
       /\ results # <<>> /\ K # KeyRanks => x < v
       /\ K = KeyRanks /\ EvictTokens % ChunkTokens = 0 => v = x
  BY <1>5, <1>15 DEF SentInv
<1>17. results # <<>> <=> n # 0
  <2>1. results = <<>> <=> Len(results) = 0 BY EmptySeq DEF ToolInv, ProgramInv
  <2>2. QED BY <1>1, <2>1
<1>18. /\ y <= w
       /\ K # KeyRanks => y < w
       /\ K = KeyRanks /\ EvictTokens % ChunkTokens = 0 => w = y
  <2>1. CASE await # "all"
    <3>1. p \in A
      <4>1. (n + 1) - 1 = n OBVIOUS
      <4>2. QED BY <1>1, <1>2, <1>7, <2>1, <4>1, AskedBefore
    <3>2. sent' = sent /\ w = v BY <1>4, <1>9, <1>10, <1>11, <1>15, <2>1, <3>1
    <3>3. n # 0 BY <1>7, <3>1, AskedNone
    <3>4. x = y BY <1>15, <3>2
    <3>5. QED BY <1>16, <1>17, <3>2, <3>3, <3>4
  <2>2. CASE await = "all"
    <3>1. p \notin A
      <4>1. (n + 1) - 1 = n OBVIOUS
      <4>2. QED BY <1>1, <1>2, <1>7, <2>2, <4>1, AskedBefore
    <3>2. sent' = sent \cup ({p} \X K) /\ sent \cap ({p} \X K) = {}
      BY <1>4, <1>6, <1>10, <3>1
    <3>3. PICK k, z, o, d : k = Cardinality(K) /\ z = Size(p) /\ o = Objects(p) /\ d = KvWorld
      OBVIOUS
    <3>4. x \in Nat /\ y = x + k * z
      BY <1>3, <1>12, <1>13, <1>15, <3>2, <3>3, SizesAdd
    <3>5. w = v + o * d BY <1>4, <1>15, <2>2, <3>3 DEF ExpectedOf
    <3>6. /\ k \in Nat /\ d \in Nat /\ k <= d /\ (K # KeyRanks => k < d)
          /\ (K = KeyRanks => k = d)
      BY <1>5, <3>3, StoredKeysAre DEF Matrix
    <3>7. z \in Nat /\ o \in Nat /\ z <= o BY <1>3, <3>3, Sizes, ObjectsAre DEF Matrix
    <3>8. z * k \in Nat /\ o * d \in Nat /\ z * k <= o * d /\ k * z = z * k
          /\ (z > 0 /\ k < d => z * k < o * d)
      BY <3>6, <3>7, ProductsGrow
    <3>9. v \in Nat BY <1>15 DEF TypesInv
    <3>10. n = 0 => z > 0
      <4>1. SUFFICES ASSUME n = 0 PROVE z > 0 OBVIOUS
      <4>2. n + 1 = 1 /\ 1 <= ContextPart /\ (1 + 1) \div 2 = 1
        BY <4>1, PartsAre
      <4>3. p \in 1..Len(Contexts) BY <1>1, <1>2, <4>2, MatrixPrompts
      <4>4. z \in Nat \ {0} BY <3>3, <4>3, ContextSizes
      <4>5. QED BY <4>4
    <3>11. EvictTokens % ChunkTokens = 0 => o = z
      <4>1. CASE p \in 1..Len(Contexts)
        BY <1>3, <3>3, <4>1, ContextSizes, ObjectsAre DEF Matrix
      <4>2. CASE p \notin 1..Len(Contexts)
        <5>1. p > Len(Contexts) BY <1>3, <4>2, ContextsAre, ReuseAssumption DEF Prompts
        <5>2. Tokens(p) = EvictTokens BY <1>3, <5>1, FillSizes
        <5>3. QED BY <1>3, <3>3, <5>2, ObjectsAre DEF Matrix
      <4>3. QED BY <4>1, <4>2
    <3>12. y <= w BY <1>16, <3>4, <3>5, <3>8, <3>9
    <3>13. K # KeyRanks => y < w
      <4>1. CASE n = 0 BY <1>16, <3>4, <3>5, <3>6, <3>8, <3>9, <3>10, <4>1
      <4>2. CASE n # 0 BY <1>16, <1>17, <3>4, <3>5, <3>8, <3>9, <4>2
      <4>3. QED BY <4>1, <4>2
    <3>14. K = KeyRanks /\ EvictTokens % ChunkTokens = 0 => w = y
      BY <1>16, <3>4, <3>5, <3>6, <3>8, <3>11
    <3>15. QED BY <3>12, <3>13, <3>14
  <2>3. QED BY <2>1, <2>2
<1>19. SizeSum(sent)' = y BY <1>15
<1>20. QED BY <1>11, <1>14, <1>15, <1>18, <1>19 DEF SentInv

-------------------------------------------------------------------------------
(* What was waited for is whole. *)

LEMMA WholeStays ==
    ASSUME CaseOK, StoreInv, StoreInv', UNCHANGED case, Grows,
           NEW p \in Prompts, Whole(p)
    PROVE  \A k \in KeyRanks' : written'[<<p, k>>] = Size(p)
<1> SUFFICES ASSUME NEW k \in KeyRanks' PROVE written'[<<p, k>>] = Size(p)
  OBVIOUS
<1>1. k \in KeyRanks BY CaseFixes
<1>2. PICK s : s = <<p, k>> /\ s \in AllStores BY <1>1, StoresAre
<1>3. written[s] = Size(p) BY <1>1, <1>2 DEF Whole
<1>4. written'[s] \in Nat /\ written'[s] <= Size(p) /\ written'[s] >= written[s]
  BY <1>2 DEF StoreInv, Grows
<1>5. QED BY <1>2, <1>3, <1>4, Sizes

\* The prompts asked so far, in one place for both states.
LEMMA AskedArePrompts ==
    ASSUME Matrix, ToolInv
    PROVE  /\ Asked(Len(results)) \subseteq Prompts
           /\ Asked(Len(results) - 1) \subseteq Prompts
<1>1. PICK n : n = Len(results) /\ n \in Nat BY LenProperties DEF ToolInv, ProgramInv
<1>2. n <= Len(Program)
  <2>1. CASE doing = "start"
    <3>1. n = 0 BY <1>1, <2>1, EmptySeq DEF ToolInv, ProgramInv
    <3>2. QED BY <3>1, ProgramIs DEF Matrix
  <2>2. CASE doing # "start" BY <1>1, <2>2 DEF ToolInv, ProgramInv
  <2>3. QED BY <2>1, <2>2
<1>3. Len(Program) \in Nat BY ProgramIs DEF Matrix
<1>4. \A i \in 1..n : Program[i].prompt \in Prompts
  <2>1. \A i \in 1..n : i \in 1..Len(Program) BY <1>1, <1>2, <1>3
  <2>2. QED BY <2>1, MatrixPrompts
<1>5. \A i \in 1..(n - 1) : i \in 1..n BY <1>1
<1>6. QED BY <1>1, <1>4, <1>5 DEF Asked

\* Steps that add no result, and do not end a wait.
LEMMA WholeInvStays ==
    ASSUME Matrix, ToolInv, StoreInv', WholeInv, UNCHANGED <<case, results>>, Grows,
           \/ doing' = doing
           \/ doing' = "done"
           \/ doing \in {"asking", "loading", "computing", "judging"} /\ doing' # "waiting"
    PROVE  WholeInv'
<1>1. PICK A, B : A = Asked(Len(results)) /\ B = Asked(Len(results) - 1) OBVIOUS
<1>2. Asked(Len(results))' = A /\ Asked(Len(results) - 1)' = B
  <2>1. UNCHANGED Program BY CaseFixes
  <2>2. QED BY <1>1, <2>1 DEF Asked
<1>3. A \subseteq Prompts /\ B \subseteq Prompts BY <1>1, AskedArePrompts
<1>4. \A p \in Prompts : Whole(p) => \A k \in KeyRanks' : written'[<<p, k>>] = Size(p)
  BY WholeStays DEF Matrix, ToolInv
<1>5. \A p \in Prompts : Whole(p) => Whole(p)'
  BY <1>4 DEF Whole
<1>6. ~case.countsWriting =>
        /\ doing \in {"asking", "loading", "computing", "judging"} => \A p \in A : Whole(p)
        /\ doing = "waiting" => \A p \in B : Whole(p)
  BY <1>1 DEF WholeInv
<1>7. ~case.countsWriting =>
        /\ doing' \in {"asking", "loading", "computing", "judging"} => \A p \in A : Whole(p)'
        /\ doing' = "waiting" => \A p \in B : Whole(p)'
  BY <1>3, <1>5, <1>6
<1>8. QED BY <1>2, <1>7 DEF WholeInv

\* A completion is not waited for yet.
LEMMA CompleteWhole ==
    ASSUME Matrix, ToolInv, WholeInv, Complete
    PROVE  WholeInv'
<1>1. PICK n \in Nat :
        n = Len(results) /\ n + 1 = Len(results') /\ ToolInv'
  BY CompletesAt
<1>2. PICK A : A = Asked(n) OBVIOUS
<1>3. doing = "computing" /\ doing' = "waiting" /\ UNCHANGED <<case, written>>
  BY DEF Complete
<1>4. Asked(Len(results) - 1)' = A
  <2>1. UNCHANGED Program BY <1>3, CaseFixes
  <2>2. Len(results') - 1 = n BY <1>1
  <2>3. QED BY <1>2, <2>1, <2>2 DEF Asked
<1>5. ~case.countsWriting => \A p \in A : Whole(p)
  BY <1>1, <1>2, <1>3 DEF WholeInv
<1>6. \A p : Whole(p) => Whole(p)' BY <1>3, CaseFixes DEF Whole
<1>7. ~case.countsWriting => \A p \in A : Whole(p)' BY <1>5, <1>6
<1>8. QED BY <1>3, <1>4, <1>7 DEF WholeInv

\* The count that was waited for is that of everything submitted, for every key.
LEMMA EnoughIsWhole ==
    ASSUME Matrix, ToolInv, TypesInv, SentInv, ~case.countsWriting, results # <<>>, Enough
    PROVE  \A p \in Asked(Len(results)) : Whole(p)
<1>1. PICK x, y, v : x = SizeSum(sent) /\ y = TotalObjects /\ v = expected OBVIOUS
<1>2. /\ x \in Nat /\ y \in Nat /\ y <= x
      /\ y = x => \A s \in sent : written[s] = Size(s[1])
  BY <1>1, ObjectsBelow DEF ToolInv
<1>3. v \in Nat /\ x <= v /\ (StoredKeys # KeyRanks => x < v)
  BY <1>1 DEF SentInv, TypesInv
<1>4. y >= v BY <1>1 DEF Enough
<1>5. StoredKeys = KeyRanks /\ \A s \in sent : written[s] = Size(s[1])
  BY <1>2, <1>3, <1>4
<1>6. PICK A : A = Asked(Len(results)) OBVIOUS
<1>7. sent = A \X KeyRanks BY <1>5, <1>6 DEF SentInv
<1>8. ASSUME NEW p \in A, NEW k \in KeyRanks PROVE written[<<p, k>>] = Size(p)
  <2>1. <<p, k>> \in sent /\ <<p, k>>[1] = p BY <1>7
  <2>2. QED BY <1>5, <2>1
<1>9. QED BY <1>6, <1>8 DEF Whole

LEMMA GoOnWhole ==
    ASSUME Matrix, ToolInv, TypesInv, SentInv, WholeInv, GoOn
    PROVE  WholeInv'
<1>1. /\ doing = "waiting" /\ Awaited /\ doing' \in {"asking", "judging"}
      /\ UNCHANGED <<case, results, written>>
  BY DEF GoOn, cacheVars
<1>2. PICK n : n = Len(results) OBVIOUS
<1>3. n = at /\ at \in 1..Len(Program) /\ Len(Program) \in Nat
  BY <1>1, <1>2, ProgramIs DEF ToolInv, ProgramInv, Matrix
<1>4. n \in Nat \ {0} /\ n \in 1..Len(Program) BY <1>3
<1>5. PICK A, B, p : A = Asked(n) /\ B = Asked(n - 1) /\ p = Program[n].prompt OBVIOUS
<1>6. A = B \cup {p}
  <2>1. PICK m \in Nat : n = m + 1 BY <1>4
  <2>2. n - 1 = m /\ m + 1 <= Len(Program) BY <1>3, <1>4, <2>1
  <2>3. QED BY <1>5, <2>1, <2>2, AskedNext
<1>7. ASSUME ~case.countsWriting PROVE \A q \in A : Whole(q)
  <2>1. \A q \in B : Whole(q) BY <1>1, <1>2, <1>5, <1>7 DEF WholeInv
  <2>2. CASE Program[n].await = "all"
    <3>1. Enough BY <1>1, <1>3, <2>2 DEF Awaited, Now
    <3>2. results # <<>> BY <1>2, <1>4, EmptySeq DEF ToolInv, ProgramInv
    <3>3. QED BY <1>2, <1>5, <1>7, <3>1, <3>2, EnoughIsWhole
  <2>3. CASE Program[n].await # "all"
    <3>1. p \in B BY <1>4, <1>5, <2>3, AskedBefore
    <3>2. QED BY <1>6, <2>1, <3>1
  <2>4. QED BY <2>2, <2>3
<1>8. \A q : Whole(q) => Whole(q)' BY <1>1, CaseFixes DEF Whole
<1>9. Asked(Len(results))' = A
  <2>1. UNCHANGED Program BY <1>1, CaseFixes
  <2>2. QED BY <1>1, <1>2, <1>5, <2>1 DEF Asked
<1>10. ~case.countsWriting => \A q \in A : Whole(q)' BY <1>7, <1>8
<1>11. QED BY <1>1, <1>9, <1>10 DEF WholeInv

-------------------------------------------------------------------------------
(* What the fills leave on the GPU. *)

LEMMA FlushStays ==
    ASSUME FlushInv, UNCHANGED <<case, resident, results>>
    PROVE  FlushInv'
<1>1. UNCHANGED Program BY CaseFixes
<1>2. ASSUME NEW p, NEW d, NEW n, Moved(p, d, n) PROVE Moved(p, d, n)'
  BY <1>1, <1>2 DEF Moved, Asked, Flushes, ContextPart, StorePart
<1>3. PICK s, n : s = resident /\ n = Len(results) OBVIOUS
<1>4. \A j \in 1..Len(s) : Moved(s[j][1], Len(s) - j, n) BY <1>3 DEF FlushInv
<1>5. \A j \in 1..Len(s) : Moved(s[j][1], Len(s) - j, n)' BY <1>2, <1>4
<1>6. s = resident' /\ n = Len(results') BY <1>3
<1>7. QED BY <1>5, <1>6 DEF FlushInv

\* The prompt's own chunks, and those that were there before.
LEMMA OwnMoved ==
    ASSUME Matrix, NEW n \in Nat, n + 1 \in 1..Len(Program),
           NEW d \in Nat, d < GpuChunks
    PROVE  Moved(Program[n + 1].prompt, d, n + 1)
<1>1. PICK p : p = Program[n + 1].prompt OBVIOUS
<1>2. PICK L, c, s, f : /\ L = Len(Contexts) /\ c = ContextPart /\ s = StorePart
                        /\ f = case.fills
  OBVIOUS
<1>3. L \in Nat \ {0} /\ f \in Nat /\ c = 2 * L /\ s = c + f BY <1>2, PartsAre
<1>4. p \in Asked(n + 1)
  <2>1. n + 1 \in 1..(n + 1) OBVIOUS
  <2>2. QED BY <1>1, <2>1 DEF Asked
<1>5. /\ n + 1 <= c => p \in 1..L
      /\ c < n + 1 /\ n + 1 <= s => p = (n + 1) - L
      /\ s < n + 1 => p = (n + 1) - s
  BY <1>1, <1>2, MatrixPrompts
<1>6. ASSUME p <= L, NEW m \in 0..f, n + 1 = c + m PROVE d >= m * FillSize
  <2>1. m = 0
    <3>1. SUFFICES ASSUME m > 0 PROVE FALSE BY <1>3
    <3>2. p = (n + 1) - L BY <1>3, <1>5, <1>6, <3>1
    <3>3. QED BY <1>3, <1>6, <3>1, <3>2
  <2>2. 0 * FillSize = 0 BY PartsAre
  <2>3. QED BY <2>1, <2>2
<1>7. ASSUME p <= L, NEW r \in 0..L, Flushes, n + 1 = s + r PROVE p <= r
  <2>1. CASE r = 0
    <3>1. f # 0
      <4>1. SUFFICES ASSUME f = 0 PROVE FALSE OBVIOUS
      <4>2. 0 * FillSize = 0 BY PartsAre
      <4>3. 0 >= GpuChunks BY <1>2, <1>7, <4>1, <4>2 DEF Flushes
      <4>4. QED BY <4>3, PartsAre
    <3>2. p = (n + 1) - L BY <1>3, <1>5, <1>7, <2>1, <3>1
    <3>3. QED BY <1>3, <1>7, <2>1, <3>1, <3>2
  <2>2. CASE r # 0
    <3>1. p = r BY <1>3, <1>5, <1>7, <2>2
    <3>2. QED BY <3>1
  <2>3. QED BY <2>1, <2>2
<1>8. QED BY <1>1, <1>2, <1>4, <1>6, <1>7 DEF Moved

LEMMA OthersMoved ==
    ASSUME Matrix, NEW n \in Nat, n + 1 \in 1..Len(Program),
           NEW p \in Prompts, NEW d \in Nat, Moved(p, d, n),
           NEW e \in Nat, e < GpuChunks,
           Program[n + 1].prompt \notin Asked(n) => e = d + Size(Program[n + 1].prompt)
    PROVE  Moved(p, e, n + 1)
<1>1. PICK q : q = Program[n + 1].prompt OBVIOUS
<1>2. PICK L, c, s, f, z : /\ L = Len(Contexts) /\ c = ContextPart /\ s = StorePart
                           /\ f = case.fills /\ z = FillSize
  OBVIOUS
<1>3. /\ L \in Nat \ {0} /\ f \in Nat /\ c = 2 * L /\ s = c + f /\ z \in Nat
      /\ GpuChunks \in Nat
  BY <1>2, PartsAre
<1>4. p \in Asked(n + 1)
  <2>1. \A i \in 1..n : i \in 1..(n + 1) OBVIOUS
  <2>2. QED BY <2>1 DEF Moved, Asked
<1>5. ASSUME p <= L, NEW m \in 0..f, n + 1 = c + m PROVE e >= m * z
  <2>1. CASE m = 0
    <3>1. 0 * z = 0 BY <1>3
    <3>2. QED BY <2>1, <3>1
  <2>2. CASE m # 0
    <3>1. m - 1 \in 0..f /\ n = c + (m - 1) BY <1>3, <1>5, <2>2
    <3>2. d >= (m - 1) * z BY <1>2, <1>5, <3>1 DEF Moved
    <3>3. c < n + 1 /\ n + 1 <= s BY <1>3, <1>5, <2>2
    <3>4. q = (n + 1) - L /\ Program[n + 1].await = "all" /\ q \in Prompts
      BY <1>1, <1>2, <3>3, MatrixPrompts
    <3>5. q > L BY <1>3, <3>3, <3>4
    <3>6. Size(q) = z BY <1>2, <3>4, <3>5, FillSizes
    <3>7. q \notin Asked(n)
      <4>1. (n + 1) - 1 = n OBVIOUS
      <4>2. QED BY <1>1, <3>4, <4>1, AskedBefore
    <3>8. e = d + z BY <1>1, <3>6, <3>7
    <3>9. m * z = (m - 1) * z + z /\ (m - 1) * z \in Nat BY <1>3, <3>1
    <3>10. QED BY <1>3, <3>2, <3>8, <3>9
  <2>3. QED BY <2>1, <2>2
<1>6. ASSUME p <= L, NEW r \in 0..L, Flushes, n + 1 = s + r PROVE p <= r
  <2>1. CASE r = 0
    <3>1. f \in 0..f /\ n + 1 = c + f BY <1>3, <1>6, <2>1
    <3>2. e >= f * z BY <1>5, <1>6, <3>1
    <3>3. f * z >= GpuChunks /\ f * z \in Nat
      <4>1. case.fills * FillSize >= GpuChunks BY <1>6 DEF Flushes
      <4>2. f * z = case.fills * FillSize BY <1>2
      <4>3. QED BY <4>1, <4>2, PartsAre
    <3>4. QED BY <1>3, <3>2, <3>3
  <2>2. CASE r # 0
    <3>1. r - 1 \in 0..L /\ n = s + (r - 1) BY <1>3, <1>6, <2>2
    <3>2. p <= r - 1 BY <1>2, <1>6, <3>1 DEF Moved
    <3>3. p \in Nat BY DEF Prompts
    <3>4. QED BY <1>6, <3>2, <3>3
  <2>3. QED BY <2>1, <2>2
<1>7. QED BY <1>2, <1>4, <1>5, <1>6 DEF Moved

LEMMA CompleteFlush ==
    ASSUME Matrix, ToolInv, TypesInv, FlushInv, Complete
    PROVE  FlushInv'
<1>1. PICK n \in Nat :
        /\ n = Len(results) /\ n + 1 \in 1..Len(Program)
        /\ n + 1 = Len(results') /\ Now = Program[n + 1]
  BY CompletesAt
<1>2. PICK q : q = Program[n + 1].prompt /\ q \in Prompts BY <1>1, MatrixPrompts
<1>3. UNCHANGED case /\ resident' = Keep(q) BY <1>1, <1>2 DEF Complete
<1>4. PICK kept : kept = Keep(q) OBVIOUS
<1>5. PICK s, m : s = resident /\ m = Len(s) OBVIOUS
<1>6. m \in Nat /\ \A i \in 1..m : s[i] \in Blocks
  BY <1>5, LenProperties, ElementOfSeq DEF TypesInv, ResidentInv
<1>7. /\ kept \in Seq(Blocks) /\ Len(kept) <= GpuChunks /\ Len(kept) \in Nat
      /\ \A j \in 1..Len(kept) :
           \/ kept[j][1] = q
           \/ \E i \in 1..m :
                /\ kept[j] = s[i]
                /\ (\A k \in 1..m : s[k][1] # q) => Len(kept) - j = m - i + Size(q)
  <2>1. ResidentInv BY DEF TypesInv
  <2>2. q \in Prompts BY <1>2
  <2>3. /\ kept \in Seq(Blocks) /\ Len(kept) <= GpuChunks
        /\ \A j \in 1..Len(kept) :
             \/ kept[j][1] = q /\ kept[j][2] \in 1..Size(q)
             \/ /\ kept[j][1] # q
                /\ \E i \in 1..Len(resident) :
                     /\ kept[j] = resident[i]
                     /\ (\A k \in 1..Len(resident) : resident[k][1] # q) =>
                          Len(kept) - j = Len(resident) - i + Size(q)
    BY <1>4, <2>1, <2>2, KeepIs, SMTT(60)
  <2>4. Len(kept) \in Nat BY <2>3, LenProperties
  <2>5. QED BY <1>5, <2>3, <2>4
<1>8. \A i \in 1..m : Moved(s[i][1], m - i, n) BY <1>1, <1>5 DEF FlushInv
<1>9. ASSUME NEW j \in 1..Len(kept) PROVE Moved(kept[j][1], Len(kept) - j, n + 1)
  <2>1. PICK e : e = Len(kept) - j /\ e \in Nat /\ e < GpuChunks BY <1>7, PartsAre
  <2>2. CASE kept[j][1] = q BY <1>1, <1>2, <2>1, <2>2, OwnMoved
  <2>3. ASSUME NEW i \in 1..m, kept[j] = s[i],
               (\A k \in 1..m : s[k][1] # q) => e = m - i + Size(q)
        PROVE  Moved(kept[j][1], e, n + 1)
    <3>1. PICK p : p = s[i][1] /\ p \in Prompts BY <1>6 DEF Blocks
    <3>2. PICK d : d = m - i /\ d \in Nat BY <1>6
    <3>3. Moved(p, d, n) BY <1>8, <3>1, <3>2
    <3>4. q \notin Asked(n) => e = d + Size(q)
      <4>1. SUFFICES ASSUME q \notin Asked(n) PROVE e = d + Size(q) OBVIOUS
      <4>2. \A k \in 1..m : s[k][1] # q BY <1>8, <4>1 DEF Moved
      <4>3. QED BY <2>3, <3>2, <4>2
    <3>5. Moved(p, e, n + 1) BY <1>1, <1>2, <2>1, <3>1, <3>2, <3>3, <3>4, OthersMoved
    <3>6. QED BY <2>3, <3>1, <3>5
  <2>4. QED BY <1>7, <2>1, <2>2, <2>3
<1>10. ASSUME NEW p, NEW d, NEW x, Moved(p, d, x) PROVE Moved(p, d, x)'
  <2>1. UNCHANGED Program BY <1>3, CaseFixes
  <2>2. QED BY <1>3, <1>10, <2>1 DEF Moved, Asked, Flushes, ContextPart, StorePart
<1>11. \A j \in 1..Len(kept) : Moved(kept[j][1], Len(kept) - j, n + 1)' BY <1>9, <1>10
<1>12. kept = resident' /\ n + 1 = Len(results') BY <1>1, <1>3, <1>4
<1>13. QED BY <1>11, <1>12 DEF FlushInv

-------------------------------------------------------------------------------
(* What the replays find. *)

LEMMA NothingLocal ==
    ASSUME ResidentInv, NEW p \in Prompts,
           \A j \in 1..Len(resident) : resident[j][1] # p
    PROVE  LocalPrefix(p) = 0
<1> DEFINE prefixes == {n \in 0..Size(p) : \A i \in 1..n : Contains(resident, <<p, i>>)}
<1>1. prefixes \subseteq 0..Size(p) /\ 0 \in prefixes BY Sizes
<1>2. LocalPrefix(p) = Max(prefixes) BY DEF LocalPrefix
<1>3. Max(prefixes) \in prefixes
  <2> HIDE DEF prefixes
  <2>1. QED BY <1>1, Sizes, MaxOfBounded
<1>4. PICK n : /\ n = LocalPrefix(p) /\ n \in 0..Size(p)
               /\ \A i \in 1..n : Contains(resident, <<p, i>>)
  BY <1>2, <1>3
<1>5. ASSUME n # 0 PROVE FALSE
  <2>1. 1 \in 1..n BY <1>4, <1>5, Sizes
  <2>2. PICK j \in 1..Len(resident) : resident[j] = <<p, 1>>
    BY <1>4, <2>1 DEF Contains
  <2>3. QED BY <2>2
<1>6. QED BY <1>4, <1>5

LEMMA FoundWhole ==
    ASSUME CaseOK, StoreInv, NEW p \in Prompts, Whole(p)
    PROVE  Found(p) = Size(p)
<1> DEFINE chunks == {written[<<p, k>>] : k \in KeyRanks}
<1>1. chunks = {Size(p)} BY RanksAndKeys DEF Whole
<1>2. Found(p) = Min(chunks) BY DEF Found
<1> HIDE DEF chunks
<1>3. Min(chunks) \in chunks BY <1>1, Sizes, MinOfNaturals
<1>4. QED BY <1>1, <1>2, <1>3

\* A key that some rank stores under has a rank's own shard.
LEMMA OwnIfStored ==
    ASSUME CaseOK, NEW r \in RankIds, StoredKeys = KeyRanks
    PROVE  Own(r)
<1>1. \A w \in RankIds : Shard(w) = KvRank(w) BY RanksAndKeys DEF Shard
<1>2. PICK k : k = KvRank(r) /\ k \in KeyRanks BY RanksAndKeys
<1>3. Writers(k) # {} BY <1>2 DEF StoredKeys
<1>4. \A w \in Writers(k) : Shard(w) = k BY <1>1 DEF Writers
<1>5. {Shard(w) : w \in Writers(k)} = {k} BY <1>3, <1>4
<1>6. QED BY <1>1, <1>2, <1>5 DEF Own

LEMMA ReplayFinds ==
    ASSUME Matrix, ToolInv, TypesInv, WholeInv, FlushInv, Sure,
           doing = "asking", Now.kind = "external"
    PROVE  LocalPrefix(Now.prompt) = 0 /\ Found(Now.prompt) = Size(Now.prompt)
<1>1. PICK n : n = Len(results) OBVIOUS
<1>2. n = at - 1 /\ at \in 1..Len(Program) /\ n \in Nat
  <2>1. at \in Nat BY ProgramIs DEF ToolInv, ProgramInv, Matrix
  <2>2. QED BY <1>1, <2>1 DEF ToolInv, ProgramInv
<1>3. PICK L, c, s : L = Len(Contexts) /\ c = ContextPart /\ s = StorePart OBVIOUS
<1>4. L \in Nat /\ c \in Nat /\ s \in Nat BY <1>3, PartsAre
<1>5. PICK p : p = Now.prompt /\ p = Program[at].prompt BY DEF Now
<1>6. Program[at].kind = "external" BY DEF Now
<1>7. at > s
  <2>1. CASE at <= c BY <1>2, <1>3, <1>6, <2>1, MatrixPrompts
  <2>2. CASE c < at /\ at <= s BY <1>2, <1>3, <1>6, <2>2, MatrixPrompts
  <2>3. at \in Int BY <1>2
  <2>4. QED BY <1>4, <2>1, <2>2, <2>3
<1>8. p = at - s /\ p \in 1..L /\ p \in Prompts /\ Program[at].await = "nothing"
  BY <1>2, <1>3, <1>5, <1>7, MatrixPrompts
<1>9. p \in Asked(n) BY <1>2, <1>5, <1>8, AskedBefore
<1>10. Whole(p) BY <1>1, <1>9 DEF WholeInv, Sure
<1>11. p - 1 \in 0..L /\ n = s + (p - 1) BY <1>2, <1>4, <1>8
<1>12. ASSUME NEW j \in 1..Len(resident) PROVE resident[j][1] # p
  <2>1. Moved(resident[j][1], Len(resident) - j, n) BY <1>1 DEF FlushInv
  <2>2. SUFFICES ASSUME resident[j][1] = p PROVE FALSE OBVIOUS
  <2>3. p <= p - 1 BY <1>3, <1>8, <1>11, <2>1, <2>2 DEF Moved, Sure
  <2>4. QED BY <1>8, <2>3
<1>13. ResidentInv BY DEF TypesInv
<1>14. QED BY <1>5, <1>8, <1>10, <1>12, <1>13, NothingLocal, FoundWhole DEF Matrix, ToolInv

\* What is loaded was submitted under every key.
LEMMA FoundIsStored ==
    ASSUME Matrix, ToolInv, TypesInv, SentInv, NEW p \in Prompts, Found(p) > 0
    PROVE  StoredKeys = KeyRanks
<1>1. PICK n : n = Found(p) /\ n \in Nat /\ Readable(p, n)
  BY FoundIsReadable DEF Matrix, ToolInv
<1>2. ASSUME NEW k \in KeyRanks PROVE k \in StoredKeys
  <2>1. PICK s : s = <<p, k>> /\ s \in AllStores BY StoresAre DEF Matrix
  <2>2. n <= written[s] /\ written[s] \in Nat
    BY <1>1, <2>1 DEF Readable, ToolInv, StoreInv
  <2>3. written[s] > 0 BY <1>1, <2>2
  <2>4. s \in sent BY <2>1, <2>3 DEF TypesInv, ToolInv, StoreInv
  <2>5. PICK A : sent = A \X StoredKeys BY DEF SentInv
  <2>6. QED BY <2>1, <2>4, <2>5
<1>3. QED BY <1>2 DEF StoredKeys

LEMMA LookupRight ==
    ASSUME Matrix, ToolInv, TypesInv, SentInv, WholeInv, FlushInv, RightInv, Lookup
    PROVE  RightInv'
<1>1. doing = "asking" /\ UNCHANGED <<case, at, results, verdict, preempted>>
  BY DEF Lookup
<1>2. /\ UNCHANGED <<Now, StoredKeys, KeyRanks>> /\ (Sure' <=> Sure)
      /\ ReplayPreempted' <=> ReplayPreempted
  BY <1>1, MatrixFixes, CaseFixes DEF Now, ReplayPreempted
<1>3. PICK p, l, f : p = Now.prompt /\ l = LocalPrefix(p) /\ f = Found(p) OBVIOUS
<1>4. p \in Prompts BY <1>1, <1>3, NowIs DEF Matrix, ToolInv
<1>5. l \in Nat /\ f \in Nat
  BY <1>3, <1>4, LocalPrefixType, FoundIsReadable DEF Matrix, ToolInv
<1>6. doing' = "loading" => StoredKeys = KeyRanks
  <2>1. SUFFICES ASSUME f > l PROVE StoredKeys = KeyRanks
    BY <1>3, <1>5 DEF Lookup
  <2>2. Found(p) > 0 BY <1>3, <1>5, <2>1
  <2>3. QED BY <1>4, <2>2, FoundIsStored
<1>7. /\ right'
      /\ Sure /\ Now.kind = "external" => Restored(p, hit'.local, hit'.external)
  <2>1. preempted \in BOOLEAN /\ right \in BOOLEAN BY DEF ToolInv, HitInv
  <2>2. ASSUME preempted
        PROVE  /\ right'
               /\ Sure /\ Now.kind = "external" => Restored(p, hit'.local, hit'.external)
    <3>1. UNCHANGED hit /\ right' = right BY <2>1, <2>2 DEF Lookup
    <3>2. /\ right
          /\ Sure /\ Now.kind = "external" => Restored(p, hit.local, hit.external)
      BY <1>3, <2>2 DEF RightInv, Told
    <3>3. QED BY <3>1, <3>2
  <2>3. ASSUME ~preempted
        PROVE  /\ right'
               /\ Sure /\ Now.kind = "external" => Restored(p, hit'.local, hit'.external)
    <3>1. hit'.local = l /\ hit'.external = IF f > l THEN f - l ELSE 0
      BY <1>3, <1>5, <2>3 DEF Lookup
    <3>2. right' BY <2>3 DEF Lookup
    <3>3. ASSUME Sure, Now.kind = "external"
          PROVE  Restored(p, hit'.local, hit'.external)
      <4>1. l = 0 /\ f = Size(p) BY <1>1, <1>3, <3>3, ReplayFinds
      <4>2. hit'.external = f BY <1>5, <3>1, <4>1
      <4>3. QED BY <3>1, <4>1, <4>2 DEF Restored
    <3>4. QED BY <3>2, <3>3
  <2>4. QED BY <2>1, <2>2, <2>3
<1>8. QED BY <1>1, <1>2, <1>3, <1>6, <1>7 DEF RightInv, Restored

\* Nor does a preemption take anything back.
LEMMA PreemptRight ==
    ASSUME Matrix, RightInv, Preempt
    PROVE  RightInv'
<1>1. /\ doing = "computing" /\ doing' \in {"asking", "computing"}
      /\ UNCHANGED <<case, at, results, verdict, right, hit>>
  BY DEF Preempt
<1>2. /\ UNCHANGED <<Now, StoredKeys, KeyRanks>> /\ (Sure' <=> Sure)
      /\ ReplayPreempted' <=> ReplayPreempted
  BY <1>1, MatrixFixes, CaseFixes DEF Now, ReplayPreempted
<1>3. /\ right
      /\ Sure /\ Now.kind = "external" => Restored(Now.prompt, hit.local, hit.external)
  BY <1>1 DEF RightInv, Told
<1>4. QED BY <1>1, <1>2, <1>3 DEF RightInv, Restored

LEMMA LoadRight ==
    ASSUME Matrix, RightInv, NEW r \in RankIds, LoadChunks(r)
    PROVE  RightInv'
<1>1. /\ doing = "loading" /\ UNCHANGED <<case, at, results, verdict, hit>>
      /\ right' = (right /\ Own(r))
  BY DEF LoadChunks, Own
<1>2. /\ UNCHANGED <<Now, StoredKeys, KeyRanks>> /\ (Sure' <=> Sure)
      /\ ReplayPreempted' <=> ReplayPreempted
  BY <1>1, MatrixFixes, CaseFixes DEF Now, ReplayPreempted
<1>3. /\ StoredKeys = KeyRanks /\ right
      /\ Sure /\ Now.kind = "external" => Restored(Now.prompt, hit.local, hit.external)
  BY <1>1 DEF RightInv, Told
<1>4. Own(r) BY <1>3, OwnIfStored DEF Matrix
<1>5. right' BY <1>1, <1>3, <1>4
<1>6. QED BY <1>1, <1>2, <1>3, <1>5 DEF RightInv, Restored

LEMMA CompleteRight ==
    ASSUME Matrix, ToolInv, RightInv, Complete
    PROVE  RightInv'
<1>1. /\ doing = "computing" /\ doing' = "waiting" /\ preempted' = FALSE
      /\ UNCHANGED <<case, verdict>>
      /\ results' = Append(results, Outcome)
  BY DEF Complete
<1>2. Sure' <=> Sure BY <1>1, MatrixFixes
<1>3. results \in Seq(Outcomes) /\ Len(results) \in Nat
  BY LenProperties DEF ToolInv, ProgramInv
<1>4. Outcome \in Outcomes
  <2>1. Now \in Requests BY <1>1, NowIs DEF Matrix, ToolInv
  <2>2. /\ hit.local \in Nat /\ hit.external \in Nat /\ right \in BOOLEAN
        /\ preempted \in BOOLEAN
    BY DEF ToolInv, HitInv
  <2>3. (Now.kind = "external" /\ preempted) \in BOOLEAN BY <2>2
  <2>4. QED BY <2>1, <2>2, <2>3 DEF Outcome, Outcomes, Requests
<1>5. PICK o : o = Outcome OBVIOUS
<1>6. /\ Len(results') = Len(results) + 1
      /\ \A i \in 1..Len(results) : results'[i] = results[i]
      /\ results'[Len(results) + 1] = o
  BY <1>1, <1>3, <1>4, <1>5, AppendProperties
<1>7. /\ o.right = right /\ o.kind = Now.kind /\ o.prompt = Now.prompt
      /\ o.local = hit.local /\ o.external = hit.external
  BY <1>5 DEF Outcome
<1>8. /\ right
      /\ Sure /\ Now.kind = "external" => Restored(Now.prompt, hit.local, hit.external)
  BY <1>1 DEF RightInv, Told
<1>9. ASSUME NEW i \in 1..Len(results')
      PROVE  /\ results'[i].right
             /\ Sure /\ results'[i].kind = "external" =>
                  Restored(results'[i].prompt, results'[i].local, results'[i].external)
  <2>1. CASE i \in 1..Len(results)
    <3>1. results'[i] = results[i] BY <1>6, <2>1
    <3>2. /\ results[i].right
          /\ Sure /\ results[i].kind = "external" =>
               Restored(results[i].prompt, results[i].local, results[i].external)
      BY <2>1 DEF RightInv
    <3>3. QED BY <3>1, <3>2
  <2>2. CASE i = Len(results) + 1
    <3>1. results'[i] = o BY <1>6, <2>2
    <3>2. QED BY <1>7, <1>8, <3>1
  <2>3. i \in 1..Len(results) \/ i = Len(results) + 1 BY <1>3, <1>6
  <2>4. QED BY <2>1, <2>2, <2>3
<1>10. verdict' # "fail" BY <1>1 DEF ToolInv, VerdictInv
<1>11. QED BY <1>1, <1>2, <1>9, <1>10 DEF RightInv, Restored, Told

\* Steps that add no result and leave what was found alone.
LEMMA RightStays ==
    ASSUME RightInv, UNCHANGED <<case, results>>,
           \/ UNCHANGED <<doing, at, right, hit, preempted>>
           \/ doing' \notin {"loading", "computing"} /\ ~preempted',
           verdict' = verdict \/ verdict' # "fail"
    PROVE  RightInv'
<1>1. /\ UNCHANGED <<StoredKeys, KeyRanks>> /\ (Sure' <=> Sure)
      /\ ReplayPreempted' <=> ReplayPreempted
  BY MatrixFixes, CaseFixes DEF ReplayPreempted
<1>2. CASE doing' \notin {"loading", "computing"} /\ ~preempted'
  BY <1>1, <1>2 DEF RightInv, Restored, Told
<1>3. CASE UNCHANGED <<doing, at, right, hit, preempted>>
  <2>1. UNCHANGED Now BY <1>3, CaseFixes DEF Now
  <2>2. QED BY <1>1, <1>3, <2>1 DEF RightInv, Restored, Told
<1>4. QED BY <1>2, <1>3

\* A matrix whose replays are all restored, and none preempted, holds.
LEMMA JudgeRight ==
    ASSUME Matrix, ToolInv, RightInv, Judge
    PROVE  RightInv'
<1>1. /\ doing = "judging" /\ doing' = "done" /\ UNCHANGED <<case, results>>
      /\ verdict' = IF Holds THEN "pass" ELSE "fail"
  BY DEF Judge, Report
<1>2. (Sure' <=> Sure) /\ (ReplayPreempted' <=> ReplayPreempted)
  BY <1>1, MatrixFixes DEF ReplayPreempted
<1>3. results \in Seq(Outcomes) /\ DOMAIN results = 1..Len(results)
      /\ Len(results) = Len(Program)
  BY <1>1, LenProperties DEF ToolInv, ProgramInv
<1>4. \A i \in DOMAIN results : results[i].right BY <1>3 DEF RightInv
<1>5. ASSUME Sure, NEW i \in Of("external") PROVE RestoredFully(i)
  <2>1. i \in 1..Len(Program) /\ i \in 1..Len(results) /\ results[i].kind = "external"
    BY <1>3 DEF Of
  <2>2. PICK p : p = results[i].prompt OBVIOUS
  <2>3. Program[i].kind = "external" /\ Program[i].prompt = p
    BY <2>1, <2>2 DEF ToolInv, ProgramInv
  <2>4. p \in 1..Len(Contexts)
    <3>1. PICK c, s : c = ContextPart /\ s = StorePart OBVIOUS
    <3>2. c \in Nat /\ s \in Nat /\ i \in Nat BY <2>1, <3>1, PartsAre, MatrixPrompts
    <3>3. CASE i <= c BY <2>1, <2>3, <3>1, <3>3, MatrixPrompts
    <3>4. CASE c < i /\ i <= s BY <2>1, <2>3, <3>1, <3>4, MatrixPrompts
    <3>5. CASE s < i BY <2>1, <2>3, <3>1, <3>5, MatrixPrompts
    <3>6. QED BY <3>2, <3>3, <3>4, <3>5
  <2>5. results[i].local = 0 /\ results[i].external = Size(p)
    BY <1>5, <2>1, <2>2 DEF RightInv, Restored
  <2>6. Tokens(p) = Size(p) * ChunkTokens BY <2>4, ContextSizes
  <2>7. QED BY <2>2, <2>5, <2>6 DEF RestoredFully
<1>6. Sure /\ ~ReplayPreempted => Holds
  <2>1. SUFFICES ASSUME Sure, ~ReplayPreempted PROVE MatrixHolds BY DEF Holds, Matrix
  <2>2. OutputsMatch BY <1>4 DEF OutputsMatch
  <2>3. \A i \in Of("external") : ~results[i].preempted
    BY <1>3, <2>1 DEF ReplayPreempted, Of
  <2>4. QED BY <1>5, <2>1, <2>2, <2>3 DEF MatrixHolds
<1>7. verdict' = "fail" => ~Sure \/ ReplayPreempted BY <1>1, <1>6
<1>8. ~preempted' BY <1>1 DEF ToolInv, HitInv, Judge, cacheVars
<1>9. QED BY <1>1, <1>2, <1>7, <1>8 DEF RightInv, Restored, Told

-------------------------------------------------------------------------------
(* All steps. *)

\* Nothing has been asked of the server before the tool begins.
FreshInv == doing = "start" => sent = {} /\ expected = 0 /\ resident = <<>>

LEMMA FreshNext ==
    ASSUME FreshInv, [DeployNext]_deployVars
    PROVE  FreshInv'
<1>1. CASE ToolRuns
  <2>1. \/ doing' # "start"
        \/ UNCHANGED <<doing, sent, expected, resident>>
    BY <1>1 DEF ToolRuns, ReuseStep, Lookup, Preempt, Complete, GoOn, GiveUp, Judge,
                LoadChunks, TakeStore, WriteChunk, Report, toolVars
  <2>2. QED BY <2>1 DEF FreshInv
<1>2. CASE ToolBegins
  <2>1. doing' # "start" BY <1>2 DEF ToolBegins, Begun, Report
  <2>2. QED BY <2>1 DEF FreshInv
<1>3. CASE ~ToolRuns /\ ~ToolBegins
  <2>1. UNCHANGED <<doing, expected, cacheVars>>
    BY <1>3 DEF DeployNext, deployVars, BuildStep, ShellRuns, DaemonRuns,
                SignalSent, WeightsRead, LoadFails, reuseVars, toolVars
  <2>2. QED BY <2>1 DEF FreshInv, cacheVars
<1>4. QED BY <1>1, <1>2, <1>3

LEMMA FreshInvariant == DeploySpec => []FreshInv
<1>1. DeployInit => FreshInv BY DEF DeployInit, ReuseInit, FreshInv
<1>2. QED BY <1>1, FreshNext, PTL DEF DeploySpec

LEMMA MatrixStart ==
    ASSUME CaseInv, ToolInv, FreshInv, doing = "start"
    PROVE  MatrixInv
<1> SUFFICES ASSUME case.tool = "matrix" PROVE SentInv /\ WholeInv /\ FlushInv /\ RightInv
  BY DEF MatrixInv
<1>1. results = <<>> /\ Len(results) = 0 /\ verdict = "none"
  BY EmptySeq DEF ToolInv, ProgramInv, VerdictInv
<1>2. sent = {} /\ expected = 0 /\ Len(resident) = 0 BY EmptySeq DEF FreshInv
<1>3. Asked(Len(results)) = {} BY <1>1, AskedNone
<1>4. SentInv BY <1>1, <1>2, <1>3, NoSizes DEF SentInv
<1>5. WholeInv BY DEF WholeInv
<1>6. FlushInv BY <1>2 DEF FlushInv
<1>7. ~Told BY DEF Told, ToolInv, HitInv
<1>8. RightInv BY <1>1, <1>7 DEF RightInv
<1>9. QED BY <1>4, <1>5, <1>6, <1>8

\* The tool begins.
LEMMA BegunMatrix ==
    ASSUME Matrix, ToolInv, SentInv, WholeInv, FlushInv, RightInv,
           Begun(daemon = "running")
    PROVE  SentInv' /\ WholeInv' /\ FlushInv' /\ RightInv'
<1>1. /\ doing = "start" /\ UNCHANGED <<case, at, expected, results, resident, sent>>
      /\ doing' \in {"asking", "done"} /\ verdict' \in {verdict, "error"}
  BY DEF Begun, Report, cacheVars
<1>2. results' = <<>> /\ Len(results') = 0
  BY <1>1, EmptySeq DEF ToolInv, ProgramInv
<1>3. Asked(Len(results))' = {}
  <2>1. UNCHANGED Program BY <1>1, CaseFixes
  <2>2. QED BY <1>2, <2>1 DEF Asked
<1>4. WholeInv' BY <1>1, <1>3 DEF WholeInv
<1>5. SentInv' BY <1>1, SentStays
<1>6. FlushInv' BY <1>1, FlushStays
<1>7. ~preempted' BY <1>1 DEF Begun, cacheVars, ToolInv, HitInv
<1>8. RightInv' BY <1>1, <1>7, RightStays
<1>9. QED BY <1>4, <1>5, <1>6, <1>8

\* The tool goes on, gives up, or judges.
LEMMA TalkMatrix ==
    ASSUME Matrix, ToolInv, ToolInv', TypesInv, SentInv, WholeInv, FlushInv, RightInv,
           GoOn \/ GiveUp \/ Judge
    PROVE  SentInv' /\ WholeInv' /\ FlushInv' /\ RightInv'
<1>1. UNCHANGED <<case, sent, taken, written, expected, results, resident>>
  BY DEF GoOn, GiveUp, Judge, cacheVars
<1>2. StoreInv' /\ Grows BY <1>1, StoreInvNext DEF Matrix, ToolInv
<1>3. SentInv' BY <1>1, SentStays
<1>4. FlushInv' BY <1>1, FlushStays
<1>9. ~preempted' BY DEF GoOn, GiveUp, Judge, cacheVars, ToolInv, HitInv
<1>5. CASE GoOn
  <2>1. doing' \in {"asking", "judging"} /\ UNCHANGED verdict BY <1>5 DEF GoOn
  <2>2. RightInv' BY <1>1, <1>9, <2>1, RightStays
  <2>3. WholeInv' BY <1>5, GoOnWhole
  <2>4. QED BY <1>3, <1>4, <2>2, <2>3
<1>6. CASE GiveUp
  <2>1. doing' = "done" /\ verdict' = "error" BY <1>6 DEF GiveUp, Report
  <2>2. RightInv' BY <1>1, <1>9, <2>1, RightStays
  <2>3. WholeInv' BY <1>1, <1>2, <2>1, WholeInvStays
  <2>4. QED BY <1>3, <1>4, <2>2, <2>3
<1>7. CASE Judge
  <2>1. doing' = "done" BY <1>7 DEF Judge, Report
  <2>2. RightInv' BY <1>7, JudgeRight
  <2>3. WholeInv' BY <1>1, <1>2, <2>1, WholeInvStays
  <2>4. QED BY <1>3, <1>4, <2>2, <2>3
<1>8. QED BY <1>5, <1>6, <1>7

\* A completion, its preemption, and what the cache server does meanwhile.
LEMMA ServeMatrix ==
    ASSUME Matrix, ToolInv, ToolInv', TypesInv, SentInv, WholeInv, FlushInv, RightInv,
           \/ Lookup \/ Preempt \/ Complete
           \/ \E r \in RankIds : LoadChunks(r)
           \/ \E s \in sent : TakeStore(s) \/ WriteChunk(s)
    PROVE  SentInv' /\ WholeInv' /\ FlushInv' /\ RightInv'
<1>1. CASE Complete
  BY <1>1, CompleteSends, CompleteWhole, CompleteFlush, CompleteRight
<1>2. ASSUME ~Complete PROVE SentInv' /\ WholeInv' /\ FlushInv' /\ RightInv'
  <2>1. UNCHANGED <<case, sent, expected, results, resident>>
    BY <1>2 DEF Lookup, Preempt, LoadChunks, TakeStore, WriteChunk, toolVars
  <2>2. SentInv' BY <2>1, SentStays
  <2>3. FlushInv' BY <2>1, FlushStays
  <2>4. \/ UNCHANGED <<sent, taken, written>>
        \/ \E s \in sent : TakeStore(s) \/ WriteChunk(s)
    BY <1>2 DEF Lookup, Preempt, LoadChunks
  <2>5. StoreInv' /\ Grows BY <2>1, <2>4, StoreInvNext DEF Matrix, ToolInv
  <2>6. \/ doing' = doing
        \/ doing \in {"asking", "loading", "computing"}
           /\ doing' \in {"asking", "loading", "computing"}
    BY <1>2 DEF Lookup, Preempt, LoadChunks, TakeStore, WriteChunk, toolVars
  <2>7. WholeInv' BY <2>1, <2>5, <2>6, WholeInvStays
  <2>8. CASE Lookup BY <2>2, <2>3, <2>7, <2>8, LookupRight
  <2>9. ASSUME NEW r \in RankIds, LoadChunks(r) PROVE RightInv' BY <2>9, LoadRight
  <2>10. ASSUME NEW s \in sent, TakeStore(s) \/ WriteChunk(s) PROVE RightInv'
    <3>1. UNCHANGED <<case, results, doing, at, right, hit, preempted, verdict>>
      BY <2>10 DEF TakeStore, WriteChunk, toolVars
    <3>2. QED BY <3>1, RightStays
  <2>11. CASE Preempt BY <2>2, <2>3, <2>7, <2>11, PreemptRight
  <2>12. QED BY <1>2, <2>2, <2>3, <2>7, <2>8, <2>9, <2>10, <2>11
<1>3. QED BY <1>1, <1>2

LEMMA MatrixNext ==
    ASSUME StartInv, CaseInv, ToolInv, ToolInv', TypesInv, MatrixInv,
           [DeployNext]_deployVars, doing' # "start"
    PROVE  MatrixInv'
<1>1. UNCHANGED case
  <2>1. ASSUME case' # case PROVE FALSE
    <3>1. doing = "start" /\ doing' = doing BY <2>1, CaseKeeps
    <3>2. QED BY <3>1
  <2>2. QED BY <2>1
<1> SUFFICES ASSUME case.tool = "matrix" PROVE SentInv' /\ WholeInv' /\ FlushInv' /\ RightInv'
  BY <1>1 DEF MatrixInv
<1>2. Matrix /\ SentInv /\ WholeInv /\ FlushInv /\ RightInv
  BY DEF Matrix, CaseInv, MatrixInv
<1>3. CASE ToolRuns
  BY <1>2, <1>3, TalkMatrix, ServeMatrix DEF ToolRuns, ReuseStep
<1>4. CASE ToolBegins BY <1>2, <1>4, BegunMatrix DEF ToolBegins
<1>5. CASE ~ToolRuns /\ ~ToolBegins
  <2>1. UNCHANGED <<at, doing, expected, results, verdict, cacheVars>>
    BY <1>5 DEF DeployNext, deployVars, BuildStep, ShellRuns, DaemonRuns,
                SignalSent, WeightsRead, LoadFails, reuseVars, toolVars
  <2>2. UNCHANGED <<sent, taken, written, resident, right, hit, preempted>>
    BY <2>1 DEF cacheVars
  <2>3. StoreInv' /\ Grows
    BY <1>1, <1>2, <2>2, StoreInvNext DEF Matrix, ToolInv
  <2>4. SentInv' BY <1>1, <1>2, <2>1, <2>2, SentStays
  <2>5. WholeInv' BY <1>1, <1>2, <2>1, <2>3, WholeInvStays
  <2>6. FlushInv' BY <1>1, <1>2, <2>1, <2>2, FlushStays
  <2>7. RightInv' BY <1>1, <1>2, <2>1, <2>2, RightStays
  <2>8. QED BY <2>4, <2>5, <2>6, <2>7
<1>6. QED BY <1>3, <1>4, <1>5

LEMMA MatrixInvariant == DeploySpec => []MatrixInv
<1> DEFINE Fresh == CaseInv /\ ToolInv /\ FreshInv
           Starting == doing = "start"
<1>1. Fresh /\ Starting => MatrixInv BY MatrixStart
<1>2. StartInv /\ CaseInv /\ ToolInv /\ ToolInv' /\ TypesInv /\ MatrixInv
        /\ [DeployNext]_deployVars /\ ~Starting' => MatrixInv'
  BY MatrixNext
<1>3. DeployInit => Starting BY DEF DeployInit, ReuseInit
<1> HIDE DEF Starting
<1>4. QED
  BY <1>1, <1>2, <1>3, StartInvariant, CaseInvariant, ToolInvariant, TypesInvariant,
     FreshInvariant, PTL DEF DeploySpec

\* For any contexts, fills and deployment: of a server whose count has finished
\* objects only, once its fills are as long as the prefix cache, the matrix reports
\* no failure but that a replay was preempted, whichever requests are preempted, and
\* looked up and loaded again; and with the store patch and fills of whole chunks its waits can end.
THEOREM MatrixIsFair == DeploySpec => []MatrixPasses
<1>1. CaseInv /\ ToolInv /\ MatrixInv => MatrixPasses
  <2> SUFFICES ASSUME CaseInv, ToolInv, MatrixInv, case.tool = "matrix"
               PROVE  /\ verdict = "fail" =>
                           \/ case.countsWriting \/ case.fills * FillSize < GpuChunks
                           \/ \E i \in Of("external") : results[i].preempted
                      /\ doing = "waiting" /\ case.mlaStore /\ EvictTokens % ChunkTokens = 0 =>
                           expected <= SizeSum(sent)
    BY DEF MatrixPasses, SizeSum, FillSize
  <2>1. Matrix /\ SentInv /\ RightInv BY DEF Matrix, CaseInv, MatrixInv
  <2>2. ASSUME verdict = "fail"
        PROVE  \/ case.countsWriting \/ case.fills * FillSize < GpuChunks
               \/ \E i \in Of("external") : results[i].preempted
    <3>1. case.countsWriting \/ ~Flushes \/ ReplayPreempted
      BY <2>1, <2>2 DEF RightInv, Sure
    <3>2. case.fills * FillSize \in Nat /\ GpuChunks \in Nat BY <2>1, PartsAre
    <3>3. DOMAIN results = 1..Len(results)
      BY LenProperties DEF ToolInv, ProgramInv
    <3>4. ReplayPreempted => \E i \in Of("external") : results[i].preempted
      BY <3>3 DEF ReplayPreempted, Of
    <3>5. QED BY <3>1, <3>2, <3>4 DEF Flushes
  <2>3. ASSUME case.mlaStore, EvictTokens % ChunkTokens = 0
        PROVE  expected <= SizeSum(sent)
    <3>1. StoredKeys = KeyRanks BY <2>1, <2>3, StoredKeysAre DEF Matrix
    <3>2. expected = SizeSum(sent) BY <2>1, <2>3, <3>1 DEF SentInv
    <3>3. SizeSum(sent) \in Nat
      <4>1. sent \in SUBSET AllStores BY DEF ToolInv, StoreInv
      <4>2. PICK g : IsFold(g, SizeOf, AllStores) BY StoreSizes, FoldExists
      <4>3. g[sent] \in Nat BY <4>1, <4>2 DEF IsFold
      <4>4. QED BY <4>1, <4>2, <4>3, SizeSumIs
    <3>4. QED BY <3>2, <3>3
  <2>4. QED BY <2>2, <2>3
<1>2. QED BY <1>1, CaseInvariant, ToolInvariant, MatrixInvariant, PTL
================================================================================
