---------------------------- MODULE MCDeployment ----------------------------
(***************************************************************************)
(* Bases: the one the release names, the one its patchers have been over,  *)
(* each of them with any one place in any other condition, an older        *)
(* overlay, and bases some patchers have been over.  A marker is written   *)
(* together with the whole replacement, so a marked place is not changed   *)
(* by itself.                                                              *)
(***************************************************************************)
EXTENDS Deployment

Base(place_, marked_, site) ==
  [place |-> place_, marked |-> marked_, overlaid |-> [c \in Copies |-> site]]

Original == [p \in Places |-> "original"]
Applied == [p \in Places |-> "patched"]

OneOff(b, ps) == {[b EXCEPT ![p] = c] : p \in ps, c \in Conditions}
Marked == EventEdits \cup ChunkEdits \cup LauncherEdits \cup EagerEdits \cup {"mla_store"}
\* Marked patchers that have been over the base, and their places.
Over(ms) ==
  [p \in Places |->
     IF \/ "mla_store" \in ms /\ p = "mla_store"
        \/ "events" \in ms /\ p \in EventEdits
        \/ "chunks" \in ms /\ p \in ChunkEdits
        \/ "launcher" \in ms /\ p \in LauncherEdits
        \/ "eager" \in ms /\ p \in EagerEdits
     THEN "patched" ELSE "original"]

MCBases ==
  {Base(pl, {}, "base") : pl \in OneOff(Original, Places)}
    \cup {Base(pl, Markers, "base") : pl \in OneOff(Applied, Places \ Marked)}
    \cup {Base(Over(ms), ms, "base") : ms \in SUBSET Markers}
    \cup {Base(Original, {}, "other")}

Case(t, d, tool_, fills_, counts, require) ==
  [tp |-> t, dcp |-> d, tool |-> tool_, fills |-> fills_, countsWriting |-> counts,
   requireHit |-> require, mlaStore |-> TRUE, extraCount |-> TRUE]

MCCases ==
  {Case(4, d, "matrix", 2, FALSE, FALSE) : d \in {1, 2, 4}}
    \cup {Case(4, d, "matrix", 3 - d, TRUE, FALSE) : d \in {1, 2}}
    \cup {Case(4, 2, "matrix", 1, FALSE, FALSE), Case(2, 2, "matrix", 2, FALSE, FALSE)}
    \cup {Case(4, 2, "verify", 1, FALSE, TRUE), Case(4, 1, "verify", 2, FALSE, FALSE)}
    \cup {Case(4, 2, "boundary", 0, FALSE, FALSE), Case(2, 2, "boundary", 0, FALSE, FALSE)}

MCFiles == [main |-> 3, draft |-> 2]
MCContexts == <<4, 2>>
=============================================================================
