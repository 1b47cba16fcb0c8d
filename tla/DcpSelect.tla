----------------------------- MODULE DcpSelect -----------------------------
(***************************************************************************)
(* From the indexer to the stock attention of a group: each rank picks its *)
(* own tokens out of the selected positions, turns them into slots of its  *)
(* paged cache, and caps their number by the length of its share of what   *)
(* the row may see.  The lengths come from the host, which may know only   *)
(* an upper bound of them.                                                 *)
(*                                                                         *)
(* The ranks share nothing here: one step is a step of every rank.         *)
(***************************************************************************)
EXTENDS TopkMerge, Functions

CONSTANT Lags     \* how far the host's bound may be above a length

ASSUME LagsAssumption == Lags \subseteq Nat /\ Lags # {}

VARIABLES slots,   \* per rank and row: page_table_1
          counts   \* per rank and row: nsa_cache_seqlens, or Unset

selectVars == <<vars, slots, counts>>

Unset == -1

\* Lanes that another layer has left: slots of some other row.
SelectInit ==
  /\ Init
  /\ slots = [r \in Ranks |-> [q \in RowSet |-> [j \in Lanes |-> 0]]]
  /\ counts = [r \in Ranks |-> [q \in RowSet |-> Unset]]

\* A request's pages are anywhere in the cache; here the table runs backwards.
BlockTable(column) == TableWidth - 1 - column

\* The token of the request that a slot of rank r's cache holds.
TokenAt(r, slot) ==
  GlobalPosition(BlockTable(slot \div BlockSize) * BlockSize + (slot % BlockSize), r)

\* The slot of a token in the cache of the rank that keeps it.
SlotOf(tok) ==
  BlockTable(LocalIndex(tok) \div BlockSize) * BlockSize + (LocalIndex(tok) % BlockSize)

\* The lanes whose position rank r keeps, and the orders in which the kernel
\* may store their slots, closed up: it promises none.
OwnLanes(r, q) == {j \in Lanes : ids[r][q][j] # NoId /\ Owner(ids[r][q][j]) = r}
OwnCount(r, q) == Cardinality(OwnLanes(r, q))
Orders(r, q) == Bijection(1 .. OwnCount(r, q), OwnLanes(r, q))
AnyOrder == UNION {UNION {Orders(r, q) : q \in RowSet} : r \in Ranks}

\* A variant that leaves the row's own token out of its length.
PerTokenLenBefore(r, q, lag) ==
  LocalLen(IF mode.phase = "decode" THEN lens[q] ELSE Larger(0, lens[q] + lag - 1), r)

\* A decode step takes the exact lengths of the device, a row of a longer
\* query the host's bound on its request.
PerTokenLen(r, q, lag) ==
  LocalLen(IF mode.phase = "decode" THEN lens[q] ELSE lens[q] + lag, r)

\* A row of slots, with _mask_page_table_after_nsa_len.
Masked(r, q, order, n) ==
  [j \in Lanes |-> IF j < n THEN SlotOf(ids[r][q][order[j + 1]]) ELSE NoId]

\* How many of them are within the row's length.
Kept(r, q, lag) == Smaller(OwnCount(r, q), PerTokenLen(r, q, lag))

\* forward_mqa without the gather: filter, convert, cap and mask.
FilterRows ==
  /\ \A r \in Ranks : pc[r] = "done" /\ counts[r] = [q \in RowSet |-> Unset]
  /\ ~ Remapped
  /\ \E lag \in Lags, order \in [Ranks -> [RowSet -> AnyOrder]] :
       /\ \A r \in Ranks, q \in RowSet : order[r][q] \in Orders(r, q)
       /\ counts' = [r \in Ranks |-> [q \in RowSet |-> Kept(r, q, lag)]]
       /\ slots' = [r \in Ranks |-> [q \in RowSet |->
                      Masked(r, q, order[r][q], Kept(r, q, lag))]]
  /\ UNCHANGED vars

SelectNext == (Next /\ UNCHANGED <<slots, counts>>) \/ FilterRows

SelectSpec ==
  /\ SelectInit /\ [][SelectNext]_selectVars
  /\ \A r \in Ranks : WF_vars(RankStep(r))
  /\ WF_vars(AllGatherFlat) /\ WF_vars(AllGatherLanes)

-----------------------------------------------------------------------------
(***************************************************************************)
(* Properties.                                                             *)
(***************************************************************************)

\* The tokens rank r's attention takes in for a row.
Seen(r, q) == {TokenAt(r, slots[r][q][j]) : j \in 0 .. counts[r][q] - 1}

\* The ranks together attend to the best tokens of a row, each of them on the
\* one rank that keeps it and once; without the merge, each to the best of
\* its own.  No selected token is cut off by a length, however old the
\* host's bound is, as long as it is a bound.
SelectedOnce ==
  (\A r \in Ranks, q \in RowSet : counts[r][q] # Unset) =>
    \A q \in RowSet :
      /\ \A r \in Ranks :
           /\ Cardinality(Seen(r, q)) = counts[r][q]
           /\ \A tok \in Seen(r, q) : Owner(tok) = r
      /\ IF Merged
         THEN IsTopK(UNION {Seen(r, q) : r \in Ranks}, Tokens(q), score[q])
         ELSE \A r \in Ranks :
                IsTopK(Seen(r, q), {tok \in Tokens(q) : Owner(tok) = r}, score[q])
=============================================================================
