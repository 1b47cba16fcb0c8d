------------------------------ MODULE TopkSpec ------------------------------
(***************************************************************************)
(* What it means to select the best K of a set of candidates.  Ties may be *)
(* broken in any way, so a set of candidates can have several top-K sets.  *)
(***************************************************************************)
EXTENDS Integers, FiniteSets

CONSTANT TopK    \* topk_tokens: candidates to keep

ASSUME TopKAssumption == TopK \in Nat \ {0}

\* Chosen is a top-K set of Candidates by the value under each.
IsTopK(Chosen, Candidates, value) ==
  /\ Chosen \subseteq Candidates
  /\ Cardinality(Chosen) <= TopK
  /\ Chosen # Candidates => Cardinality(Chosen) = TopK
  /\ \A c \in Chosen : \A x \in Candidates \ Chosen : value[x] <= value[c]
=============================================================================
