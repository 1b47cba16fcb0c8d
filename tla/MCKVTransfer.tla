----------------------------- MODULE MCKVTransfer -----------------------------
EXTENDS KVTransfer, TLC

\* Requests and workers are interchangeable in every safety property.
Symmetry == Permutations(Requests) \cup Permutations(Workers)
================================================================================
