---------------------------- MODULE MCStoreFutures ----------------------------
EXTENDS StoreFutures, TLC

Symmetry == Permutations(Requests)
================================================================================
