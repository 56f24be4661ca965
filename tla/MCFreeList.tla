----------------------------- MODULE MCFreeList -----------------------------
(* FreeList for TLC: threads and nodes are interchangeable. *)
EXTENDS FreeList, TLC

Symmetry == Permutations(Threads) \cup Permutations(Nodes)
=============================================================================
