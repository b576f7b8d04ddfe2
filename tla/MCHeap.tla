------------------------------- MODULE MCHeap -------------------------------
(* Instances of Heap for TLC: pages are small integers of each pool, and  *)
(* PG_SIZE is chosen so that class 0 has 3 blocks an arena and class 1     *)
(* has 1, so that arenas fill, share a list, empty and are given back.    *)
EXTENDS Heap, TLC

MCPageSize == 60
Symmetry == Permutations(KThreads) \cup Permutations(UProcs)
=============================================================================
