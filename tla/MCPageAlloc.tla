----------------------------- MODULE MCPageAlloc ----------------------------
EXTENDS PageAlloc, TLC

\* Threads of one kind are interchangeable.
Symmetry == Permutations(KThreads) \cup Permutations(UProcs)
=============================================================================
