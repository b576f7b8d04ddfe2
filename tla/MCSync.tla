------------------------------- MODULE MCSync -------------------------------
(* Instances of Sync for TLC, and the refinement of the lock contract.    *)
EXTENDS Sync, TLC

Symmetry == Permutations(Threads)
=============================================================================
