------------------------------ MODULE MCIOQueue ------------------------------
(* Instances of IOQueue for TLC.                                          *)
EXTENDS IOQueue, TLC

Symmetry == Permutations(Consumers)
=============================================================================
