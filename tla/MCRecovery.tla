---------------------------- MODULE MCRecovery -------------------------------
(* Tuples are interchangeable.                                             *)
EXTENDS Recovery, TLC

MCSymmetry == Permutations(Tuple)
=============================================================================
