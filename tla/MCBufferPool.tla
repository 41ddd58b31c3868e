---------------------------- MODULE MCBufferPool -----------------------------
(* TLC instance of BufferPool.                                             *)
EXTENDS BufferPool, TLC

CONSTANTS c1, c2

MCClient == {c1, c2}
ClientSymmetry == Permutations(MCClient)
=============================================================================
