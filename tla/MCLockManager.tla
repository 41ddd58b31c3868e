---------------------------- MODULE MCLockManager ----------------------------
(* TLC instances of LockManager.                                           *)
EXTENDS LockManager, TLC

CONSTANTS r1, r2

MCRid2 == {r1, r2}
MCTxn == {0, 1, 2}
MCTxn2 == {0, 1}
RidSymmetry == Permutations(MCRid2)
=============================================================================
