----------------------------- MODULE MCTableHeap -----------------------------
(***************************************************************************)
(* Small tables for TLC.                                                   *)
(***************************************************************************)
EXTENDS TableHeap

MCRid == (1..MaxPages) \X (1..SlotCount)

\* Two tuples of the same size, and two of different sizes.
MCSameSize == {<<1, 1>>, <<1, 2>>}
MCTwoSizes == {<<1, 1>>, <<2, 1>>}
=============================================================================
