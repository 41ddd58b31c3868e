---------------------------- MODULE MCTablePage ------------------------------
(* A page for a few short tuples; slots and header take one byte each.     *)
EXTENDS TablePage

CONSTANTS b1, b2

MCByte == {b1, b2}
MCTuple == {<<b1>>, <<b2, b1>>, <<b1, b2>>, <<b2, b2, b2>>}
=============================================================================
