--------------------------- MODULE MCExtendibleHash ---------------------------
(* Keys that differ first in their lowest, or only in higher bits.         *)
EXTENDS ExtendibleHash

MCKey == {0, 1, 3, 4, 7, 8, 15}
MCPointer == 1..10
=============================================================================
