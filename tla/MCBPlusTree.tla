----------------------------- MODULE MCBPlusTree -----------------------------
(***************************************************************************)
(* Small trees for TLC: keys and page ids are numbers from 1 on.  Each key *)
(* has a value of its own, and the first key two.                          *)
(***************************************************************************)
EXTENDS BPlusTree

CONSTANTS MaxKey, MaxPage

MCKey == 1..MaxKey
MCPageId == 1..MaxPage
MCValue == [k \in MCKey |-> IF k = 1 THEN {1, -1} ELSE {k}]
=============================================================================
