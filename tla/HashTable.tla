------------------------------ MODULE HashTable -------------------------------
(***************************************************************************)
(* What the users of include/hash/hash_table.h expect: the buffer pool of  *)
(* its page table, the replacer of its map from frames to list positions.  *)
(***************************************************************************)
CONSTANTS Key, Value

VARIABLE map        \* key -> the set of its value, empty if it has none

Init == map = [k \in Key |-> {}]

Insert(k, v) == map' = [map EXCEPT ![k] = {v}]
Remove(k) == map' = [map EXCEPT ![k] = {}]

Next == \E k \in Key : Remove(k) \/ \E v \in Value : Insert(k, v)

Spec == Init /\ [][Next]_map
=============================================================================
