------------------------------ MODULE TupleMap -------------------------------
(***************************************************************************)
(* What a table page promises the table heap: numbered slots, each empty   *)
(* or with a tuple, which may be marked as deleted.  Where the bytes of a  *)
(* tuple lie in the page, and how they move, cannot be seen.               *)
(***************************************************************************)
EXTENDS Naturals, Sequences

CONSTANT Tuple

VARIABLE map    \* slots in order: the tuple, <<>> if empty, and its state

Slot(t, s) == [tuple |-> t, state |-> s]
Empty == Slot(<<>>, "empty")

\* A new tuple takes an empty slot or one more slot.
Insert(i, t) ==
    \/ /\ i \in DOMAIN map /\ map[i] = Empty
       /\ map' = [map EXCEPT ![i] = Slot(t, "visible")]
    \/ /\ i = Len(map) + 1
       /\ map' = Append(map, Slot(t, "visible"))

Mark(i) ==
    /\ map[i].state = "visible"
    /\ map' = [map EXCEPT ![i] = Slot(map[i].tuple, "marked")]

Unmark(i) ==
    /\ map[i].state = "marked"
    /\ map' = [map EXCEPT ![i] = Slot(map[i].tuple, "visible")]

Update(i, t) ==
    /\ map[i].state = "visible"
    /\ map' = [map EXCEPT ![i] = Slot(t, "visible")]

Remove(i) ==
    /\ map[i].state # "empty"
    /\ map' = [map EXCEPT ![i] = Empty]

Init == map = <<>>

Next ==
    \/ \E t \in Tuple, i \in 1..(Len(map) + 1) : Insert(i, t)
    \/ \E i \in DOMAIN map :
        \/ Mark(i) \/ Unmark(i) \/ Remove(i)
        \/ \E t \in Tuple : Update(i, t)

Spec == Init /\ [][Next]_map
=============================================================================
