------------------------------ MODULE TablePage ------------------------------
(***************************************************************************)
(* The bytes of one table page (page/table_page.cpp): slots with offset    *)
(* and size grow from the header upwards, tuples from the end of the page  *)
(* downwards, and removing or resizing a tuple moves the tuples below it.  *)
(* A negative size marks a tuple as deleted, size 0 an empty slot.         *)
(*                                                                         *)
(* The page latch makes each operation one step.  The locks, log records   *)
(* and write sets of the same operations do not touch the page.            *)
(***************************************************************************)
EXTENDS Integers, Sequences

CONSTANTS
    PageSize,
    HeaderSize,         \* 24: bytes before the first slot
    SlotSize,           \* 8: bytes of a slot
    Byte,
    Tuple,              \* the tuples the clients store
    ResizeWhileMarked   \* tuples are resized while one below is marked

ASSUME SizesAssumption ==
    /\ HeaderSize \in Nat /\ SlotSize \in Nat /\ PageSize \in Nat
    /\ HeaderSize <= PageSize
ASSUME TupleAssumption == Tuple \subseteq Seq(Byte) \ {<<>>}
ASSUME ResizeAssumption == ResizeWhileMarked \in BOOLEAN

VARIABLES
    free_space_pointer,
    slots,              \* offset and size of each slot; rid.slot_num + 1
    mem                 \* address -> byte, for the addresses of tuples

vars == <<free_space_pointer, slots, mem>>

Address == 0..(PageSize - 1)
Slot == [offset : Int, size : Int]

TypeOK ==
    /\ free_space_pointer \in 0..PageSize
    /\ slots \in Seq(Slot)
    /\ mem \in [Address -> Byte]

\* Init on a page from NewPage: its bytes are all the same.
Init ==
    /\ free_space_pointer = PageSize
    /\ slots = <<>>
    /\ \E b \in Byte : mem = [a \in Address |-> b]

-----------------------------------------------------------------------------
Abs(n) == IF n < 0 THEN -n ELSE n

\* GetFreeSpaceSize
FreeSpaceSize == free_space_pointer - HeaderSize - SlotSize * Len(slots)

\* Mutant: the room for one more slot is not asked for.
TargetTight(i, t) ==
    \/ /\ i \in 1..Len(slots)
       /\ slots[i].size = 0
       /\ \A j \in 1..(i - 1) : slots[j].size # 0
    \/ /\ i = Len(slots) + 1
       /\ \A j \in 1..Len(slots) : slots[j].size # 0

\* Where InsertTuple puts the tuple: the first empty slot, or one more slot
\* if there is none and the page has room for it.
Target(i, t) ==
    \/ /\ i \in 1..Len(slots)
       /\ slots[i].size = 0
       /\ \A j \in 1..(i - 1) : slots[j].size # 0
    \/ /\ i = Len(slots) + 1
       /\ \A j \in 1..Len(slots) : slots[j].size # 0
       /\ FreeSpaceSize >= Len(t) + SlotSize

\* The bytes after t is copied to address a.
Copy(m, a, t) ==
    [k \in Address |-> IF k \in a..(a + Len(t) - 1) THEN t[k - a + 1] ELSE m[k]]

\* The bytes after those in from..(to - 1) are moved up by d (down if d < 0).
Move(m, from, to, d) ==
    [k \in Address |-> IF k \in (from + d)..(to + d - 1) THEN m[k - d] ELSE m[k]]

InsertTuple(i, t) ==
    LET fsp == free_space_pointer - Len(t)
        s == [offset |-> fsp, size |-> Len(t)]
    IN  /\ FreeSpaceSize >= Len(t)
        /\ Target(i, t)
        /\ free_space_pointer' = fsp
        /\ mem' = Copy(mem, fsp, t)
        /\ slots' = IF i <= Len(slots) THEN [slots EXCEPT ![i] = s] ELSE Append(slots, s)

\* MarkDelete of an empty slot succeeds and changes nothing.
MarkDelete(i) ==
    /\ slots[i].size > 0
    /\ slots' = [slots EXCEPT ![i] = [offset |-> @.offset, size |-> -@.size]]
    /\ UNCHANGED <<free_space_pointer, mem>>

\* The offsets of marked tuples are not adjusted.
UpdateTuple(i, t) ==
    LET size == slots[i].size
        offset == slots[i].offset
        d == size - Len(t)
    IN  /\ size > 0
        /\ FreeSpaceSize >= -d
        /\ d # 0 /\ ~ResizeWhileMarked =>
                \A j \in 1..Len(slots) : slots[j].size < 0 => slots[j].offset > offset
        /\ offset >= free_space_pointer
        /\ mem' = Copy(Move(mem, free_space_pointer, offset, d), offset + d, t)
        /\ free_space_pointer' = free_space_pointer + d
        /\ slots' = [j \in 1..Len(slots) |->
                [offset |-> IF slots[j].size > 0 /\ slots[j].offset < offset + size
                            THEN slots[j].offset + d ELSE slots[j].offset,
                 size |-> IF j = i THEN Len(t) ELSE slots[j].size]]

\* Mutant: the offsets of marked tuples are not adjusted here either.
ApplyDeleteSkipsMarked(i) ==
    LET size == Abs(slots[i].size)
        offset == slots[i].offset
    IN  /\ size # 0
        /\ offset >= free_space_pointer
        /\ mem' = Move(mem, free_space_pointer, offset, size)
        /\ free_space_pointer' = free_space_pointer + size
        /\ slots' = [j \in 1..Len(slots) |->
                IF j = i THEN [offset |-> 0, size |-> 0]
                ELSE [offset |-> IF slots[j].size > 0 /\ slots[j].offset < offset
                                 THEN slots[j].offset + size ELSE slots[j].offset,
                      size |-> slots[j].size]]

\* Commits the deletion of a marked tuple, or undoes the insertion of one.
ApplyDelete(i) ==
    LET size == Abs(slots[i].size)
        offset == slots[i].offset
    IN  /\ size # 0
        /\ offset >= free_space_pointer
        /\ mem' = Move(mem, free_space_pointer, offset, size)
        /\ free_space_pointer' = free_space_pointer + size
        /\ slots' = [j \in 1..Len(slots) |->
                IF j = i THEN [offset |-> 0, size |-> 0]
                ELSE [offset |-> IF slots[j].size # 0 /\ slots[j].offset < offset
                                 THEN slots[j].offset + size ELSE slots[j].offset,
                      size |-> slots[j].size]]

RollbackDelete(i) ==
    /\ slots[i].size < 0
    /\ slots' = [slots EXCEPT ![i] = [offset |-> @.offset, size |-> -@.size]]
    /\ UNCHANGED <<free_space_pointer, mem>>

Next ==
    \/ \E t \in Tuple, i \in 1..(Len(slots) + 1) : InsertTuple(i, t)
    \/ \E i \in 1..Len(slots) :
        \/ MarkDelete(i)
        \/ RollbackDelete(i)
        \/ ApplyDelete(i)
        \/ \E t \in Tuple : UpdateTuple(i, t)

Spec == Init /\ [][Next]_vars

-----------------------------------------------------------------------------
(* Properties.                                                             *)

End(j) == slots[j].offset + Abs(slots[j].size)
Used == {j \in 1..Len(slots) : slots[j].size # 0}

\* The page is never overfull: the slots end before the free space pointer,
\* the tuples lie between it and the end of the page, and no two of them
\* overlap, whatever InsertTuple, UpdateTuple and ApplyDelete have moved.
Layout ==
    /\ HeaderSize + SlotSize * Len(slots) <= free_space_pointer
    /\ \A j \in Used : free_space_pointer <= slots[j].offset /\ End(j) <= PageSize
    /\ \A j, k \in Used : j # k => End(j) <= slots[k].offset \/ End(k) <= slots[j].offset

\* GetTuple: the bytes of slot j.
TupleAt(j) == [k \in 1..Abs(slots[j].size) |-> mem[slots[j].offset + k - 1]]

\* GetTuple fails on an empty or a marked slot.
State(size) == CASE size > 0 -> "visible" [] size < 0 -> "marked" [] OTHER -> "empty"

Entry(j) == [tuple |-> TupleAt(j), state |-> State(slots[j].size)]

\* The page implements the map from slots to tuples: a tuple is read back as
\* it was written until it is updated or removed, a mark hides it, and its
\* rollback makes it visible again with the bytes it had.
Tuples == INSTANCE TupleMap WITH map <- [j \in 1..Len(slots) |-> Entry(j)]
TuplesSpec == Tuples!Spec
=============================================================================
