---------------------------- MODULE BPlusTreeOps ----------------------------
(***************************************************************************)
(* The parts of the operations of index/b_plus_tree.cpp that run between   *)
(* two waits for a latch.  The record s holds, besides the shared state,   *)
(* the local state of one thread: its operation op on key; page_set, the   *)
(* latched and pinned pages of its transaction; deleted, the pages it is   *)
(* to delete; and node, the page that InsertIntoParent or                  *)
(* CoalesceOrRedistribute is called for, with new and sep, the page split  *)
(* off from it and its first key.                                          *)
(***************************************************************************)
EXTENDS BPlusTreePages

NONE == 0       \* no page

\* Mutant: a page that the operation fills or empties is taken for safe.
IsSafeOffByOne(n, op) ==
    CASE op = "insert" -> Size(n) <= MaxSize(n)
      [] op = "delete" -> Size(n) > MinSize(n)
      [] OTHER         -> TRUE

\* isSafe: the operation cannot change the parent of this page.
IsSafe(n, op) ==
    CASE op = "insert" -> Size(n) < MaxSize(n)
      [] op = "delete" -> Size(n) > MinSize(n) + 1
      [] OTHER         -> TRUE

Writer(op) == op \in {"insert", "delete"}

\* Mutant: the root mutex is released only if there are pages to delete.
UnlockRootAfterDelete(s) ==
    LET unpinned == Unpin(s, ToSet(s.page_set), Writer(s.op))
    IN  [DeletePages(unpinned, s.deleted)
            EXCEPT !.page_set = <<>>, !.deleted = {}, !.root_is_locked = @ /\ s.deleted = {}]

\* UnlockUnpinPages.  The root mutex is released by a writer that has it.
UnlockUnpinPages(s) ==
    LET unpinned == Unpin(s, ToSet(s.page_set), Writer(s.op))
    IN  [DeletePages(unpinned, s.deleted)
            EXCEPT !.page_set = <<>>, !.deleted = {}, !.root_is_locked = FALSE]

\* StartNewTree
StartNewTree(s, k, v) ==
    LET r == Fresh(s)
        t == [NewPage(s, r, Node("leaf", INVALID, INVALID, <<k>>, <<v>>)) EXCEPT !.root = r]
    IN  Unpin(UpdateRootPageId(t, TRUE), {r}, TRUE)

\* FindLeafPage: the child of page p for the operation.
ChildFor(s, p) ==
    IF s.op = "scan_all" THEN Head(s.page[p].vals) ELSE Lookup(s.page[p], s.key)

\* FindLeafPage, when the latch on page want is there: a reader and a writer
\* for which the page is safe give up the pages above.
Enter(s) ==
    LET p == s.want
        above == IF IsSafe(s.page[p], s.op) /\ s.page_set # <<>> THEN UnlockUnpinPages(s) ELSE s
    IN  [above EXCEPT !.page_set = Append(@, p), !.want = NONE]

-----------------------------------------------------------------------------
(***************************************************************************)
(* Insertion                                                               *)
(***************************************************************************)

\* The first half of a leaf, and the second half, of Size / 2 pairs: Split
\* and MoveHalfTo.
LowHalf(n) ==
    LET at == Size(n) - Size(n) \div 2
    IN  [n EXCEPT !.keys = SubSeq(@, 1, at), !.vals = SubSeq(@, 1, at)]
HighHalf(n) ==
    LET at == Size(n) - Size(n) \div 2 + 1
    IN  Node("leaf", INVALID, INVALID, SubSeq(n.keys, at, Size(n)), SubSeq(n.vals, at, Size(n)))

\* Mutant: the new leaf is not linked to the leaf behind the old one.
ChainDropped(leaf, leaf2, p2) ==
    [old |-> [leaf EXCEPT !.next = p2], new |-> leaf2]

\* The leaf and the leaf split off from it, chained together.
Chain(leaf, leaf2, p2) ==
    [old |-> [leaf EXCEPT !.next = p2], new |-> [leaf2 EXCEPT !.next = leaf.next]]

\* Mutant: the new key always goes to the old page.
HalvesWithLow(leaf, p2, k, v) ==
    Chain(LeafInsert(LowHalf(leaf), k, v), HighHalf(leaf), p2)

\* The halves of a full leaf with the new pair in one of them.
HalvesWith(leaf, p2, k, v) ==
    IF k < Head(HighHalf(leaf).keys)
    THEN Chain(LeafInsert(LowHalf(leaf), k, v), HighHalf(leaf), p2)
    ELSE Chain(LowHalf(leaf), LeafInsert(HighHalf(leaf), k, v), p2)

\* InsertIntoLeaf in leaf p, which has not got the key, up to the call of
\* InsertIntoParent.
InsertIntoLeaf(s, p, k, v) ==
    LET p2 == Fresh(s)
        halves == HalvesWith(s.page[p], p2, k, v)
    IN  IF Size(s.page[p]) < LeafMax
        THEN Write(s, p, LeafInsert(s.page[p], k, v))
        ELSE [NewPage(Write(s, p, halves.old), p2, halves.new)
                EXCEPT !.node = p, !.sep = Head(halves.new.keys), !.new = p2]

\* The new root above node and new.
NewRoot(s) ==
    LET r == Fresh(s)
        t == NewPage(s, r, Node("internal", INVALID, INVALID, <<s.sep>>, <<s.node, s.new>>))
        u == [t EXCEPT !.page[s.node].parent = r, !.page[s.new].parent = r, !.root = r]
    IN  Unpin(UpdateRootPageId(u, FALSE), {s.new, r}, TRUE)

\* Parent n with the new key and child behind child i: InsertNodeAfter, or
\* the contents of the page `copy` behind n's first child.
WithChild(n, i, k, c) ==
    [n EXCEPT !.keys = InsertAt(@, i, k), !.vals = InsertAt(@, i + 1, c)]

\* An overfull internal page split as InsertIntoParent does it with `copy`:
\* the last (InternalMax + 1) / 2 pairs go to the new page, whose first key
\* moves up.
SplitAt(full) == Len(full.keys) - (InternalMax + 1) \div 2 + 1
LeftPart(full) ==
    [full EXCEPT !.keys = SubSeq(@, 1, SplitAt(full) - 1), !.vals = SubSeq(@, 1, SplitAt(full))]
RightPart(full) ==
    Node("internal", INVALID, INVALID, SubSeq(full.keys, SplitAt(full) + 1, Len(full.keys)),
         SubSeq(full.vals, SplitAt(full) + 1, Len(full.vals)))

\* Mutant: the children that move to the new page keep their parent.
SplitParentKeepsChildren(s, p, p2, full) ==
    LET t == NewPage(WriteSaved(s, p, LeftPart(full)), p2, RightPart(full))
    IN  [t EXCEPT !.page[s.new].parent = IF s.sep < full.keys[SplitAt(full)] THEN p ELSE p2]

\* The full parent p gives its upper half to p2: MoveHalfTo sets the parent
\* of the children that move, InsertIntoParent that of new and of node.
SplitParent(s, p, p2, full) ==
    LET t == NewPage(WriteSaved(s, p, LeftPart(full)), p2, RightPart(full))
        u == SetParent(t, ToSet(RightPart(full).vals), p2)
        k == full.keys[SplitAt(full)]
    IN  [u EXCEPT !.page[s.new].parent = IF s.sep < k THEN p ELSE p2,
                  !.page[s.node].parent = IF s.sep > k THEN p2 ELSE @]

\* InsertIntoParent, up to its call for the parent.  The page `copy` lives
\* only during the split.  The pin on the parent is given back here and not
\* after that call: the page set has another one.
InsertIntoParent(s) ==
    LET p == s.page[s.node].parent
        full == WithChild(s.page[p], ValueIndex(s.page[p], s.node), s.sep, s.new)
        p2 == Fresh(s)
        done == [s EXCEPT !.node = NONE, !.new = NONE, !.sep = NONE]
    IN  IF IsRootPage(s.page[s.node])
        THEN [NewRoot(s) EXCEPT !.node = NONE, !.new = NONE, !.sep = NONE]
        ELSE IF Size(s.page[p]) < InternalMax
        THEN Unpin([WriteSaved(done, p, full) EXCEPT !.page[s.new].parent = p], {s.new}, TRUE)
        ELSE [Unpin(SplitParent(s, p, p2, full), {s.new}, TRUE)
                EXCEPT !.node = p, !.sep = full.keys[SplitAt(full)], !.new = p2]

-----------------------------------------------------------------------------
(***************************************************************************)
(* Removal                                                                 *)
(***************************************************************************)

\* AdjustRoot; a root that is replaced is deleted.
AdjustRoot(s, p) ==
    LET n == s.page[p]
        Replace(r) ==
            [UpdateRootPageId([s EXCEPT !.root = r], FALSE) EXCEPT !.deleted = @ \cup {p}]
    IN  IF n.type = "leaf" /\ Size(n) = 0 THEN Replace(INVALID)
        ELSE IF n.type = "internal" /\ Size(n) = 1
        THEN SetParent(Replace(Head(n.vals)), {Head(n.vals)}, INVALID)
        ELSE s

\* MoveAllTo: leaf r is put behind leaf l, and an internal page behind
\* another one with the parent's key between them.
LeafMerged(l, r) == [l EXCEPT !.keys = @ \o r.keys, !.vals = @ \o r.vals, !.next = r.next]
InternalMerged(l, k, r) == [l EXCEPT !.keys = @ \o <<k>> \o r.keys, !.vals = @ \o r.vals]

\* Page right goes to the end of page left, the child before it, and Coalesce
\* removes right, child i, from the parent.
Coalesce(s, left, right, parent, i) ==
    LET l == s.page[left]
        r == s.page[right]
        merged == IF r.type = "leaf" THEN LeafMerged(l, r)
                  ELSE InternalMerged(l, s.page[parent].keys[i - 1], r)
        t == WriteSaved(Write(s, left, merged), parent, RemoveChild(s.page[parent], i))
    IN  IF r.type = "leaf" THEN t ELSE SetParent(t, ToSet(r.vals), left)

\* The key a page gets with the first pair of the page on its right, or with
\* the last pair of the page on its left: between leaves the key of the pair,
\* between internal pages the key sep that the parent has between the two.
KeyOfFirst(r, sep) == IF r.type = "leaf" THEN Head(r.keys) ELSE sep
KeyOfLast(l, sep) == IF l.type = "leaf" THEN Last(l.keys) ELSE sep

\* MoveFirstToEndOf: right lends its first pair to left, child i of the
\* parent, and right's first key becomes the parent's key, also between
\* leaves, where it has moved to left.
MoveFirstToEndOf(s, right, left, parent, i) ==
    LET r == s.page[right]
        k == KeyOfFirst(r, s.page[parent].keys[i])
        t == Write(s, left, [s.page[left] EXCEPT !.keys = Append(@, k),
                                                 !.vals = Append(@, Head(r.vals))])
        u == Write(t, right, [r EXCEPT !.keys = Tail(@), !.vals = Tail(@)])
        w == WriteSaved(u, parent, [s.page[parent] EXCEPT !.keys[i] = Head(r.keys)])
    IN  IF r.type = "leaf" THEN w ELSE SetParent(w, {Head(r.vals)}, left)

\* MoveLastToFrontOf: left lends its last pair to right, child i of the parent.
MoveLastToFrontOf(s, left, right, parent, i) ==
    LET l == s.page[left]
        k == KeyOfLast(l, s.page[parent].keys[i - 1])
        t == Write(s, left, [l EXCEPT !.keys = Front(@), !.vals = Front(@)])
        u == Write(t, right, [s.page[right] EXCEPT !.keys = <<k>> \o @,
                                                   !.vals = <<Last(l.vals)>> \o @])
        w == WriteSaved(u, parent, [s.page[parent] EXCEPT !.keys[i - 1] = Last(l.keys)])
    IN  IF l.type = "leaf" THEN w ELSE SetParent(w, {Last(l.vals)}, right)

\* CoalesceOrRedistribute: whether page p, not the root, needs its sibling.
Underflow(n) == IF n.type = "leaf" THEN Size(n) < MinSize(n) ELSE Size(n) <= MinSize(n)

\* The previous child of the same parent, or the second for the first.
Sibling(s, p) ==
    LET n == s.page[s.page[p].parent]
        i == ValueIndex(n, p)
    IN  IF i = 1 THEN n.vals[2] ELSE n.vals[i - 1]

\* The rest of CoalesceOrRedistribute for page p with its sibling q latched,
\* up to the call for the parent.  The pin on the parent is given back here
\* and not after that call: the page set has another one.
Redistributes(s, p, q) == Size(s.page[q]) + Size(s.page[p]) > MaxSize(s.page[p])
WithSibling(s, p, q) ==
    LET parent == s.page[p].parent
        i == ValueIndex(s.page[parent], p)
        t == [s EXCEPT !.page_set = Append(@, q), !.want = NONE]
    IN  IF Redistributes(s, p, q)
        THEN [IF i = 1 THEN MoveFirstToEndOf(t, q, p, parent, i)
                       ELSE MoveLastToFrontOf(t, q, p, parent, i) EXCEPT !.node = NONE]
        ELSE [IF i = 1 THEN Coalesce(t, p, q, parent, 2) ELSE Coalesce(t, q, p, parent, i)
                EXCEPT !.deleted = @ \cup {IF i = 1 THEN q ELSE p}, !.node = parent]
=============================================================================
