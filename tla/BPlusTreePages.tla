--------------------------- MODULE BPlusTreePages ---------------------------
(***************************************************************************)
(* The pages of a B+ tree and the operations on them                       *)
(* (page/b_plus_tree_page.cpp, b_plus_tree_leaf_page.cpp,                  *)
(* b_plus_tree_internal_page.cpp) and the tree operations of               *)
(* index/b_plus_tree.cpp that are made of them.                            *)
(*                                                                         *)
(* Every operation maps a record s to a record: the pages, their pins, the *)
(* root and the header record, which all threads share, and the local      *)
(* variables of the calling thread.  An internal page keeps no keys[0],    *)
(* which the code reserves: Len(vals) = Len(keys) + 1, and keys[i]         *)
(* separates child i from child i + 1.  Size is Len(vals) in both kinds of *)
(* page.                                                                   *)
(*                                                                         *)
(* The pool has a frame for every page, so that NewPage and FetchPage      *)
(* never fail, and NewPage hands out an id no living page has.             *)
(***************************************************************************)
EXTENDS Integers, SequencesExt, FiniteSetsExt

CONSTANTS
    Key,            \* a set of integers
    PageId,         \* 1..n: page 0 is the header page
    LeafMax,        \* max_size_ of a leaf page
    InternalMax     \* max_size_ of an internal page

ASSUME MaxAssumption == LeafMax \in Nat \ {0, 1} /\ InternalMax \in Nat \ 0..2

INVALID == -1       \* INVALID_PAGE_ID
NoRecord == -2      \* the header page has no record of this index

Node(type, parent, next, keys, vals) ==
    [type |-> type, parent |-> parent, next |-> next, keys |-> keys, vals |-> vals]
Free == Node("free", INVALID, INVALID, <<>>, <<>>)

Size(n) == Len(n.vals)
MaxSize(n) == IF n.type = "leaf" THEN LeafMax ELSE InternalMax
MinSize(n) == MaxSize(n) \div 2
IsRootPage(n) == n.parent = INVALID

-----------------------------------------------------------------------------
(***************************************************************************)
(* Searching a page.  low and high are the code's, counted from 1.         *)
(***************************************************************************)

\* The search for k among keys with keys[low] < k < keys[high]: the interval
\* shrinks until low and high are neighbours or mid is hit.
Narrow(keys, k) ==
    LET search[low, high \in DOMAIN keys] ==
            LET mid == low + (high - low) \div 2
            IN  IF low >= high \/ low + 1 = high THEN [low |-> low, high |-> high]
                ELSE IF k < keys[mid] THEN search[low, mid]
                ELSE IF k > keys[mid] THEN search[mid, high]
                ELSE [low |-> mid, high |-> mid]
    IN  search[1, Len(keys)]

\* Mutant: a key equal to the last separator goes to the child before it.
LookupLastOff(n, k) ==
    IF k < Head(n.keys) THEN Head(n.vals)
    ELSE IF k > Last(n.keys) THEN Last(n.vals)
    ELSE n.vals[Narrow(n.keys, k).low + 1]

\* BPlusTreeInternalPage::Lookup: the child whose range holds k.
Lookup(n, k) ==
    IF k < Head(n.keys) THEN Head(n.vals)
    ELSE IF k >= Last(n.keys) THEN Last(n.vals)
    ELSE n.vals[Narrow(n.keys, k).low + 1]

\* BPlusTreeLeafPage::Lookup and RemoveAndDeleteRecord: the index of k, or 0.
LeafIndex(n, k) ==
    LET search[low \in 1..(Size(n) + 1), high \in 0..Size(n)] ==
            LET mid == low + (high - low) \div 2
            IN  IF low > high THEN 0
                ELSE IF k > n.keys[mid] THEN search[mid + 1, high]
                ELSE IF k < n.keys[mid] THEN search[low, mid - 1]
                ELSE mid
    IN  IF Size(n) = 0 \/ k < Head(n.keys) \/ k > Last(n.keys) THEN 0
        ELSE search[1, Size(n)]

\* KeyIndex: the first index whose key is not below k, or one past the last.
KeyIndex(n, k) ==
    Min({i \in 1..Size(n) : k <= n.keys[i]} \cup {Size(n) + 1})

\* ValueIndex: child v of an internal page.
ValueIndex(n, v) == CHOOSE i \in 1..Size(n) : n.vals[i] = v

\* BPlusTreeLeafPage::Insert
LeafInsert(n, k, v) ==
    LET i == IF Size(n) = 0 \/ k > Last(n.keys) THEN Size(n) + 1
             ELSE IF k < Head(n.keys) THEN 1
             ELSE Narrow(n.keys, k).high
    IN  [n EXCEPT !.keys = InsertAt(@, i, k), !.vals = InsertAt(@, i, v)]

\* RemoveAndDeleteRecord
LeafRemove(n, k) ==
    LET i == LeafIndex(n, k)
    IN  IF i = 0 THEN n
        ELSE [n EXCEPT !.keys = RemoveAt(@, i), !.vals = RemoveAt(@, i)]

\* BPlusTreeInternalPage::Remove of child i > 1 and the key before it.
RemoveChild(n, i) ==
    [n EXCEPT !.keys = RemoveAt(@, i - 1), !.vals = RemoveAt(@, i)]

-----------------------------------------------------------------------------
(***************************************************************************)
(* The pool, as the tree uses it.  s.unsaved is the set of pages that      *)
(* changed and were not unpinned as dirty since: the pool forgets the      *)
(* change when it evicts such a page.                                      *)
(***************************************************************************)
Fetch(s, p) == [s EXCEPT !.pin[p] = @ + 1]
Unpin(s, P, dirty) ==
    [s EXCEPT !.pin = [p \in PageId |-> IF p \in P /\ @[p] > 0 THEN @[p] - 1 ELSE @[p]],
              !.unsaved = IF dirty THEN @ \ P ELSE @]
Write(s, p, n) == [s EXCEPT !.page[p] = n, !.unsaved = @ \cup {p}]

\* A change to a page that is pinned for it and unpinned as dirty again.
WriteSaved(s, p, n) == [s EXCEPT !.page[p] = n, !.unsaved = @ \ {p}]

\* The id of the next page.
Fresh(s) == Min({p \in PageId : s.page[p] = Free})
NewPage(s, p, n) == Fetch(Write(s, p, n), p)

\* DeletePage refuses a pinned page.
DeletePages(s, P) ==
    LET gone == {p \in P : s.pin[p] = 0}
    IN  [s EXCEPT !.page = [p \in PageId |-> IF p \in gone THEN Free ELSE @[p]],
                  !.unsaved = @ \ gone]

\* Mutant: the pages are unpinned as clean.
SetParentClean(s, C, p) ==
    [s EXCEPT !.page = [c \in PageId |-> IF c \in C THEN [@[c] EXCEPT !.parent = p] ELSE @[c]],
              !.unsaved = @ \cup C]

\* SetParentPageId of pages that are pinned for it and unpinned as dirty.
SetParent(s, C, p) ==
    [s EXCEPT !.page = [c \in PageId |-> IF c \in C THEN [@[c] EXCEPT !.parent = p] ELSE @[c]],
              !.unsaved = @ \ C]

\* The record after HeaderPage::InsertRecord, which refuses a name that has
\* one, and after UpdateRecord, which refuses one that has none.
InsertRecord(record, r) == IF record = NoRecord THEN r ELSE record
UpdateRecord(record, r) == IF record = NoRecord THEN record ELSE r

\* Mutant: a record is only ever inserted.
UpdateRootInsertsOnly(s, insert_record) == [s EXCEPT !.header = InsertRecord(@, s.root)]

UpdateRootPageId(s, insert_record) ==
    [s EXCEPT !.header = IF insert_record THEN InsertRecord(@, s.root) ELSE UpdateRecord(@, s.root)]
=============================================================================
