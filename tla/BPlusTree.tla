------------------------------ MODULE BPlusTree ------------------------------
(***************************************************************************)
(* The B+ tree index of index/b_plus_tree.cpp, its iterator                *)
(* (index/index_iterator.cpp) and its record in the header page            *)
(* (page/header_page.cpp), used by several threads.  A step is what a      *)
(* thread does between two waits for a latch or for the root mutex, one    *)
(* level of a recursion at most: all it changes there is latched, except   *)
(* the parent ids of children.                                             *)
(*                                                                         *)
(* The latches of a page are those of common/rwmutex.h, here as the        *)
(* Latch module has them: many readers or one writer.                      *)
(***************************************************************************)
EXTENDS BPlusTreeOps

CONSTANTS
    Thread,
    Value,      \* the values that may be inserted with each key
    Scans,      \* iterators are used
    ScanPast,   \* an iterator may start past the last key of its leaf
                \* (FALSE is for one thread)
    LendFirst,  \* a leaf may lend its first pair to the leaf on its left
                \* (FALSE is for one thread)
    Drain,      \* removals may empty the tree
    Race        \* a reader looks at root_page_id_ before it has the latch on
                \* the root

ASSUME ParametersAssumption ==
    /\ {Scans, ScanPast, LendFirst, Drain, Race} \subseteq BOOLEAN
    /\ DOMAIN Value = Key

VARIABLES
    page,       \* the pages of the tree
    pin,        \* their pin counts
    unsaved,    \* pages with a change the pool does not know of
    root,       \* root_page_id_
    header,     \* the root in the header page's record of this index
    th,         \* the local state of each thread
    dict        \* the pairs in the index, by the order of the leaf steps

vars == <<page, pin, unsaved, root, header, th, dict>>

\* root_is_locked: the thread has the root mutex.  want: the page it waits
\* for.  from: the page it came from and has given up, with which a reader
\* compares the parent id.  index: the position of its iterator.
Idle == [pc |-> "idle", op |-> "none", key |-> NONE, val |-> NONE, page_set |-> <<>>,
         deleted |-> {}, root_is_locked |-> FALSE, want |-> NONE, from |-> NONE,
         node |-> NONE, new |-> NONE, sep |-> NONE, index |-> 0]

Init ==
    /\ page = [p \in PageId |-> Free]
    /\ pin = [p \in PageId |-> 0]
    /\ unsaved = {}
    /\ root = INVALID
    /\ header = NoRecord
    /\ th = [t \in Thread |-> Idle]
    /\ dict = [k \in Key |-> {}]

-----------------------------------------------------------------------------
Shared == [page |-> page, pin |-> pin, unsaved |-> unsaved, root |-> root, header |-> header]

\* What thread t sees, and the step that leads to s.
S(t) == Shared @@ th[t]
Becomes(t, s) ==
    /\ page' = s.page
    /\ pin' = s.pin
    /\ unsaved' = s.unsaved
    /\ root' = s.root
    /\ header' = s.header
    /\ th' = [th EXCEPT ![t] = [f \in DOMAIN Idle |-> s[f]]]

RootLocked == \E t \in Thread : th[t].root_is_locked

\* RLatch and WLatch return.
CanLatch(t, p) ==
    \A u \in Thread \ {t} :
        p \in ToSet(th[u].page_set) => ~Writer(th[t].op) /\ ~Writer(th[u].op)

\* FetchPage of the page the thread then waits for.
WaitFor(s, p, pc) == [Fetch(s, p) EXCEPT !.want = p, !.pc = pc]

\* FindLeafPage from the latch on page want on, up to the next wait.
Entered(s) ==
    LET p == s.want
        t == [Enter(s) EXCEPT !.from = IF s.op = "read" /\ s.page_set # <<>>
                                       THEN Last(s.page_set) ELSE NONE]
    IN  IF s.page[p].type = "leaf" THEN [t EXCEPT !.pc = "leaf"]
        ELSE WaitFor(t, ChildFor(s, p), "latch")

-----------------------------------------------------------------------------
(***************************************************************************)
(* Calls                                                                   *)
(***************************************************************************)
Call(t, op, k, v, pc) == [S(t) EXCEPT !.op = op, !.key = k, !.val = v, !.pc = pc]

\* Insert looks at the root under the root mutex, and starts a tree there.
Insert(t, k, v) ==
    /\ th[t].pc = "idle"
    /\ ~RootLocked
    /\ IF root = INVALID
       THEN /\ \E s \in {StartNewTree(S(t), k, v)} : Becomes(t, s)
            /\ dict' = [dict EXCEPT ![k] = {v}]
       ELSE /\ Becomes(t, Call(t, "insert", k, v, "lock_root"))
            /\ UNCHANGED dict

RECURSIVE LeafFor(_, _)
LeafFor(p, k) == IF page[p].type = "leaf" THEN p ELSE LeafFor(Lookup(page[p], k), k)

\* Removing k makes the first leaf of its parent borrow from the next one.
LendsFirst(k) ==
    LET p == LeafFor(root, k)
    IN  /\ LeafIndex(page[p], k) # 0
        /\ p # root
        /\ ValueIndex(page[page[p].parent], p) = 1
        /\ Size(page[p]) - 1 < MinSize(page[p])
        /\ Size(page[p]) - 1 + Size(page[Sibling(Shared, p)]) > LeafMax

\* A key stays that no call is removing.
KeepsKey(k) ==
    \E j \in Key \ {k} :
        dict[j] # {} /\ \A t \in Thread : ~(th[t].op = "delete" /\ th[t].key = j)

MayRemove(k) ==
    /\ IF LendFirst THEN TRUE ELSE ~LendsFirst(k)
    /\ IF Drain THEN TRUE ELSE KeepsKey(k)

\* Remove looks at root_page_id_ without the mutex.
Delete(t, k) ==
    /\ th[t].pc = "idle"
    /\ root # INVALID
    /\ MayRemove(k)
    /\ Becomes(t, Call(t, "delete", k, NONE, "lock_root"))
    /\ UNCHANGED dict

\* Begin(key) finds a leaf whose keys are all below k, and it is not the
\* last leaf.
StartsPast(k) ==
    LET leaf == page[LeafFor(root, k)] IN KeyIndex(leaf, k) > Size(leaf) /\ leaf.next # INVALID

\* GetValue, and Begin() and Begin(key) of an iterator: FindLeafPage reads
\* the root's id and waits for its latch.
Read(t, op, k) ==
    /\ th[t].pc = "idle"
    /\ root # INVALID
    /\ op # "read" => Scans
    /\ op = "scan" => IF ScanPast THEN TRUE ELSE ~StartsPast(k)
    /\ \E s \in {WaitFor(Call(t, op, k, NONE, "latch"), root, "latch")} :
        IF Race THEN Becomes(t, s)
        ELSE CanLatch(t, root) /\ Becomes(t, Entered(s))
    /\ UNCHANGED dict

-----------------------------------------------------------------------------
(***************************************************************************)
(* The steps of a call                                                     *)
(***************************************************************************)

\* lockRoot in FindLeafPage.  If the tree has become empty the call returns
\* with the mutex locked.
LockRoot(t) ==
    /\ th[t].pc = "lock_root"
    /\ ~RootLocked
    /\ IF root = INVALID
       THEN Becomes(t, Shared @@ [Idle EXCEPT !.root_is_locked = TRUE])
       ELSE Becomes(t, [WaitFor(S(t), root, "latch") EXCEPT !.root_is_locked = TRUE])
    /\ UNCHANGED dict

Latch(t) ==
    /\ th[t].pc = "latch"
    /\ CanLatch(t, th[t].want)
    /\ \E s \in {Entered(S(t))} : Becomes(t, s)
    /\ UNCHANGED dict

Leaf(t) == Last(th[t].page_set)
Position(t) == LeafIndex(page[Leaf(t)], th[t].key)

\* InsertIntoLeaf
AtInsert(t) ==
    /\ th[t].pc = "leaf" /\ th[t].op = "insert"
    /\ IF Position(t) # 0
       THEN Becomes(t, [S(t) EXCEPT !.pc = "release"]) /\ UNCHANGED dict
       ELSE /\ \E s \in {InsertIntoLeaf(S(t), Leaf(t), th[t].key, th[t].val)} :
                Becomes(t, [s EXCEPT !.pc = IF s.node = NONE THEN "release" ELSE "parent"])
            /\ dict' = [dict EXCEPT ![th[t].key] = {th[t].val}]

AtParent(t) ==
    /\ th[t].pc = "parent"
    /\ \E s \in {InsertIntoParent(S(t))} :
        Becomes(t, [s EXCEPT !.pc = IF s.node = NONE THEN "release" ELSE "parent"])
    /\ UNCHANGED dict

\* RemoveAndDeleteRecord
AtDelete(t) ==
    /\ th[t].pc = "leaf" /\ th[t].op = "delete"
    /\ IF Position(t) = 0
       THEN Becomes(t, [S(t) EXCEPT !.pc = "release"]) /\ UNCHANGED dict
       ELSE /\ \E s \in {Write(S(t), Leaf(t), LeafRemove(page[Leaf(t)], th[t].key))} :
                Becomes(t, [s EXCEPT !.pc = "rebalance", !.node = Leaf(t)])
            /\ dict' = [dict EXCEPT ![th[t].key] = {}]

\* CoalesceOrRedistribute, up to the wait for the sibling.
Rebalance(t) ==
    /\ th[t].pc = "rebalance"
    /\ LET p == th[t].node
           done == [S(t) EXCEPT !.pc = "release", !.node = NONE]
       IN  IF IsRootPage(page[p]) THEN \E s \in {AdjustRoot(done, p)} : Becomes(t, s)
           ELSE IF ~Underflow(page[p]) THEN Becomes(t, done)
           ELSE Becomes(t, WaitFor(S(t), Sibling(Shared, p), "sibling"))
    /\ UNCHANGED dict

AtSibling(t) ==
    /\ th[t].pc = "sibling"
    /\ CanLatch(t, th[t].want)
    /\ \E s \in {WithSibling(S(t), th[t].node, th[t].want)} :
        Becomes(t, [s EXCEPT !.pc = IF s.node = NONE THEN "release" ELSE "rebalance"])
    /\ UNCHANGED dict

\* UnlockUnpinPages at the end of a call, for a reader with the Lookup
\* in the leaf before it.
Release(t) ==
    /\ \/ th[t].pc = "release"
       \/ th[t].pc = "leaf" /\ th[t].op = "read"
    /\ \E s \in {UnlockUnpinPages(S(t))} :
        Becomes(t, [f \in DOMAIN s |->
            IF f \in DOMAIN Shared \cup {"root_is_locked"} THEN s[f] ELSE Idle[f]])
    /\ UNCHANGED dict

-----------------------------------------------------------------------------
(***************************************************************************)
(* The iterator.  key is the lower bound of the items still to come.       *)
(***************************************************************************)
AtBegin(t) ==
    /\ th[t].pc = "leaf" /\ th[t].op \in {"scan", "scan_all"}
    /\ Becomes(t, [S(t) EXCEPT !.pc = "iterate",
        !.index = IF th[t].op = "scan" THEN KeyIndex(page[Leaf(t)], th[t].key) ELSE 1])
    /\ UNCHANGED dict

IsEnd(t) == th[t].index > Size(page[Leaf(t)]) /\ page[Leaf(t)].next = INVALID

LeavesLeaf(t) == th[t].index + 1 > Size(page[Leaf(t)]) /\ page[Leaf(t)].next # INVALID

\* operator++ after operator*, up to the wait for the next leaf.  At the end
\* operator* throws; past the last key of another leaf GetItem asserts.
Advance(t) ==
    /\ th[t].pc = "iterate"
    /\ th[t].index <= Size(page[Leaf(t)])
    /\ LET s == [S(t) EXCEPT !.key = page[Leaf(t)].keys[th[t].index] + 1, !.index = @ + 1]
       IN  IF LeavesLeaf(t) THEN Becomes(t, WaitFor(s, page[Leaf(t)].next, "next"))
                            ELSE Becomes(t, s)
    /\ UNCHANGED dict

NextLeaf(t) ==
    /\ th[t].pc = "next"
    /\ CanLatch(t, th[t].want)
    /\ \E s \in {Unpin(S(t), ToSet(th[t].page_set), FALSE)} :
        Becomes(t, [s EXCEPT !.page_set = <<th[t].want>>, !.want = NONE, !.index = 1,
                             !.pc = "iterate"])
    /\ UNCHANGED dict

\* ~IndexIterator
Close(t) ==
    /\ th[t].pc = "iterate"
    /\ \E s \in {Unpin(S(t), ToSet(th[t].page_set), FALSE)} :
        Becomes(t, [f \in DOMAIN s |-> IF f \in DOMAIN Shared THEN s[f] ELSE Idle[f]])
    /\ UNCHANGED dict

-----------------------------------------------------------------------------
Step(t) ==
    \/ LockRoot(t) \/ Latch(t)
    \/ AtInsert(t) \/ AtParent(t)
    \/ AtDelete(t) \/ Rebalance(t) \/ AtSibling(t)
    \/ AtBegin(t) \/ Advance(t) \/ NextLeaf(t) \/ Close(t)
    \/ Release(t)

Next ==
    \E t \in Thread :
        \/ \E k \in Key : \E v \in Value[k] : Insert(t, k, v)
        \/ \E k \in Key : Delete(t, k) \/ Read(t, "read", k) \/ Read(t, "scan", k)
        \/ Read(t, "scan_all", Min(Key))
        \/ Step(t)

Spec == Init /\ [][Next]_vars

-----------------------------------------------------------------------------
(***************************************************************************)
(* Properties                                                              *)
(***************************************************************************)
PcOf == {"idle", "lock_root", "latch", "leaf", "parent", "rebalance", "sibling",
         "release", "iterate", "next"}

TypeOK ==
    /\ \A p \in PageId :
        /\ page[p].type \in {"free", "leaf", "internal"}
        /\ {page[p].parent, page[p].next} \subseteq PageId \cup {INVALID}
        /\ ToSet(page[p].keys) \subseteq Key
        /\ Size(page[p]) <= MaxSize(page[p])
    /\ pin \in [PageId -> Nat]
    /\ unsaved \subseteq PageId
    /\ root \in PageId \cup {INVALID}
    /\ header \in PageId \cup {INVALID, NoRecord}
    /\ \A t \in Thread : th[t].pc \in PcOf
    /\ \A k \in Key : dict[k] \subseteq Value[k]

\* Whatever other threads split, merge and move meanwhile, the leaf that a
\* call reaches holds its key, with its value, if and only if the index
\* does: GetValue finds what is there, Insert refuses duplicates only, and
\* Remove removes.
RightLeaf ==
    \A t \in Thread :
        th[t].pc = "leaf" /\ th[t].op \in {"read", "insert", "delete"} =>
            dict[th[t].key] =
                IF Position(t) = 0 THEN {} ELSE {page[Leaf(t)].vals[Position(t)]}

Quiet == \A t \in Thread : th[t].pc = "idle"

RECURSIVE Subtree(_)
Subtree(p) ==
    IF page[p].type = "leaf" THEN {p}
    ELSE {p} \cup UNION {Subtree(c) : c \in ToSet(page[p].vals)}

KeysBelow(p) == UNION {ToSet(page[q].keys) : q \in {r \in Subtree(p) : page[r].type = "leaf"}}

Reachable == IF root = INVALID THEN {} ELSE Subtree(root)

\* When no call runs, the pages form a search tree: every key below a child
\* lies between the keys around that child, each child knows its parent, no
\* page but the root is below its minimal size or too small for Lookup, and
\* every page is part of the tree: those merged away are deleted.
SearchTree ==
    Quiet =>
        /\ \A p \in Reachable : LET n == page[p] IN
            /\ \A i, j \in DOMAIN n.keys : i < j => n.keys[i] < n.keys[j]
            /\ p # root => Size(n) >= MinSize(n)
            /\ n.type = "internal" =>
                /\ Len(n.keys) + 1 = Size(n) /\ Size(n) > 1
                /\ \A i \in DOMAIN n.vals :
                    /\ page[n.vals[i]].parent = p
                    /\ \A k \in KeysBelow(n.vals[i]) :
                        (i > 1 => n.keys[i - 1] <= k) /\ (i < Size(n) => k < n.keys[i])
        /\ root # INVALID => IsRootPage(page[root])
        /\ \A p \in PageId \ Reachable : page[p] = Free

\* An iterator returns every pair from its first key on, once and in order:
\* the chain of leaves survives the splits and merges.
ScanInOrder ==
    \A t \in Thread :
        th[t].pc = "iterate" =>
            LET rest == {k \in Key : k >= th[t].key /\ dict[k] # {}}
                leaf == page[Leaf(t)]
            IN  IF IsEnd(t) THEN rest = {}
                ELSE /\ th[t].index \in DOMAIN leaf.keys
                     /\ leaf.keys[th[t].index] = Min(rest)

\* Every call gives back every pin and reports every page it changed to the
\* pool as dirty: no page is stuck in the pool, and no change to a page is
\* lost when the page is evicted.
PoolClean == Quiet => unsaved = {} /\ \A p \in PageId : pin[p] = 0

\* The comment on UpdateRootPageId, that it follows every change of the
\* root: the header page, from which an index is opened again, has the root.
\* A tree that was emptied and starts again breaks this (Drain = TRUE).
HeaderIsRoot == Quiet /\ root # INVALID => header = root

\* A thread that has latched a page and waits for a child of it finds the
\* page in the child's parent id, whatever other threads split and merge
\* below: the assertion of FindLeafPage, as far as the parent is still
\* latched, which it is for a writer and for an iterator.
ParentMatches ==
    \A t \in Thread :
        th[t].pc = "latch" /\ th[t].page_set # <<>> => page[th[t].want].parent = Leaf(t)

\* The same assertion in GetValue, which has given up the parent before.
\* Another thread may split or merge the parent meanwhile: it can fail.
ReaderParentMatches ==
    \A t \in Thread : th[t].from # NONE => page[Leaf(t)].parent = th[t].from

\* The threads that keep thread t waiting.
Blockers(t) ==
    CASE th[t].pc = "lock_root" -> {u \in Thread : th[u].root_is_locked}
      [] th[t].pc \in {"latch", "sibling", "next"} ->
            {u \in Thread \ {t} : /\ th[t].want \in ToSet(th[u].page_set)
                                  /\ Writer(th[t].op) \/ Writer(th[u].op)}
      [] OTHER -> {}

\* Threads never wait for each other in a circle: latches are taken from the
\* root down, and the latch of a sibling under the latch of the parent.  A
\* thread outside a call has no latch and not the root mutex.
NoDeadlock ==
    /\ \A D \in SUBSET Thread : D # {} => \E t \in D : Blockers(t) \cap D = {}
    /\ \A t \in Thread : th[t].pc = "idle" => th[t] = Idle
=============================================================================
