----------------------------- MODULE BufferPool ------------------------------
(***************************************************************************)
(* The buffer pool manager (buffer/buffer_pool_manager.cpp) with its free  *)
(* list, its LRU replacer (buffer/lru_replacer.cpp) and its page table,    *)
(* over the disk manager's page file (disk/disk_manager.cpp), as the       *)
(* engine runs it: with logging enabled.                                   *)
(*                                                                         *)
(* A latch makes every operation of the pool one step.  A client holds     *)
(* Page pointers, that is frames, and reads and writes through them while  *)
(* it has them pinned.  The content of a page is abstracted to the LSN of  *)
(* the log record of its last change: 0 is a zeroed page, whose LSN field  *)
(* reads 0.                                                                *)
(***************************************************************************)
EXTENDS Integers, Sequences, FiniteSets, Functions

CONSTANTS
    PoolSize,       \* pool_size_: number of frames
    MaxPages,       \* bound: page ids the disk manager hands out
    MaxLsn,         \* bound: log records
    Client,         \* threads that use the pool
    ForceFlush      \* FlushPage is also called for pages with unlogged changes

ASSUME PoolAssumption == PoolSize \in Nat \ {0}
ASSUME MaxPagesAssumption == MaxPages \in Nat
ASSUME MaxLsnAssumption == MaxLsn \in Nat
ASSUME ClientAssumption == IsFiniteSet(Client)
ASSUME ForceFlushAssumption == ForceFlush \in BOOLEAN

Frame == 1..PoolSize
Page == 0..(MaxPages - 1)
NoFrame == 0
InvalidPage == -1

VARIABLES
    page_id,        \* frame -> page_id_
    pin_count,      \* frame -> pin_count_
    is_dirty,       \* frame -> is_dirty_
    data,           \* frame -> version in data_
    page_table,     \* page -> frame, or NoFrame
    free_list,      \* frames never used or given back by DeletePage
    lru,            \* replacer_: unpinned frames, least recently used first
    disk,           \* the page file: data per page, size in pages, stream state
    next_page_id,   \* the disk manager's allocation counter
    next_lsn,       \* the log manager's counters
    persistent_lsn,
    held,           \* client -> page -> the frame it was given, or NoFrame
    wrote,          \* client -> pages it must unpin as dirty
    live            \* pages the clients still have a reference to

pool == <<page_id, pin_count, is_dirty, data, page_table, free_list, lru>>
log == <<next_lsn, persistent_lsn>>
clients == <<held, wrote, live>>
vars == <<pool, disk, next_page_id, log, clients>>

TypeOK ==
    /\ page_id \in [Frame -> Page \cup {InvalidPage}]
    /\ pin_count \in [Frame -> Nat]
    /\ is_dirty \in [Frame -> BOOLEAN]
    /\ data \in [Frame -> Nat]
    /\ page_table \in [Page -> Frame \cup {NoFrame}]
    /\ free_list \in Seq(Frame)
    /\ lru \in Seq(Frame)
    /\ disk \in [data : [Page -> Nat], size : Nat, good : BOOLEAN]
    /\ next_page_id \in 0..MaxPages
    /\ next_lsn \in Nat \ {0}
    /\ persistent_lsn \in (Nat \cup {-1})
    /\ held \in [Client -> [Page -> Frame \cup {NoFrame}]]
    /\ wrote \in [Client -> SUBSET Page]
    /\ live \subseteq Page

\* Log record 0 is the BEGIN of the first transaction.
Init ==
    /\ page_id = [f \in Frame |-> InvalidPage]
    /\ pin_count = [f \in Frame |-> 0]
    /\ is_dirty = [f \in Frame |-> FALSE]
    /\ data = [f \in Frame |-> 0]
    /\ page_table = [p \in Page |-> NoFrame]
    /\ free_list = [i \in 1..PoolSize |-> i]
    /\ lru = <<>>
    /\ disk = [data |-> [p \in Page |-> 0], size |-> 0, good |-> TRUE]
    /\ next_page_id = 0
    /\ next_lsn = 1
    /\ persistent_lsn = -1
    /\ held = [c \in Client |-> [p \in Page |-> NoFrame]]
    /\ wrote = [c \in Client |-> {}]
    /\ live = {}

-----------------------------------------------------------------------------
(* The page file.  A read that starts at the end of the file leaves the    *)
(* stream failed, and nothing clears it: later reads give zeros and later  *)
(* writes do nothing.                                                      *)

WritePage(d, p, v) ==
    IF d.good
    THEN [data |-> [d.data EXCEPT ![p] = v],
          size |-> IF p < d.size THEN d.size ELSE p + 1,
          good |-> TRUE]
    ELSE d

\* What ReadPage leaves in a buffer that held `old`.
ReadPage(d, p, old) ==
    IF p > d.size THEN old
    ELSE IF p < d.size /\ d.good THEN d.data[p] ELSE 0

StreamAfterRead(d, p) == IF p = d.size THEN [d EXCEPT !.good = FALSE] ELSE d

-----------------------------------------------------------------------------
(* Steps the operations share.                                             *)

\* Whether list s holds e, and s without the element at position i.
Contains(s, e) == \E i \in 1..Len(s) : s[i] = e
EraseAt(s, i) == SubSeq(s, 1, i - 1) \o SubSeq(s, i + 1, Len(s))

\* Mutant: a page that is pinned again stays in the replacer.
EraseForgotten(f) == UNCHANGED lru

\* LRUReplacer::Erase.
Erase(f) ==
    \/ ~Contains(lru, f) /\ UNCHANGED lru
    \/ \E i \in 1..Len(lru) : lru[i] = f /\ lru' = EraseAt(lru, i)

\* The frame for a page that is not resident: from the free list first.
TakeFrame(f) ==
    \/ /\ free_list # <<>>
       /\ f = Head(free_list)
       /\ free_list' = Tail(free_list)
       /\ UNCHANGED lru
    \/ /\ free_list = <<>> /\ lru # <<>>
       /\ f = Head(lru)
       /\ lru' = Tail(lru)
       /\ UNCHANGED free_list

\* Mutant: the victim is written back under the id of the page after it.
WriteBackShifted(f) ==
    IF is_dirty[f] THEN WritePage(disk, page_id[f] + 1, data[f]) ELSE disk

\* The file after the old page of frame f is written back if dirty.
WriteBack(f) ==
    IF is_dirty[f] THEN WritePage(disk, page_id[f], data[f]) ELSE disk

\* Frame f changes from its old page to page p, pinned once.
Install(f, p) ==
    /\ page_table' = [q \in Page |->
            IF q = p THEN f ELSE IF q = page_id[f] THEN NoFrame ELSE page_table[q]]
    /\ page_id' = [page_id EXCEPT ![f] = p]
    /\ is_dirty' = [is_dirty EXCEPT ![f] = FALSE]
    /\ pin_count' = [pin_count EXCEPT ![f] = 1]

\* The client gets a pointer to frame f for page p.
Pinned(c, p, f) == held' = [held EXCEPT ![c][p] = f]

-----------------------------------------------------------------------------
(* Operations of the pool.  A FetchPage or NewPage that finds every frame  *)
(* pinned returns nullptr and changes nothing.                             *)

FetchHit(c, p) ==
    LET f == page_table[p]
    IN  /\ p \in live
        /\ held[c][p] = NoFrame
        /\ f # NoFrame
        /\ pin_count' = [pin_count EXCEPT ![f] = @ + 1]
        /\ Erase(f)
        /\ Pinned(c, p, f)
        /\ UNCHANGED <<page_id, is_dirty, data, page_table, free_list, disk,
                       next_page_id, log, wrote, live>>

\* Mutant: a dirty victim is written back whatever the log has reached.
FetchMissUnlogged(c, p) ==
    /\ p \in live
    /\ held[c][p] = NoFrame
    /\ page_table[p] = NoFrame
    /\ \E f \in Frame :
        /\ TakeFrame(f)
        /\ Install(f, p)
        /\ data' = [data EXCEPT ![f] = ReadPage(WriteBack(f), p, data[f])]
        /\ disk' = StreamAfterRead(WriteBack(f), p)
        /\ Pinned(c, p, f)
    /\ UNCHANGED <<next_page_id, log, wrote, live>>

\* A dirty victim is written back once the log has been flushed up to its
\* LSN; the pool keeps its latch while it waits.
FetchMiss(c, p) ==
    /\ p \in live
    /\ held[c][p] = NoFrame
    /\ page_table[p] = NoFrame
    /\ \E f \in Frame :
        /\ TakeFrame(f)
        /\ is_dirty[f] => data[f] <= persistent_lsn
        /\ Install(f, p)
        /\ data' = [data EXCEPT ![f] = ReadPage(WriteBack(f), p, data[f])]
        /\ disk' = StreamAfterRead(WriteBack(f), p)
        /\ Pinned(c, p, f)
    /\ UNCHANGED <<next_page_id, log, wrote, live>>

NewPage(c) ==
    LET p == next_page_id
    IN  /\ p < MaxPages
        /\ \E f \in Frame :
            /\ TakeFrame(f)
            /\ next_page_id' = p + 1
            /\ is_dirty[f] => data[f] <= persistent_lsn
            /\ Install(f, p)
            /\ data' = [data EXCEPT ![f] = 0]
            /\ disk' = WriteBack(f)
            /\ Pinned(c, p, f)
        /\ wrote' = [wrote EXCEPT ![c] = @ \cup {p}]
        /\ live' = live \cup {p}
        /\ UNCHANGED log

\* Mutant: the last unpin decides the dirty flag.
UnpinPageOverwrites(c, p, dirty) ==
    LET f == page_table[p]
    IN  /\ held[c][p] # NoFrame
        /\ p \in wrote[c] \cap live => dirty
        /\ f # NoFrame /\ pin_count[f] > 0
        /\ pin_count' = [pin_count EXCEPT ![f] = @ - 1]
        /\ lru' = IF pin_count[f] = 1 THEN Append(lru, f) ELSE lru
        /\ is_dirty' = [is_dirty EXCEPT ![f] = dirty]
        /\ held' = [held EXCEPT ![c][p] = NoFrame]
        /\ wrote' = [wrote EXCEPT ![c] = @ \ {p}]
        /\ UNCHANGED <<page_id, data, page_table, free_list, disk, next_page_id,
                       log, live>>

\* Clients unpin what they hold, and as dirty what they have created or
\* changed, unless nobody will look at the page again.
UnpinPage(c, p, dirty) ==
    LET f == page_table[p]
    IN  /\ held[c][p] # NoFrame
        /\ p \in wrote[c] \cap live => dirty
        /\ f # NoFrame /\ pin_count[f] > 0
        /\ pin_count' = [pin_count EXCEPT ![f] = @ - 1]
        /\ lru' = IF pin_count[f] = 1 THEN Append(lru, f) ELSE lru
        /\ is_dirty' = [is_dirty EXCEPT ![f] = @ \/ dirty]
        /\ held' = [held EXCEPT ![c][p] = NoFrame]
        /\ wrote' = [wrote EXCEPT ![c] = @ \ {p}]
        /\ UNCHANGED <<page_id, data, page_table, free_list, disk, next_page_id,
                       log, live>>

\* No check of the log here.
FlushPage(p) ==
    LET f == page_table[p]
    IN  /\ f # NoFrame
        /\ ForceFlush \/ data[f] <= persistent_lsn
        /\ disk' = WritePage(disk, p, data[f])
        /\ UNCHANGED <<pool, next_page_id, log, clients>>

\* Mutant: the frame of a deleted page is not given back.
DeletePageLeaks(p) ==
    LET f == page_table[p]
    IN  /\ p \notin live
        /\ f # NoFrame /\ pin_count[f] = 0
        /\ page_table' = [page_table EXCEPT ![p] = NoFrame]
        /\ Erase(f)
        /\ page_id' = [page_id EXCEPT ![f] = InvalidPage]
        /\ is_dirty' = [is_dirty EXCEPT ![f] = FALSE]
        /\ UNCHANGED <<free_list, pin_count, data, disk, next_page_id, log, clients>>

\* Only pages nobody refers to any more are deleted.
DeletePage(p) ==
    LET f == page_table[p]
    IN  /\ p \notin live
        /\ f # NoFrame /\ pin_count[f] = 0
        /\ page_table' = [page_table EXCEPT ![p] = NoFrame]
        /\ Erase(f)
        /\ page_id' = [page_id EXCEPT ![f] = InvalidPage]
        /\ is_dirty' = [is_dirty EXCEPT ![f] = FALSE]
        /\ free_list' = Append(free_list, f)
        /\ UNCHANGED <<pin_count, data, disk, next_page_id, log, clients>>

-----------------------------------------------------------------------------
(* The clients and the log.                                                *)

\* A change through the page pointer, under a log record: AppendLogRecord,
\* then SetLSN.
WriteData(c, p) ==
    LET f == held[c][p]
    IN  /\ f # NoFrame
        /\ next_lsn < MaxLsn
        /\ data' = [data EXCEPT ![f] = next_lsn]
        /\ next_lsn' = next_lsn + 1
        /\ wrote' = [wrote EXCEPT ![c] = @ \cup {p}]
        /\ UNCHANGED <<page_id, pin_count, is_dirty, page_table, free_list, lru,
                       disk, next_page_id, persistent_lsn, held, live>>

\* The last reference to p goes, e.g. when a B+ tree page is merged away.
Unlink(p) ==
    /\ p \in live
    /\ live' = live \ {p}
    /\ UNCHANGED <<pool, disk, next_page_id, log, held, wrote>>

\* The flush thread makes a prefix of the log persistent.
FlushLog ==
    /\ persistent_lsn' \in (persistent_lsn + 1)..(next_lsn - 1)
    /\ UNCHANGED <<pool, disk, next_page_id, next_lsn, clients>>

Next ==
    \/ \E c \in Client, p \in Page :
        \/ FetchHit(c, p)
        \/ FetchMiss(c, p)
        \/ \E dirty \in BOOLEAN : UnpinPage(c, p, dirty)
        \/ WriteData(c, p)
    \/ \E c \in Client : NewPage(c)
    \/ \E p \in Page : FlushPage(p) \/ DeletePage(p) \/ Unlink(p)
    \/ FlushLog

Spec == Init /\ [][Next]_vars

-----------------------------------------------------------------------------
(* Properties.                                                             *)

\* Every frame is in exactly one place: free and without a page, evictable
\* (in the replacer, unpinned) or pinned; and the page table finds exactly
\* the frames that have a page.  FetchPage, UnpinPage, DeletePage and NewPage
\* move frames between these places, and an early eviction or a frame lost
\* to the pool would break it.
FramesPartitioned ==
    /\ IsInjective(free_list)
    /\ IsInjective(lru)
    /\ \A f \in Frame :
        /\ Contains(free_list, f) <=> page_id[f] = InvalidPage
        /\ Contains(lru, f) <=> page_id[f] # InvalidPage /\ pin_count[f] = 0
        /\ page_id[f] = InvalidPage => pin_count[f] = 0 /\ ~is_dirty[f]
    /\ \A p \in Page, f \in Frame : page_table[p] = f <=> page_id[f] = p

Holders(f) == {c \in Client : \E p \in Page : held[c][p] = f}

\* A frame a client holds a pointer to keeps the page the client asked for:
\* the pin count is the number of holders, and no eviction, deletion or unpin
\* by another client takes the frame away from under it.
PinsProtect ==
    /\ \A c \in Client, p \in Page :
            held[c][p] # NoFrame => page_id[held[c][p]] = p
    /\ \A f \in Frame : pin_count[f] = Cardinality(Holders(f))

\* Write-ahead logging: no page in the file carries a change whose log
\* record is not persistent, which FetchPage and NewPage wait for.
WriteAhead == \A p \in Page : disk.data[p] > 0 => disk.data[p] <= persistent_lsn

\* What may be dropped without being written: a live page that is not dirty,
\* and that no client has changed under its pin, has its content in the file,
\* and one that is not resident can be read back.  The page file is never read
\* at or beyond its end, so its stream is good.
Coherent ==
    /\ disk.good
    /\ \A p \in Page : p >= next_page_id => page_table[p] = NoFrame /\ p \notin live
    /\ \A c \in Client : \A p \in wrote[c] : held[c][p] # NoFrame
    /\ \A p \in live :
        \/ page_table[p] # NoFrame
           /\ (is_dirty[page_table[p]] \/ \E c \in Client : p \in wrote[c])
        \/ /\ p < disk.size
           /\ page_table[p] # NoFrame => data[page_table[p]] = disk.data[p]

\* The content of page p: in its frame if it is resident, else in the file.
Content(p) == IF page_table[p] # NoFrame THEN data[page_table[p]] ELSE disk.data[p]

\* What client c reads of page p through the pointer it was given.
View(c, p) == IF held[c][p] = NoFrame THEN -1 ELSE data[held[c][p]]

\* The pool implements the page store: a page a client fetches has the content
\* that was last written to it, however often it was evicted and read back, and
\* while the client holds it nothing but a client's write changes what it reads.
Store == INSTANCE PageStore
    WITH store <- [p \in live |-> Content(p)],
         changes <- next_lsn,
         seen <- [c \in Client |-> [p \in Page |-> View(c, p)]]
StoreSpec == Store!Spec
=============================================================================
