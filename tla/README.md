# Verification of the lengine storage engine

TLA+ models, TLC configurations and TLAPS proofs for the storage engine in
`src/project/src`: a page-based engine with a buffer pool, tuple locks, a
write-ahead log and B+ tree indexes that SQLite uses through a virtual table.
Paths below are relative to `src/project/src`.

## 1. The system

| Part | Source | State it owns | Operations | Concurrency, failures |
|---|---|---|---|---|
| Lock manager | `concurrency/lock_manager.cpp` | per rid: request list, `exclusive_cnt`, `oldest` | LockShared, LockExclusive, LockUpgrade, Unlock | one mutex, condition variable per rid, wait-die |
| Transaction manager | `concurrency/transaction_manager.cpp` | transaction state, lock sets, write set | Begin, Commit, Abort | commit waits for the log |
| Buffer pool | `buffer/buffer_pool_manager.cpp` | frames, page table, free list | FetchPage, UnpinPage, FlushPage, NewPage, DeletePage | one latch; an eviction waits for the log |
| LRU replacer | `buffer/lru_replacer.cpp` | list of evictable frames | Insert, Victim, Erase | under the pool's latch |
| Disk manager | `disk/disk_manager.cpp` | page file, log file, next page id | ReadPage, WritePage, AllocatePage, ReadLog, WriteLog | stream state survives a failed read |
| Extendible hash | `hash/extendible_hash.cpp` | directory, buckets | Find, Insert, Remove | one mutex |
| Log manager | `logging/log_manager.cpp` | log and flush buffer, LSN counters | AppendLogRecord, flush thread, WakeupFlushThread | flush thread, timeout, promise |
| Log recovery | `logging/log_recovery.cpp` | active transactions, LSN map | Redo, Undo | after a crash |
| Table page | `page/table_page.cpp` | slots, offsets, free space pointer | Insert, MarkDelete, Update, ApplyDelete, RollbackDelete | page latch |
| Table heap, iterator | `table/*.cpp` | list of pages | the same per table; scan | latches, locks, pins |
| B+ tree, iterator | `index/*.cpp`, `page/b_plus_tree_*` | tree of pages, root id | Insert, Remove, GetValue, scan | latch crabbing |
| Header page | `page/header_page.cpp` | name/root records | insert, delete, update, find | page latch |
| Reader-writer mutex | `include/common/rwmutex.h` | reader count, writer flag | RLock, RUnlock, WLock, WUnlock | two condition variables |
| Virtual table | `vtable/virtual_table.cpp` | the engine, the current transaction | SQLite's callbacks | no recovery, no rollback callback |
| Types, catalog, utilities | `type/`, `catalog/`, `common/` | none | values, schemas, logging | none |

SQLite's callbacks begin a transaction and call the table heap and the index.
The heap fetches pages from the buffer pool, latches them, and lets the table
page ask the lock manager for the tuple's lock and the log manager for a log
record before it changes bytes. Commit and Abort walk the write set, append a
record, wait until it is persistent and release the locks. The pool evicts a
dirty page only when the log is persistent up to the page's LSN.

## 2. The modules

Ten models, each with an MC module for TLC where a configuration file cannot give the
constants their values.
Modules named `...Proofs` hold theorems only (section 4); where one of them covers
several components, the definitions of one component carry its prefix (`LogInit`,
`RWNext`).

### LockManager, LockHistory (lock manager)

`LockManager` has one action per lock call. The mutex makes a call atomic up to
the point where it sleeps on the condition variable; a call that sleeps is in
`call[t]`, notified threads are in `notified`, and `Wake` re-tests the predicate
of `cond.wait`. `SpuriousWakeup` is the freedom the library has. `lock_table`
holds the requests in list order, so the position at which LockUpgrade reinserts
its request is kept. `exclusive_cnt` is a `size_t`: its arithmetic is modulo
`CntMod`. `EndTransaction` is the state change at the start of Commit or Abort;
locks are then released by `Unlock` one at a time, in any order, as the loop over
the unordered set does. Clients ask for a lock they do not have and upgrade one
they have shared, as `page/table_page.cpp` does. `Strict` is `strict_2PL_`.

`LockHistory` adds two history variables, the rids a transaction has ever held
and the order of conflicting locks, and states conflict serializability.

### TableHeap (table heap, transaction manager; extends LockManager)

The composition: operations of `table/table_heap.cpp` with what they call in the
table page, the lock manager's own actions, and Begin, Commit and Abort. An
operation holds one page latch, also while it sleeps in a lock call, so it is one
step if the lock is granted at once and two otherwise. Commit and Abort work off
the write set record by record in the code's order, append their record, wait for
the log (`FlushLog`) and release the locks one by one. A failed assertion or an
uncaught exception ends the process (`crashed`). The bytes of a page are in
`TablePage`; here a page is its slots and `free_space`, the bytes between the slots
and the free space pointer. `db` and `writer` are ghosts: what the committed
transactions have left.

### TablePage, TupleMap (table page)

`TablePage` is one slotted page: the slots with offset and size, the free space
pointer, and the bytes. The operations copy and move bytes as the `memcpy` and
`memmove` calls do, and rewrite the offsets of the other slots. A marked tuple has
a negative size. The page latch makes an operation a step. The lock calls inside
the operations are in `TableHeap`, the log records in `Recovery`.

`TupleMap` is the promise: a sequence of slots, each empty, visible or marked,
with its tuple. The refinement reads the bytes back (`TupleAt`, as GetTuple does).
UpdateTuple does not adjust the offsets of marked tuples (`page/table_page.cpp:228`),
so the refinement holds only if a tuple is not resized while a marked one lies
below it; `ResizeWhileMarked` says whether that happens.

### BufferPool, PageStore (buffer pool, LRU replacer, page file)

`BufferPool` has one action per operation of the pool, FetchPage split into a hit
and a miss. The latch makes each one a step. The wait for the log in an eviction
is a guard on the step. The content of a page is the LSN of the record of its
last change, 0 for a zeroed page; this is what write-ahead logging and "the
content last written" tell apart. The page file keeps its size and the state of
its stream, since a read at the end of the file makes every later access fail.
Clients hold frames, write through them while they are pinned, and unpin as dirty
what they changed, as all callers in the engine do (`wrote`). `live` are the pages
that are still referred to; only others are deleted (`index/b_plus_tree.cpp`).

`PageStore` is the promise to the clients: a set of pages, each with the content
last written, which changes in a client's write to a page it holds and in no other
step. `BufferPool!StoreSpec` is the refinement; a page's content is in its frame if it
is resident and in the file if not, so that an eviction, a fetch or a flush that loses
or mixes up contents is not a step of the store.

### LogManager (log manager, log file)

`LogManager` has the two buffers with the LSN that fills each byte, the offset and
the counters. AppendLogRecord and WakeupFlushThread are steps, since they hold the
latch. A round of the flush thread is: timeout or notification; latch, swap, copy
`flush_lsn_`, unlock; test and take `flush_buffer_`; write the whole buffer; set
`persistent_lsn_`; set the promise. Clients append, swap and test between any two of
these. A notification is lost when the thread does not wait; a wait may also end
without a reason (`SpuriousWakeup`). The pool's test of `persistent_lsn_` (`Evict`) and
its WakeupFlushThread are two steps, and the LSN it tests is that of a record or, for
the header page, the first bytes of an index's name (`NameLsn`). WriteLog's assertion
and a promise that is set twice end the process (`thread = "dead"`). The size of every
appended record is kept so that "record l is whole in this image" can be said. Write
errors are left out.

Nothing in the code keeps a second swap away from a buffer that still waits to be
written, and the thread also writes when nothing was swapped. The ghost `ordered` says
that neither has happened so far: each buffer was written after the swap that handed it
over (`handed`) and before the next one, with a `flush_lsn_` that came from a swap. The
safety properties of `log_manager` are conditional on it, its liveness properties are
not; section 5 has what happens otherwise.

### Recovery (log recovery, and the records the table page writes)

Transactions change the first page of a table and log each change; log buffers and the
page reach the disk at any time the write-ahead rule allows; the process dies at any
step after its first flush, also within Redo and between Redo and Undo; a new one runs
Redo record by record, Undo, and transactions again. `Unwritten` says whether it may die
before a page behind the header page was first written, `Again` whether such a page is
recovered a second time; Redo fails on both (section 5). LSNs, transaction ids and page
ids start at 0 in each process, as in the code. The log file is a sequence of chunks of
the buffer's size, since a flush writes the whole buffer; behind the records of a chunk
are zeros or what the buffer held before, which the ghost `leftover` notes. `first` says
whether the table's page is page 0. Undo calls ReadLog with size and offset swapped, so
it either finds zeros or overruns its buffer; its loop is not reached and is not
modelled. `durable`, `committed` and `changers` are ghosts: the page after the last
record in the file, what the committed transactions left in a slot, and who changed a
slot and has not returned from Commit or Abort. Several may have: ApplyDelete lets go of
the lock of a slot it emptied before the COMMIT record is written, so that others insert
there meanwhile.

### RWMutex, Latch (reader-writer mutex)

`RWMutex` has the reader count, the writer flag and, per thread, where it is in
RLock or WLock and on which of the two condition variables it sleeps. `Latch` is
the promise, readers or one writer, and what the page latches are in `BPlusTree`
and `TableHeap`. `RWMutex!LatchSpec` is the refinement.

### BPlusTreePages, BPlusTreeOps, BPlusTree (B+ tree, iterator, header record)

`BPlusTreePages` has the operations of leaf and internal pages, `BPlusTreeOps`
those of the tree on a state record (fetch with its pin, split, merge, loan, new
root), and `BPlusTree` the threads. A step is what a thread does between two waits
for a latch or the root mutex. Pins, dirty flags, the pages latched on the way down
(`page_set`), those to be deleted, the root mutex and the parent ids are kept. `dict`
is a ghost: the pairs in the index. Five switches leave out behaviour on which the
code fails (section 5): `LendFirst`, `ScanPast`, `Drain` and `Scans` with several
threads, and `Race`. A reader compares the parent id of a page after it has given up the
parent, which `from` remembers. The pool never runs out of frames.

### ExtendibleHash, HashTable (extendible hash)

The directory, the buckets with their depth and id, and both counters; Insert splits
a bucket on as many bits as it takes, which is a recursion over depths. `HashTable`
is the map it promises (`TableSpec`). A key is its own hash, as the standard library
has it for the integers and pointers the engine uses, so no bucket overflows.

### IntegerTypes (integer values)

Operators for the arithmetic and the casts of the four integer types, with the type
C++ computes in, wrapping around, the tests for overflow made afterwards, and NULL,
which is the lowest number of a type. The four source files differ in the type only;
operands of type DECIMAL and VARCHAR are left out. There is no state and no run: the
theorems hold for all widths and values. Before they were proved, TLC compared the
operators with `Exact` for all values of 2, 3, 6 and 7 bits.

## 3. Runs

| Run | Instance | Shows |
|---|---|---|
| `lock_strict` | 3 transactions, 2 rids, all calls, strict 2PL | exclusive locks exclude; lock sets and queues agree; no lost wakeup |
| `lock_wait_die` | 3 transactions, 2 rids, no upgrades, early release | conflict serializability; waits only for younger transactions; a shared lock protects; exact `exclusive_cnt`; every call returns |
| `table_heap` | 2 transactions with 3 writes each, 2 pages of one slot | unlocked tuples are the committed ones; reads are stable and durable |
| `table_page` | page of 10 bytes, header and slots of 1, tuples of 1 to 3 bytes | no overlap; implements TupleMap |
| `buffer_pool` | 2 clients, 2 frames, 3 pages, LSNs up to 3 | frames partitioned; pins protect; clean pages are in the file; write-ahead; implements PageStore |
| `log_manager` | 4 records of 1 or 2 bytes, buffers of 3, every interleaving | every record becomes persistent and a waiting pool is told of the write, or the process is aborted; while `ordered`, persistent records are in the file and the file is a prefix of the log |
| `log_race` | the same; a violation | the thread writes before the first swap: `persistent_lsn_` covers a record that is not in the file |
| `recovery` | 2 transactions with a write each, 2 slots, 7 records, 3 flushes per process, 2 crashes | Redo restores the page of the last record in the file; what was committed is there; both unless old records were flushed behind new ones |
| `rwmutex` | 4 threads | implements Latch; no lost wakeup; an entered writer gets the latch; sleepers wake |
| `b_plus_tree` | 1 thread, 10 keys, leaves of 4, internal pages of 3 | calls reach the right leaf; a search tree of filled pages; scans in order from any key the leaf does not end before |
| `b_plus_tree_latch` | 2 threads, 5 keys, leaves of 2 | right leaf under interleaving; parent ids; no circle of waits; pins and dirty flags; the header record of a tree that is never emptied |
| `extendible_hash` | 7 keys, buckets of 2 | the directory is sound; implements HashTable |

Bounds. Three transactions are the least for which a queue has a holder, a waiter
and a third that sees both; two rids are the least for a cycle of waits. Two
frames for three pages force evictions of clean and dirty pages while one frame is
pinned; LSNs up to 3 (`MaxLsn`) let a page be changed before and after its
eviction, and `MaxPages` caps the allocation counter. The ten bytes of the page hold
up to four tuples, so that it fills up with and without a free slot and tuples move
up and down past others. Buffers of three bytes are filled exactly, left with a
byte, or refuse a record, and four records (`MaxRecords`) let a buffer be swapped again
before and after it was written; the header page's name is an LSN above all of theirs.
Each key of a tree has a value of its own, the first one two. Ten
keys in leaves of four give three levels, so that splits, merges and loans reach the
root and internal pages. With leaves of two pairs, two threads split and merge at
every level within five keys; such leaves only merge, and loans are in
`b_plus_tree`. Seven keys that differ in low or only in high bits split a bucket on
one bit and on several. In `recovery` a transaction writes once (`MaxWrites`), later
processes have fewer transactions, and the third flush (`MaxFlushes`) reuses a log
buffer, which is then full or has old records behind the new ones; two crashes let
recovery itself be interrupted. The rids of `lock_strict`, the clients of `buffer_pool` and
the tuples of `recovery` are symmetric; transactions are not, since their ids
are ages. Deadlock is not checked where transactions end and bounded counters run
out; it is in `rwmutex`, both B+ tree runs, and `extendible_hash`.

Larger instances that were checked once, without an error: `TableHeap` with 3
transactions on one page of two slots, 3 on two pages of one slot with `MaxWrites = 2`,
and 2 on two pages of two slots (5.9, 8.8 and 12.8 million states);
`ExtendibleHash` with 8 keys (1.0 million); `Recovery` with two writes per
transaction, one crash and 9 records (15.0 million), with one tuple, 9 records and two
crashes (4.5 million), and with three transactions that change the same slot one after
the other (16.5 million).

`lock_wait_die` runs with early release, whose schedules include the strict ones
but for the refusal of an early Unlock, which `lock_strict` has. `ExclusiveCntExact`
holds only without upgrades: LockUpgrade does not count its request.

Fairness. `LockManager!LiveSpec`: a notified thread runs (weak fairness of `Wake`), a
running transaction ends at some time, and one that has ended releases its locks: Commit
and Abort have no other step to wait for there. Nothing is assumed of the lock calls
themselves. `LogManager!LogLiveSpec`: the flush thread runs, and `wait_for` times out;
nothing is assumed of appends and evictions. `RWMutex!RWLiveSpec`: a thread that is
awake runs, and one that holds the latch releases it; nobody has to ask for it. The
other specifications state no fairness, and safety only is checked of them.

## 4. Proofs

Each theorem holds for all values of the constants that meet the named assumptions of
the component's module (`ASSUME ...Assumption`, which TLC evaluates) and the condition
in the theorem's statement. A condition names what the code or its clients must not do
for the property to hold; section 5 has the behaviours on the other side of it. TLC
has checked the inductive invariants as well: `HInv` and `Core` on the instances of
`lock_wait_die` and `table_heap`, `RInv` on one smaller than `recovery`; the conjuncts
of the others are mostly properties of the runs.

| Module | Theorems | Condition |
|---|---|---|
| `LockManagerProofs` | `TypeCorrect`, `LockCompatibility`, `RequestsAccounted`, `LockSetsTruthful` | |
| `LockOrderProofs` | `NoLostWakeups` | |
| | `WaitDieOrder`, `SharedSetsProtect`, `CountExact` | `Counts`, `NoUpgrade` |
| | `ConflictSerializable` | `NoUpgrade` |
| `TableRowProofs`, `TableHeapProofs` | `AtomicTransactions`, `RepeatableReads`, `DurableBeforeRead` | `Disciplined` |
| `RecoveryLogProofs`, `RecoveryProofs` | `RedoRepeatsHistory`, `Durability` | `Sound` |
| `BufferPoolProofs` | `TypeCorrect`, `FramesNeverLost`, `PinnedPagesStay`, `CleanPagesOnDisk`, the refinement `PoolIsPageStore` | |
| | `LogBeforeData` | `~ForceFlush` |
| | `RWTypeCorrect`, the refinement `LatchCorrect` | |
| | `NoLostWakeups` of the latch | `FewThreads` |
| `StorageProofs` | `AddExact`, `SubtractExact`, `MultiplyExact`, `DivideModuloExact`, `CastExact` | `Widths` |
| | `TypeCorrect`, `TuplesNeverOverlap`, the refinement `PageIsTupleMap` | `~ResizeWhileMarked` |
| | `LogTypeCorrect` | |
| | `PersistentIsOnDisk`, `LogIsPrefix` | `ordered`, within the properties |

**Locks.** The inductive invariant joins `GrantOrder` (granted requests come first and an
exclusive one is alone) with `RequestsOwned` (a request belongs to a lock in a lock set
or to a sleeping call, once), `BlockedQueued` and `LockSetsBacked`: a grant is compatible
only because the request it grants is the caller's one request, and that needs all four.
`NoLostWakeup` is then inductive relative to it: a step that makes a sleeper's predicate
true removes or grants a request, and each of these notifies.

Wait-die is proved for any finite set of transactions smaller than `CntMod` (`Counts`).
The invariant says of every entry that `exclusive_cnt` is the number of transactions
with an exclusive request, that `oldest` is no younger than any of them, and that of two
requests one of which is exclusive the later one belongs to the older transaction
(`Fits`). An append keeps it because a younger transaction than `oldest` dies; an
erasure, because it keeps the order and only `oldest` may become stale.

Serializability is proved for any sets of transactions and rids, with early release.
`HInv` adds that a growing transaction still has every lock it was ever granted (`Kept`)
and that a transaction some other one had to come after no longer grows (`Over`). New
conflicts then lead from transactions that are over to one that has gone nowhere yet, so
that no set in which each member has a predecessor can arise.

**Table heap.** `Disciplined` clients do not upgrade locks, do not commit a transaction
that an operation has aborted, and use tuples of one size. The invariant `HeapInv` is the
lock manager's invariant, which every step of the table preserves because it contains one
lock manager call at most, with `Core`, or with a failed assertion. `Core` relates each
slot to the transaction that has it locked: the records of a rid in a write set are an
INSERT, UPDATEs and DELETEs in this order (`Shaped`), each covered by its lock (`Covered`),
the first of them says what the committed transactions left there (`Owner`, `Origin`), and
a slot nobody has locked shows just that (`Settled`). This is what working off the write
set from its end preserves. Two corners of the code make it longer: MarkDelete records a
DELETE also of a tuple that was already marked or has gone, so a rid may have several; and
InsertTuple writes its tuple before it has the lock, so that while it sleeps with the page
latch the slot is nobody's (`Inserting`, `Stuck`, `Fresh`, `Latched`). `SharedReads` and
`Durable` are the other two theorems in inductive form. Each action has one lemma.

**Recovery.** `Sound` is `~Again /\ ~Unwritten`: no second recovery of a page behind the
header page, whose LSN Redo does not set, and no crash before such a page was first
written. The properties themselves exclude a log file with old records behind new ones
(`leftover`), so that `RInv` is kept until such an image is written and nothing is claimed
from then on (`KeptInv`). Slots, transactions, records, writes, flushes and crashes are
unbounded. The heart of `RInv` is
`Logged`: there is a history `h` that gives the page before every record in the file and
the buffer, such that each record leads from one to the next (`Follows`); the page in the
file is one at which a chunk starts (`AtChunk`), because the pool writes it only behind
its records and the flush takes whole buffers; and Redo's page is the one of the history
at its cursor (`AtCursor`), once the records older than the page are passed. That Redo
chooses slots of insertions again is harmless as it chooses on the same page. `Rows` has
what the write sets still allow to undo or apply (`Undoable`, `Appliable`, `Clean`), and
that a slot differs from what the file has only if somebody who changed it still waits
for the log (`Slots`). `Durability` follows at the crash, where the file's last page, not
the lost one, becomes what Redo must reach.

**Buffer pool and latch.** The pool's invariant joins `FramesPartitioned`, `PinsProtect`
and `Coherent`, for any finite set of clients: a victim comes from a list, so the
partition makes it unpinned; the pin count is the number of holders, so it has no holder
and hence no client with an unmarked change; then `Coherent` says a clean victim is in
the file. The latch's invariant (`RWInv`) says that the count is the number of readers
inside, that the flag stands for one entered writer, and that a writer has the latch only
without readers; `FewThreads` are fewer than `max_readers_`.

**Rows, pages, log.** For the integer types either the computation is in the type of the
result, or it is in a type so wide that nothing wraps around (`ResultType`). In the first
case a wrapped sum has the wrong sign, and a wrapped product is at least 2^w away from
the product, so that its quotient by the right factor, which is below 2^(w-1), is not the
left one. For the page the invariant is `TypeOK` with `Layout`; UpdateTuple and
ApplyDelete share the lemma `ShiftInv`: every other tuple ends below the changed one and
moves with its bytes, or starts above it and stays; that no tuple straddles it is
`Layout`. For the log, `LogInv` follows a record from `log_buffer_` to the file: records
above `handed` are whole in the log buffer, those between `filed` and `handed` in the
flush buffer (`Buffered`), and those up to `filed` in an image in the file (`Filed`), where
no image has a record younger than that (`Images`); `persistent_lsn_` never passes `filed`
(`Counters`). It is kept by every step after which swaps and writes still alternate
(`ordered`), and once they do not, they never do again (`OrderLost`).

Only model-checked:

- the liveness properties (`EveryCallReturns`, `CommitReturns`, `EvictionTold`,
  `EnteredWriterGetsLatch`, `SleepersWake`): TLAPS does not reason about fairness;
- the B+ tree: its invariants (`SearchTree`, `RightLeaf`, `ParentMatches` and the others)
  speak of paths of any length from the root, and its operators recurse down the tree, so
  that a proof needs induction over the tree;
- the hash table: `split` recurses on the depth, and the directory has 2^depth entries.

## 5. Known deviations, and how to see them

The passing runs leave out what the code gets wrong; these are the ways to see it.
The files named here are configurations that TLC refutes.

| What | Where | See |
|---|---|---|
| The flush thread writes before the first swap, with the `flush_lsn_` of the constructor: `persistent_lsn_` covers record 0, which is not in the file | `logging/log_manager.cpp:25`, `include/logging/log_manager.h:23` | run `log_race` |
| Two swaps before a write, by two appends that find the buffer full or by the pool: records are lost although `persistent_lsn_` covers them | `logging/log_manager.cpp:80`, `:119` | `FlushedOnDisk` as the invariant in `LogRace.cfg` |
| The flush thread finds a record to write but no new swap, and WriteLog gets the same buffer again: its assertion ends the process | `logging/log_manager.cpp:31`, `disk/disk_manager.cpp:111` | `LogAssertion.cfg` |
| The pool waits for a promise nobody sets: its test was out of date when it got the latch, or it took the name in the header page for an LSN | `buffer/buffer_pool_manager.cpp:85`, `page/header_page.cpp:20` | `LogEviction.cfg`; with `NameLsn = {}` for the first alone |
| Two transactions that upgrade the same lock wait for each other | `concurrency/lock_manager.cpp`, LockUpgrade | `UpgradeNoDeadlock.cfg` |
| A waiting upgrade has lost its shared lock | the same | `UpgradeSharedSetProtects.cfg` |
| A stale `oldest` kills a transaction on a free rid | `concurrency/lock_manager.cpp:77` | `FreeRidGranted.cfg` |
| A tuple is resized above a marked one, whose rollback brings back other bytes | `page/table_page.cpp:228` | `TablePageMarked.cfg` |
| A leaf that lends its first pair puts the key of that pair, not its new first key, in the parent | `page/b_plus_tree_leaf_page.cpp:289` | `BPlusTreeLend.cfg` |
| Undo swaps ReadLog's arguments: losers are not undone | `logging/log_recovery.cpp:205`, `:255` | `RecoveryUndo.cfg` |
| Redo does not set the page's LSN, and LSNs restart at 0 | `logging/log_recovery.cpp` | `Again = TRUE` in `Recovery.cfg` |
| Records left in a reused log buffer are replayed | the same | `RecoveryLeftover.cfg` |
| A table page that was never written before the crash is read as zeros, and Redo's InsertTuple fails its assertion | `logging/log_recovery.cpp:106` | `RecoveryUnwritten.cfg` |
| An emptied tree that starts again is not recorded: the header page refuses a second InsertRecord, against the comment on UpdateRootPageId that it follows every change of the root | `index/b_plus_tree.cpp:120`, `:764`, `page/header_page.cpp:22` | `BPlusTreeHeader.cfg` |
| `Begin(key)` with a key behind the last one of its leaf gives an iterator that is not at its end and has no pair | `index/b_plus_tree.cpp:606`, `index/index_iterator.cpp:31`, `page/b_plus_tree_leaf_page.cpp:94` | `BPlusTreeScan.cfg` |
| A reader asserts the parent id of a page after it has given up the parent, which another thread may split meanwhile | `index/b_plus_tree.cpp:733`, `:744` | `BPlusTreeParent.cfg` |
| A reader uses a root that is split meanwhile | `index/b_plus_tree.cpp` | `Race = TRUE` in `BPlusTreeLatch.cfg` |
| A lookup in an emptied tree keeps the root mutex | the same, FindLeafPage | `Drain = TRUE` in `BPlusTreeLatch.cfg`, with `NoDeadlock` as the only invariant |
| Iterators latch leaves to the right, a merge to the left | `index/b_plus_tree.cpp:429` | `Scans = TRUE` in `BPlusTreeLatch.cfg` |
| A MarkDelete that the page refuses is added to the write set all the same | `table/table_heap.cpp:95` | `"U"` in `Calls` of `TableHeap.cfg` |
| An aborted transaction is committed by the virtual table | `vtable/virtual_table.cpp:309` | `CommitAborted = TRUE` in `TableHeap.cfg` |
| Abort ignores that UpdateTuple finds no space to roll back a shrinking update | `concurrency/transaction_manager.cpp:78` | `Tuple <- MCTwoSizes`, `MaxPages = 1`, `SlotCount = 2`, `PageSpace = 4` in `TableHeap.cfg` |
| A delete is applied or rolled back without an exclusive lock | `page/table_page.cpp:261`, `:301` | `DeletesLocked` as an invariant in `TableHeap.cfg` |
| A sum, difference or product that is the lowest number of its type is returned, and is NULL | `include/type/integer_parent_type.h:97` | `Exact` in `IntegerTypes` |
| A transaction sleeps for a tuple lock with the page latch in hand | `page/table_page.cpp:132` | `NoLatchDeadlock` as an invariant in `TableHeap.cfg` |

Seen while reading, and not modelled: Redo does not initialise the second page of a
table (`log_recovery.cpp:168`) and re-creates page 0, which in a database is the header
page (`:158`); `Begin` on an empty tree gives an iterator whose destructor fails
(`index_iterator.cpp:23`); NewPage failing in a split throws with latches held
(`b_plus_tree.cpp:199`, `:269`); the table iterator takes the read latch twice
(`table_iterator.cpp:33`, `:52`); and at `UINT_MAX` readers two RUnlocks may notify one
sleeper.

## 6. Not modelled

- SQLite itself, which is vendored and most of the lines under `src/`. The engine is
  about 11,000 lines, so the map's share of all lines stays small.
- Decimals, strings and booleans, tuples, schemas, catalog and utilities: no state.
- The virtual table's callbacks: they call the parts above, and the clients of
  `TableHeap` and `BPlusTree` make the same calls.
- The table iterator beyond GetTuple, several indexes in one header page, hash
  buckets that overflow, starting and stopping the flush thread, write errors of the
  log file, and the pool running out of frames under the B+ tree.
- The loop of Undo, and recovery of tables with several pages.

## 7. Plan

1. `FlushLog` of `BufferPool`, `TableHeap` and `Recovery` as an abstraction that
   `LogManager` is shown to implement.
2. The tuples of `TableHeap` of several sizes with an undo that cannot run out of space,
   which would drop the last part of `Disciplined`.
3. The table iterator on `TableHeap`, and the virtual table's transactions.
