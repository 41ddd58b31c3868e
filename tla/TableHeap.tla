------------------------------ MODULE TableHeap ------------------------------
(***************************************************************************)
(* Transactions on a table: the operations of table/table_heap.cpp with    *)
(* what they call in page/table_page.cpp, and Begin, Commit and Abort of   *)
(* concurrency/transaction_manager.cpp, on top of the lock manager, with   *)
(* logging on.                                                             *)
(*                                                                         *)
(* An operation holds the latch of one page from its first look at the     *)
(* page to its end, also while it sleeps in a lock call.  It is a step if  *)
(* the lock call returns at once, and two steps, with the latch held in    *)
(* between, if it sleeps.  So the latches held between steps are those of  *)
(* the sleepers.  TablePage has the bytes of a page; here a page is its    *)
(* slots and the size of its free space.                                   *)
(*                                                                         *)
(* A failed assertion or an uncaught exception ends the process: crashed.  *)
(***************************************************************************)
EXTENDS LockManager

CONSTANTS
    Tuple,          \* pairs of a size and a content; a tuple is never empty
    SlotCount,      \* slots there can be in a page
    MaxPages,       \* pages the pool has for the table
    PageSpace,      \* bytes of a page for tuples and slots
    SlotSize,       \* bytes of a slot (8 in the code)
    MaxWrites,      \* bound: write records of a transaction
    CommitAborted   \* clients commit without a look at the state, too

ASSUME RidAssumption == Rid = (1..MaxPages) \X (1..SlotCount)
ASSUME SpaceAssumption ==
    {SlotCount, MaxPages, PageSpace, SlotSize, MaxWrites} \subseteq Nat \ {0}
ASSUME TupleAssumption == \A tu \in Tuple : tu[1] \in Nat \ {0}
ASSUME CommitAbortedAssumption == CommitAborted \in BOOLEAN

VARIABLES
    slot,           \* rid -> the slot and its tuple
    free_space,     \* page -> bytes between its slots and its tuples
    last_page,      \* pages of the table
    pending,        \* txn -> the operation of the table that is under way
    write_set,      \* txn -> write_set_
    phase,          \* txn -> where it is in Commit or Abort
    todo,           \* txn -> locks Commit and Abort still have to release
    log,            \* the COMMIT and ABORT records in the log
    persistent,     \* how many of them are on disk
    crashed,
    db,             \* what the committed transactions have left in each slot
    writer          \* who wrote that

slotVars == <<slot, free_space>>
tableVars == <<slotVars, last_page>>
endVars == <<phase, todo, log, persistent, db, writer>>
heapVars == <<tableVars, pending, write_set, endVars, crashed>>
allVars == <<vars, heapVars>>

NoTuple == <<0, 0>>
NoTxnYet == -1

\* "unused": beyond the tuple count.  "empty": size 0.  "marked": size < 0.
Unused == [st |-> "unused", tuple |-> NoTuple]
Empty == [st |-> "empty", tuple |-> NoTuple]
Live(tu) == [st |-> "live", tuple |-> tu]

NoOp == [op |-> "none", page |-> 0, tuple |-> NoTuple]
WriteRecord(r, wtype, tu) == [rid |-> r, wtype |-> wtype, tuple |-> tu]

\* The table is new, or was opened with tuples on its first page.
HeapInit ==
    /\ Init
    /\ \E n \in 0..SlotCount, tu \in Tuple :
        LET there == {1} \X (1..n)
        IN  /\ tu[1] * n + SlotSize * n <= PageSpace
            /\ slot = [r \in Rid |-> IF r \in there THEN Live(tu) ELSE Unused]
            /\ db = [r \in Rid |-> IF r \in there THEN tu ELSE NoTuple]
            /\ free_space = [p \in 1..MaxPages |->
                    PageSpace - (IF p = 1 THEN tu[1] * n + SlotSize * n ELSE 0)]
    /\ last_page = 1
    /\ pending = [t \in Txn |-> NoOp]
    /\ write_set = [t \in Txn |-> <<>>]
    /\ phase = [t \in Txn |-> "run"]
    /\ todo = [t \in Txn |-> {}]
    /\ log = <<>>
    /\ persistent = 0
    /\ crashed = FALSE
    /\ writer = [r \in Rid |-> NoTxnYet]

-----------------------------------------------------------------------------
(* Latches, locks and space.                                               *)

\* The transactions that sleep in a lock call with the latch of page p.
Latching(p) == {t \in Txn : call[t] # NotBlocked /\ call[t].rid[1] = p}

CanRLatch(p) == \A t \in Latching(p) : pending[t].op = "get"
CanWLatch(p) == Latching(p) = {}

SlotsOf(p) == {r \in Rid : r[1] = p}

\* SetFreeSpacePointer: page p gives up the bytes `more` and gets back `less`.
SetFreeSpace(p, more, less) == free_space' = [free_space EXCEPT ![p] = @ - more + less]

\* Mutant: a shared lock is taken for one that allows to write.
HeldShared(t, r, m) == r \in shared[t] \cup exclusive[t]

\* The transaction needs no lock call.
Held(t, r, m) == r \in exclusive[t] \/ (m = "S" /\ r \in shared[t])

\* The lock calls of MarkDelete and UpdateTuple (m = "X") and GetTuple ("S").
\* ret' tells whether the call returned, and what.
AskFor(t, r, m) ==
    \/ /\ Held(t, r, m)
       /\ ret' = [ret EXCEPT ![t] = "true"]
       /\ UNCHANGED <<lock_table, state, shared, exclusive, call, notified>>
    \/ m = "S" /\ LockShared(t, r)
    \/ m = "X" /\ LockUpgrade(t, r)
    \/ m = "X" /\ LockExclusive(t, r)

\* `txn->SetState(ABORTED)` without a lock call.
SetAborted(t) ==
    /\ state' = [state EXCEPT ![t] = "ABORTED"]
    /\ UNCHANGED <<lock_table, shared, exclusive, call, notified, ret>>

Crash == crashed' = TRUE /\ UNCHANGED <<vars, tableVars, pending, write_set, endVars>>

\* A client that is not in the middle of a call may make one.
Client(t) == phase[t] = "run" /\ call[t] = NotBlocked /\ pending[t] = NoOp

-----------------------------------------------------------------------------
(* The operations of TableHeap.  Done is the rest of one when its lock     *)
(* call has returned.                                                      *)

Record(t, r, wtype, tu) ==
    write_set' = [write_set EXCEPT ![t] = Append(@, WriteRecord(r, wtype, tu))]

\* The new tuple takes the place of the old one.
PutInPlace(r, tu) ==
    /\ slot' = [slot EXCEPT ![r].tuple = tu]
    /\ SetFreeSpace(r[1], tu[1], slot[r].tuple[1])

\* o is the operation, and ok what the lock call returned.  MarkDelete
\* ignores what TablePage::MarkDelete returned.
Done(t, r, o, ok) ==
    CASE o.op = "get" -> UNCHANGED <<slotVars, write_set>>
      [] o.op = "insert" -> UNCHANGED slotVars /\ Record(t, r, "INSERT", NoTuple)
      [] o.op = "mark" ->
            /\ slot' = [slot EXCEPT ![r].st = IF ok /\ @ = "live" THEN "marked" ELSE @]
            /\ UNCHANGED free_space
            /\ Record(t, r, "DELETE", NoTuple)
      [] o.op = "update" ->
            /\ IF ok THEN PutInPlace(r, o.tuple) ELSE UNCHANGED slotVars
            /\ IF ok /\ state'[t] # "ABORTED" THEN Record(t, r, "UPDATE", slot[r].tuple)
                                              ELSE UNCHANGED write_set

\* Operation o on rid r up to the return of its lock call, or to its sleep.
Operate(t, r, o, m) ==
    /\ AskFor(t, r, m)
    /\ IF ret'[t] = "none"
       THEN pending' = [pending EXCEPT ![t] = o] /\ UNCHANGED <<slotVars, write_set>>
       ELSE UNCHANGED pending /\ Done(t, r, o, ret'[t] = "true")

GetTuple(t, r) ==
    /\ Client(t)
    /\ CanRLatch(r[1])
    /\ \/ /\ slot[r].st # "live"
          /\ SetAborted(t)
          /\ UNCHANGED <<slotVars, pending, write_set>>
       \/ /\ slot[r].st = "live"
          /\ Operate(t, r, [NoOp EXCEPT !.op = "get"], "S")
    /\ UNCHANGED <<last_page, endVars, crashed>>

MarkDelete(t, r) ==
    /\ Client(t)
    /\ Len(write_set[t]) < MaxWrites
    /\ CanWLatch(r[1])
    /\ \/ /\ slot[r].st \in {"unused", "marked"}
          /\ SetAborted(t)
          /\ Record(t, r, "DELETE", NoTuple)
          /\ UNCHANGED <<slotVars, pending>>
       \/ /\ slot[r].st \in {"empty", "live"}
          /\ Operate(t, r, [NoOp EXCEPT !.op = "mark"], "X")
    /\ UNCHANGED <<last_page, endVars, crashed>>

\* TablePage::UpdateTuple has the space for tu in place of r's tuple.
HasSpace(r, tu) == free_space[r[1]] >= tu[1] - slot[r].tuple[1]

UpdateTuple(t, r, tu) ==
    /\ Client(t)
    /\ Len(write_set[t]) < MaxWrites
    /\ CanWLatch(r[1])
    /\ \/ /\ slot[r].st # "live"
          /\ SetAborted(t)
          /\ UNCHANGED <<slotVars, pending, write_set>>
       \/ /\ slot[r].st = "live"
          /\ HasSpace(r, tu)
          /\ Operate(t, r, [NoOp EXCEPT !.op = "update", !.tuple = tu], "X")
    /\ UNCHANGED <<last_page, endVars, crashed>>

\* TablePage::InsertTuple: the first empty slot of page p, or the next unused
\* one, if there is space for tu.
FirstSlot(p, st) == {r \in SlotsOf(p) :
    slot[r].st = st /\ \A q \in SlotsOf(p) : slot[q].st = st => r[2] <= q[2]}
Target(p, tu) ==
    IF free_space[p] < tu[1] THEN {}
    ELSE IF FirstSlot(p, "empty") # {} THEN FirstSlot(p, "empty")
    ELSE IF free_space[p] < tu[1] + SlotSize THEN {}
    ELSE FirstSlot(p, "unused")

\* The tuple is on the page before its lock is asked for.  A lock that is
\* refused, or held already, fails an assertion.
PutTuple(t, r, tu) ==
    \/ r \in shared[t] \cup exclusive[t] /\ Crash
    \/ /\ LockExclusive(t, r)
       /\ slot' = [slot EXCEPT ![r] = Live(tu)]
       /\ SetFreeSpace(r[1], tu[1] + (IF slot[r].st = "unused" THEN SlotSize ELSE 0), 0)
       /\ crashed' = (ret'[t] = "false")
       /\ pending' = [pending EXCEPT ![t] =
            IF ret'[t] = "none" THEN [NoOp EXCEPT !.op = "insert"] ELSE NoOp]
       /\ IF ret'[t] = "true" THEN Record(t, r, "INSERT", NoTuple) ELSE UNCHANGED write_set
       /\ last_page' = IF r[1] > last_page THEN r[1] ELSE last_page
       /\ UNCHANGED endVars

\* InsertTuple has the latch of page p: the tuple goes there, or to the next
\* page, or to a new page behind the last one, or there is no new page.
InsertInto(t, p, tu) ==
    /\ CanWLatch(p)
    /\ \/ \E r \in Target(p, tu) : PutTuple(t, r, tu)
       \/ /\ Target(p, tu) = {} /\ p < last_page
          /\ pending' = [pending EXCEPT ![t] = [op |-> "walk", page |-> p + 1, tuple |-> tu]]
          /\ UNCHANGED <<vars, tableVars, write_set, endVars, crashed>>
       \/ /\ Target(p, tu) = {} /\ p = last_page /\ p < MaxPages
          /\ \E r \in Target(p + 1, tu) : PutTuple(t, r, tu)
       \/ /\ Target(p, tu) = {} /\ p = MaxPages
          /\ SetAborted(t)
          /\ pending' = [pending EXCEPT ![t] = NoOp]
          /\ UNCHANGED <<tableVars, write_set, endVars, crashed>>

InsertTuple(t, tu) ==
    /\ Client(t)
    /\ Len(write_set[t]) < MaxWrites
    /\ InsertInto(t, 1, tu)

\* The next page of the table in InsertTuple.
InsertNext(t) ==
    /\ pending[t].op = "walk"
    /\ InsertInto(t, pending[t].page, pending[t].tuple)

\* The lock manager wakes a sleeper, and the operation goes on if its lock
\* is granted.
Resume(t) ==
    /\ Wake(t)
    /\ IF ret'[t] = "true"
       THEN /\ Done(t, call[t].rid, pending[t], TRUE)
            /\ pending' = [pending EXCEPT ![t] = NoOp]
       ELSE UNCHANGED <<slotVars, write_set, pending>>
    /\ UNCHANGED <<last_page, endVars, crashed>>

-----------------------------------------------------------------------------
(* Commit and Abort.                                                       *)

Visible(s) == IF s.st = "live" THEN s.tuple ELSE NoTuple

\* What the transaction has locked for writing becomes the committed content.
Commit(t) ==
    /\ Client(t)
    /\ CommitAborted \/ state[t] = "GROWING"
    /\ state' = [state EXCEPT ![t] = "COMMITTED"]
    /\ phase' = [phase EXCEPT ![t] = "commit"]
    /\ db' = [r \in Rid |-> IF r \in exclusive[t] THEN Visible(slot[r]) ELSE db[r]]
    /\ writer' = [r \in Rid |-> IF r \in exclusive[t] THEN t ELSE writer[r]]
    /\ UNCHANGED <<lock_table, shared, exclusive, call, notified, ret, tableVars, pending,
                   write_set, todo, log, persistent, crashed>>

Abort(t) ==
    /\ Client(t)
    /\ state' = [state EXCEPT ![t] = "ABORTED"]
    /\ phase' = [phase EXCEPT ![t] = "abort"]
    /\ UNCHANGED <<lock_table, shared, exclusive, call, notified, ret, tableVars, pending,
                   write_set, todo, log, persistent, crashed, db, writer>>

\* Mutant: the write set is worked off from its front.
TurnFromFront(t) == 1

\* The write record Commit and Abort take next.
Turn(t) == Len(write_set[t])
Item(t) == write_set[t][Turn(t)]
Pop(t) == write_set' = [write_set EXCEPT ![t] = EraseAt(@, Turn(t))]

\* The assertions look for the lock and the tuple; the lock is released
\* under the latch.
ApplyDelete(t, r) ==
    /\ CanWLatch(r[1])
    /\ \/ ~(r \in exclusive[t] /\ slot[r].st \in {"live", "marked"}) /\ Crash
       \/ /\ slot[r].st \in {"live", "marked"}
          /\ r \in exclusive[t]
          /\ Unlock(t, r)
          /\ slot' = [slot EXCEPT ![r] = Empty]
          /\ SetFreeSpace(r[1], 0, slot[r].tuple[1])
          /\ Pop(t)
          /\ UNCHANGED <<last_page, pending, endVars, crashed>>

\* A tuple that is not marked gives an array of negative size.
RollbackDelete(t, r) ==
    /\ CanWLatch(r[1])
    /\ \/ ~(r \in exclusive[t] /\ slot[r].st \in {"empty", "marked"}) /\ Crash
       \/ /\ r \in exclusive[t] /\ slot[r].st \in {"empty", "marked"}
          /\ slot' = [slot EXCEPT ![r].st = IF @ = "marked" THEN "live" ELSE @]
          /\ Pop(t)
          /\ UNCHANGED <<vars, free_space, last_page, pending, endVars, crashed>>

\* UpdateTuple for an aborted transaction, which is granted no lock and
\* records nothing.  That it fails is ignored.
UndoUpdate(t, r, old) ==
    /\ CanWLatch(r[1])
    /\ IF slot[r].st = "live" /\ HasSpace(r, old) /\ r \in exclusive[t]
       THEN PutInPlace(r, old) ELSE UNCHANGED slotVars
    /\ Pop(t)
    /\ UNCHANGED <<vars, last_page, pending, endVars, crashed>>

CommitItem(t) ==
    /\ phase[t] = "commit"
    /\ write_set[t] # <<>>
    /\ \/ Item(t).wtype = "DELETE" /\ ApplyDelete(t, Item(t).rid)
       \/ /\ Item(t).wtype # "DELETE"
          /\ Pop(t)
          /\ UNCHANGED <<vars, tableVars, pending, endVars, crashed>>

AbortItem(t) ==
    /\ phase[t] = "abort"
    /\ write_set[t] # <<>>
    /\ \/ Item(t).wtype = "DELETE" /\ RollbackDelete(t, Item(t).rid)
       \/ Item(t).wtype = "INSERT" /\ ApplyDelete(t, Item(t).rid)
       \/ Item(t).wtype = "UPDATE" /\ UndoUpdate(t, Item(t).rid, Item(t).tuple)

\* The COMMIT or ABORT record; all locks are then to be released.
AppendEnd(t) ==
    /\ phase[t] \in {"commit", "abort"}
    /\ write_set[t] = <<>>
    /\ log' = Append(log, t)
    /\ phase' = [phase EXCEPT ![t] = "ended"]
    /\ todo' = [todo EXCEPT ![t] = shared[t] \cup exclusive[t]]
    /\ UNCHANGED <<vars, tableVars, pending, write_set, persistent, crashed, db, writer>>

\* The flush thread of the log manager.
FlushLog ==
    /\ persistent < Len(log)
    /\ persistent' = Len(log)
    /\ UNCHANGED <<vars, tableVars, pending, write_set, phase, todo, log, crashed, db, writer>>

\* The record of t is on disk.
Persisted(t) == t \in Range(SubSeq(log, 1, persistent))

\* Mutant: Commit and Abort do not wait for the log.
ReleaseLockAtOnce(t, r) ==
    /\ phase[t] = "ended"
    /\ r \in todo[t]
    /\ Unlock(t, r)
    /\ todo' = [todo EXCEPT ![t] = @ \ {r}]
    /\ UNCHANGED <<tableVars, pending, write_set, phase, log, persistent, crashed, db, writer>>

\* Commit and Abort wait for the log, then release lock by lock.
ReleaseLock(t, r) ==
    /\ phase[t] = "ended"
    /\ Persisted(t)
    /\ r \in todo[t]
    /\ Unlock(t, r)
    /\ todo' = [todo EXCEPT ![t] = @ \ {r}]
    /\ UNCHANGED <<tableVars, pending, write_set, phase, log, persistent, crashed, db, writer>>

HeapNext ==
    /\ ~crashed
    /\ \/ FlushLog
       \/ \E t \in Txn :
            \/ \E r \in Rid : GetTuple(t, r) \/ MarkDelete(t, r) \/ ReleaseLock(t, r)
            \/ \E r \in Rid, tu \in Tuple : UpdateTuple(t, r, tu)
            \/ \E tu \in Tuple : InsertTuple(t, tu)
            \/ InsertNext(t) \/ Resume(t)
            \/ Commit(t) \/ Abort(t) \/ CommitItem(t) \/ AbortItem(t) \/ AppendEnd(t)

HeapSpec == HeapInit /\ [][HeapNext]_allVars

-----------------------------------------------------------------------------
(* Properties.                                                             *)

\* The state of a table and its transactions.
HeapTypeOK ==
    /\ slot \in [Rid -> [st : {"unused", "empty", "live", "marked"},
                         tuple : Tuple \cup {NoTuple}]]
    /\ last_page \in 1..MaxPages
    /\ free_space \in [1..MaxPages -> 0..PageSpace]
    /\ \A t \in Txn : Len(write_set[t]) <= MaxWrites
    /\ persistent <= Len(log)

ExclusivelyWanted(r) == \E q \in Requests(r) : q.mode = "X"

\* What is on the page and not locked for writing is what the committed
\* transactions left there: Abort has undone everything of an aborted one
\* before it lets go of a lock, however its inserts, updates and deletes
\* overlapped, and Commit has emptied the slots of the tuples it deleted.
OnlyCommitted ==
    \A r \in Rid : ~crashed /\ ~ExclusivelyWanted(r) => Visible(slot[r]) = db[r]

\* The tuples a running transaction has read stay as they were read, and
\* are the committed ones: a transaction that commits has read what it would
\* read if it ran alone at that moment.
ReadsStable ==
    \A t \in Txn : \A r \in shared[t] :
        phase[t] = "run" /\ call[t] = NotBlocked /\ ~crashed =>
            slot[r].st = "live" /\ slot[r].tuple = db[r]

\* What a transaction has read of another one is durable: the writer's COMMIT
\* record was on disk before its lock was released.
ReadsDurable ==
    \A t \in Txn : \A r \in shared[t] :
        phase[t] = "run" /\ call[t] = NotBlocked /\ writer[r] \notin {t, NoTxnYet}
            => Persisted(writer[r])

\* "must already grab the exclusive lock" (page/table_page.cpp): what Commit
\* applies deletes to and Abort rolls deletes back on is locked exclusively.
DeletesLocked ==
    \A t \in Txn : \A i \in DOMAIN write_set[t] :
        write_set[t][i].wtype = "DELETE" => write_set[t][i].rid \in exclusive[t]

\* The transactions t waits for: in its lock call those before it in the
\* queue, and in Commit and Abort those that have the latch of the page.
WaitsFor(t) ==
    IF call[t] # NotBlocked THEN {u \in Txn : Blocks(u, t)}
    ELSE IF \/ phase[t] = "abort" /\ write_set[t] # <<>>
            \/ phase[t] = "commit" /\ write_set[t] # <<>> /\ Item(t).wtype = "DELETE"
    THEN Latching(Item(t).rid[1])
    ELSE {}

\* "use wait-die to prevent deadlocks" (lock_manager.h): no transactions wait
\* for each other's tuple locks and page latches in a circle.
NoLatchDeadlock ==
    ~\E D \in SUBSET Txn : D # {} /\ \A t \in D : WaitsFor(t) \cap D # {}
=============================================================================
