------------------------------ MODULE Recovery ------------------------------
(***************************************************************************)
(* Crashes and logging/log_recovery.cpp: transactions change the first     *)
(* page of a table and log what they do, the flush thread and the pool     *)
(* write log buffers and the page, the process dies, and a new one runs    *)
(* Redo, Undo and then transactions again.  The process may die at any     *)
(* step once its first log buffer is in the file; before that the next one *)
(* starts as it did.  Two constants say which crashes are left out: the    *)
(* ones before the page was ever written (Unwritten) and the second one of *)
(* a page behind the header page (Again).                                  *)
(*                                                                         *)
(* The operations hold the page latch, so each is a step.  TablePage has   *)
(* the bytes of a page, LogManager the steps of a flush, TableHeap the     *)
(* locks; here a page is its slots and its LSN, a flush is a step, and a   *)
(* transaction changes a slot only if it can have its exclusive lock.      *)
(*                                                                         *)
(* A flush writes the whole buffer, so the log file is a sequence of       *)
(* chunks of LOG_BUFFER_SIZE bytes, and no record lies in two.  Behind the *)
(* records of a chunk are zeros or, from the third flush of a process on,  *)
(* what the buffer held before.  Records are taken to be of one size.      *)
(*                                                                         *)
(* The process gets its LSNs, transaction ids and page ids from 0 again.   *)
(***************************************************************************)
EXTENDS Integers, Sequences, FiniteSets

CONSTANTS
    Tuple, NoTuple,
    SlotCount,      \* slots the page has room for
    BufferRecords,  \* records a log buffer has room for
    MaxTxn,         \* bound: transactions of the first process; later ones have fewer
    MaxRecords,     \* bound: log records of a process
    MaxWrites,      \* bound: changes of a transaction
    MaxFlushes,     \* bound: log buffers a process writes
    MaxCrashes,     \* bound
    Again,          \* a page behind the header page is recovered repeatedly
    Unwritten       \* a page behind the header page is recovered that was never written

ASSUME BoundsAssumption ==
    /\ {SlotCount, BufferRecords, MaxTxn, MaxRecords, MaxWrites, MaxFlushes, MaxCrashes} \subseteq Nat \ {0}
    /\ BufferRecords > 1    \* room for the two records of a new table
ASSUME SwitchAssumption == Again \in BOOLEAN /\ Unwritten \in BOOLEAN

VARIABLES
    up,             \* "run", "down", "redo", "undo"; "assert", "overrun": killed in Redo, in Undo
    first,          \* the table's page is page 0; in a database that is the header page
    page,           \* the page in the pool
    disk,           \* the page in the page file
    file,           \* the chunks of the log file
    buffer,         \* the records in the log buffer
    next_lsn, persistent_lsn, flushes,
    leftover,       \* ghost: an image in the file has old records behind its own
    next_txn, txn,  \* id -> stage, write set and LSN of the last record
    cursor,         \* chunk and position Redo reads next
    active_txn,     \* id -> LSN of its last record
    lsn_mapping,    \* LSN -> chunk of the record
    lock,           \* slot -> the transaction that has its exclusive lock
    crashes,
    durable,        \* ghost: the page after the last record in the file
    committed,      \* ghost: slot -> the tuple committed transactions left there
    changers        \* ghost: slot -> who changed it and has not ended; Lost stands for them after a crash

logVars == <<file, buffer, next_lsn, persistent_lsn, flushes, leftover>>
txnVars == <<next_txn, txn, lock>>
redoVars == <<cursor, active_txn, lsn_mapping>>
ghosts == <<durable, committed, changers>>
vars == <<up, first, page, disk, logVars, txnVars, redoVars, crashes, ghosts>>

Slot == 1..SlotCount
Id == 0..(MaxTxn - 1)
NoTxn == -1
Lost == -2
NoLsn == -1
Lsn == 0..(MaxRecords - 1)
Changes == {"INSERT", "MARKDELETE", "APPLYDELETE", "ROLLBACKDELETE", "UPDATE"}

-----------------------------------------------------------------------------
(* The page.  Slots beyond Len(slots) are not in use; the state of a slot  *)
(* is the sign of its size.                                                *)

Empty == [st |-> "empty", tuple |-> NoTuple]
Live(tu) == [st |-> "live", tuple |-> tu]
Marked(tu) == [st |-> "marked", tuple |-> tu]

NewPage == [lsn |-> 0, slots |-> <<>>]

\* The page is all zeros, not even initialized: its free space pointer is 0,
\* so that it has room for nothing.
Zeroed == ~first /\ page.lsn = 0

\* The slot InsertTuple takes: the first empty one, or a new one.
SlotFor(slots) ==
    LET free == {s \in 1..Len(slots) : slots[s] = Empty /\ \A u \in 1..(s - 1) : slots[u] # Empty}
    IN  IF free = {} THEN Len(slots) + 1 ELSE CHOOSE s \in free : TRUE

InsertTuple(slots, tu) ==
    IF SlotFor(slots) > Len(slots) THEN Append(slots, Live(tu))
    ELSE [slots EXCEPT ![SlotFor(slots)] = Live(tu)]

MarkDelete(slots, s) ==
    [slots EXCEPT ![s] = IF @.st = "live" THEN Marked(@.tuple) ELSE @]
RollbackDelete(slots, s) ==
    [slots EXCEPT ![s] = IF @.st = "marked" THEN Live(@.tuple) ELSE @]
UpdateTuple(slots, s, tu) == [slots EXCEPT ![s] = Live(tu)]
ApplyDelete(slots, s) == [slots EXCEPT ![s] = Empty]

\* What a reader finds in a slot.
Visible(slots) ==
    [s \in Slot |-> IF s \in 1..Len(slots) /\ slots[s].st = "live"
                    THEN slots[s].tuple ELSE NoTuple]

-----------------------------------------------------------------------------
(* The log.                                                                *)

Zero == [lsn |-> 0, txn |-> 0, type |-> "INVALID", slot |-> 0, tuple |-> NoTuple]

Rec(type, t, s, tu) == [lsn |-> next_lsn, txn |-> t, type |-> type, slot |-> s, tuple |-> tu]

Zeros == [i \in 1..BufferRecords |-> Zero]

\* The buffer as it is written: what is not overwritten is as it was when the
\* buffer was written last, two flushes ago.
Image ==
    LET old == IF flushes < 2 THEN Zeros ELSE file[Len(file) - 1]
    IN  [i \in 1..BufferRecords |-> IF i <= Len(buffer) THEN buffer[i] ELSE old[i]]

AppendLogRecord(r) ==
    /\ Len(buffer) < BufferRecords /\ next_lsn < MaxRecords
    /\ buffer' = Append(buffer, r)
    /\ next_lsn' = next_lsn + 1
    /\ UNCHANGED <<file, persistent_lsn, flushes, leftover>>

\* The flush thread swaps the buffers, writes one and sets persistent_lsn_.
FlushLog ==
    /\ up = "run"
    /\ buffer # <<>> /\ flushes < MaxFlushes
    /\ file' = Append(file, Image)
    /\ buffer' = <<>>
    /\ persistent_lsn' = next_lsn - 1
    /\ flushes' = flushes + 1
    /\ leftover' = (leftover \/ \E i \in (Len(buffer) + 1)..BufferRecords : Image[i] # Zero)
    /\ durable' = page.slots
    /\ UNCHANGED <<up, first, page, disk, next_lsn, txnVars, redoVars, crashes, committed, changers>>

\* The pool writes the page: with logging on only behind its log records.
FlushPage ==
    /\ up \in {"run", "redo", "undo"}
    /\ up = "run" => page.lsn <= persistent_lsn
    /\ disk # page /\ crashes < MaxCrashes
    /\ disk' = page
    /\ UNCHANGED <<up, first, page, logVars, txnVars, redoVars, crashes, ghosts>>

-----------------------------------------------------------------------------
(* Transactions.                                                           *)

Idle == [stage |-> "none", write_set |-> <<>>, prev_lsn |-> NoLsn]

Begin ==
    /\ up = "run"
    /\ next_txn < MaxTxn - crashes /\ crashes < MaxCrashes
    /\ AppendLogRecord(Rec("BEGIN", next_txn, 0, NoTuple))
    /\ txn' = [txn EXCEPT ![next_txn] = [stage |-> "grow", write_set |-> <<>>, prev_lsn |-> next_lsn]]
    /\ next_txn' = next_txn + 1
    /\ UNCHANGED <<up, first, page, disk, lock, redoVars, crashes, ghosts>>

Lockable(t, s) == lock[s] \in {t, NoTxn}

\* An operation of t on slot s: the record, the page with its LSN, the lock
\* and the write set.
Change(t, s, type, tu, slots, ws) ==
    /\ AppendLogRecord(Rec(type, t, s, tu))
    /\ page' = [lsn |-> next_lsn, slots |-> slots]
    /\ txn' = [txn EXCEPT ![t].prev_lsn = next_lsn, ![t].write_set = ws]
    /\ changers' = [changers EXCEPT ![s] = @ \cup {t}]
    /\ UNCHANGED <<up, first, disk, next_txn, redoVars, crashes, durable>>

Growing(t) == up = "run" /\ txn[t].stage = "grow"
Writing(t) == Growing(t) /\ Len(txn[t].write_set) < MaxWrites

Lock(t, s) == Lockable(t, s) /\ lock' = [lock EXCEPT ![s] = t]

Insert(t, tu) ==
    LET s == SlotFor(page.slots)
    IN  /\ Writing(t) /\ ~Zeroed /\ s <= SlotCount /\ Lock(t, s)
        /\ Change(t, s, "INSERT", tu, InsertTuple(page.slots, tu),
                  Append(txn[t].write_set, [wtype |-> "INSERT", slot |-> s, tuple |-> NoTuple]))
        /\ UNCHANGED committed

Delete(t, s) ==
    /\ Writing(t) /\ s <= Len(page.slots) /\ page.slots[s].st = "live" /\ Lock(t, s)
    /\ Change(t, s, "MARKDELETE", page.slots[s].tuple, MarkDelete(page.slots, s),
              Append(txn[t].write_set, [wtype |-> "DELETE", slot |-> s, tuple |-> NoTuple]))
    /\ UNCHANGED committed

Update(t, s, tu) ==
    /\ Writing(t) /\ s <= Len(page.slots) /\ page.slots[s].st = "live" /\ Lock(t, s)
    /\ tu # page.slots[s].tuple
    /\ Change(t, s, "UPDATE", tu, UpdateTuple(page.slots, s, tu),
              Append(txn[t].write_set,
                     [wtype |-> "UPDATE", slot |-> s, tuple |-> page.slots[s].tuple]))
    /\ UNCHANGED committed

\* Commit or Abort is called.
End(t, how) ==
    /\ Growing(t)
    /\ txn' = [txn EXCEPT ![t].stage = how]
    /\ UNCHANGED <<up, first, page, disk, logVars, next_txn, lock, redoVars, crashes, ghosts>>

\* TableHeap::ApplyDelete releases the lock of the slot.  From then on others
\* find it empty, so a committing transaction has deleted the tuple here.
Apply(t, s, ws) ==
    /\ Change(t, s, "APPLYDELETE", page.slots[s].tuple, ApplyDelete(page.slots, s), ws)
    /\ lock' = [lock EXCEPT ![s] = NoTxn]
    /\ committed' = IF txn[t].stage = "commit" THEN [committed EXCEPT ![s] = NoTuple] ELSE committed

\* Commit and Abort work off the write set from its end.
WorkOff(t) ==
    LET ws == txn[t].write_set
        item == ws[Len(ws)]
        rest == SubSeq(ws, 1, Len(ws) - 1)
    IN  /\ up = "run" /\ txn[t].stage \in {"commit", "abort"} /\ ws # <<>>
        /\ \/ /\ item.wtype = (IF txn[t].stage = "commit" THEN "DELETE" ELSE "INSERT")
              /\ Apply(t, item.slot, rest)
           \/ /\ txn[t].stage = "commit" /\ item.wtype # "DELETE"
              /\ txn' = [txn EXCEPT ![t].write_set = rest]
              /\ UNCHANGED <<up, first, page, disk, logVars, next_txn, lock, redoVars, crashes, ghosts>>
           \/ /\ txn[t].stage = "abort" /\ item.wtype = "DELETE"
              /\ Change(t, item.slot, "ROLLBACKDELETE", page.slots[item.slot].tuple,
                        RollbackDelete(page.slots, item.slot), rest)
              /\ UNCHANGED <<lock, committed>>
           \/ /\ txn[t].stage = "abort" /\ item.wtype = "UPDATE"
              /\ Change(t, item.slot, "UPDATE", item.tuple,
                        UpdateTuple(page.slots, item.slot, item.tuple), rest)
              /\ UNCHANGED <<lock, committed>>

EndRecord(t) ==
    /\ up = "run" /\ txn[t].stage \in {"commit", "abort"} /\ txn[t].write_set = <<>>
    /\ AppendLogRecord(Rec(IF txn[t].stage = "commit" THEN "COMMIT" ELSE "ABORT", t, 0, NoTuple))
    /\ txn' = [txn EXCEPT ![t].prev_lsn = next_lsn,
                          ![t].stage = IF @ = "commit" THEN "committing" ELSE "aborting"]
    /\ UNCHANGED <<up, first, page, disk, next_txn, lock, redoVars, crashes, ghosts>>

\* The rest of Return, with the condition of its wait as a parameter.
ReturnWhen(t, persistent) ==
    /\ up = "run" /\ txn[t].stage \in {"committing", "aborting"}
    /\ persistent
    /\ txn' = [txn EXCEPT ![t].stage = "done"]
    /\ lock' = [s \in Slot |-> IF lock[s] = t THEN NoTxn ELSE lock[s]]
    /\ committed' = [s \in Slot |-> IF lock[s] = t /\ txn[t].stage = "committing"
                                    THEN Visible(page.slots)[s] ELSE committed[s]]
    /\ changers' = [s \in Slot |-> changers[s] \ {t}]
    /\ UNCHANGED <<up, first, page, disk, logVars, next_txn, redoVars, crashes, durable>>

\* Mutant: Commit and Abort do not wait for the log.
ReturnEarly(t) == ReturnWhen(t, TRUE)

\* Commit and Abort return when their record is on disk.
Return(t) == ReturnWhen(t, txn[t].prev_lsn <= persistent_lsn)

-----------------------------------------------------------------------------
(* The crash and the recovery.                                             *)

Crash ==
    /\ up \in {"run", "redo", "undo"}
    /\ file # <<>>
    /\ first \/ Unwritten \/ disk.lsn > 0
    /\ crashes < (IF first \/ Again THEN MaxCrashes ELSE 1)
    /\ up' = "down"
    /\ crashes' = crashes + 1
    /\ changers' = [s \in Slot |-> IF changers[s] = {} THEN {} ELSE {Lost}]
    /\ page' = NewPage /\ buffer' = <<>>
    /\ txn' = [t \in Id |-> Idle] /\ lock' = [s \in Slot |-> NoTxn]
    /\ active_txn' = [t \in Id |-> NoLsn] /\ lsn_mapping' = [l \in Lsn |-> 0] /\ cursor' = <<1, 1>>
    /\ next_lsn' = 0 /\ persistent_lsn' = NoLsn /\ flushes' = 0 /\ next_txn' = 0
    /\ UNCHANGED <<first, disk, file, leftover, durable, committed>>

\* A new process; FetchPage would read the page.
Restart ==
    /\ up = "down"
    /\ up' = "redo"
    /\ page' = disk
    /\ UNCHANGED <<first, disk, logVars, txnVars, redoVars, crashes, ghosts>>

\* The assertions on what the operations of a page return, and in them.
CanRedo(slots, r) ==
    CASE r.type = "INSERT" -> SlotFor(slots) <= SlotCount
      [] r.type = "MARKDELETE" -> r.slot <= Len(slots) /\ slots[r.slot].st # "marked"
      [] r.type = "UPDATE" -> r.slot <= Len(slots) /\ slots[r.slot].st = "live"
      [] r.type = "ROLLBACKDELETE" -> r.slot <= Len(slots)
      [] r.type = "APPLYDELETE" -> r.slot <= Len(slots) /\ slots[r.slot] # Empty

\* The insertion looks for a slot itself and does not use the record's.
Redone(slots, r) ==
    CASE r.type = "INSERT" -> InsertTuple(slots, r.tuple)
      [] r.type = "MARKDELETE" -> MarkDelete(slots, r.slot)
      [] r.type = "UPDATE" -> UpdateTuple(slots, r.slot, r.tuple)
      [] r.type = "ROLLBACKDELETE" -> RollbackDelete(slots, r.slot)
      [] r.type = "APPLYDELETE" -> ApplyDelete(slots, r.slot)

\* Mutant: a record as old as the page counts as newer.
NewerOrSame(r) == r.lsn >= page.lsn

Newer(r) == r.lsn > page.lsn

\* The tables Redo builds for Undo.
Track(r) ==
    /\ lsn_mapping' = [lsn_mapping EXCEPT ![r.lsn] = cursor[1]]
    /\ active_txn' = [active_txn EXCEPT ![r.txn] =
                            IF r.type \in {"COMMIT", "ABORT"} THEN NoLsn ELSE r.lsn]

\* The first page of a table is created anew, as page 0.  Redo does not set
\* the LSN of a page.
RedoPage(r) ==
    \/ /\ r.type \in {"BEGIN", "COMMIT", "ABORT"}
       /\ UNCHANGED <<up, page>>
    \/ /\ r.type = "NEWPAGE"
       /\ page' = IF first THEN NewPage ELSE page
       /\ UNCHANGED up
    \/ /\ r.type \in Changes
       /\ page' = IF Newer(r) /\ ~Zeroed /\ CanRedo(page.slots, r)
                  THEN [page EXCEPT !.slots = Redone(@, r)] ELSE page
       /\ up' = IF Newer(r) /\ (Zeroed \/ ~CanRedo(page.slots, r)) THEN "assert" ELSE up

RedoRecord ==
    LET c == cursor[1]
        i == cursor[2]
        whole == i <= BufferRecords /\ file[c][i].type # "INVALID"
    IN  /\ up = "redo" /\ c <= Len(file)
        /\ \/ whole /\ cursor' = <<c, i + 1>> /\ Track(file[c][i]) /\ RedoPage(file[c][i])
           \/ ~whole /\ cursor' = <<c + 1, 1>> /\ UNCHANGED <<up, page, active_txn, lsn_mapping>>
        /\ UNCHANGED <<first, disk, logVars, txnVars, crashes, ghosts>>

RedoDone ==
    /\ up = "redo" /\ cursor[1] > Len(file)
    /\ up' = "undo"
    /\ UNCHANGED <<first, page, disk, logVars, txnVars, redoVars, crashes, ghosts>>

Losers == {t \in Id : active_txn[t] # NoLsn}

\* Undo swaps the size and the offset when it calls ReadLog: it reads, from
\* byte PAGE_SIZE of the log on, as many bytes as the offset of the loser's
\* last record says.  The records of a first chunk are less than a page here,
\* so for a record among them it finds zeros and undoes nothing; the offset
\* of a record in a later chunk is larger than the buffer on the stack, and
\* the read overruns it.
Undo ==
    /\ up = "undo"
    /\ \/ /\ \A t \in Losers : lsn_mapping[active_txn[t]] = 1
          /\ up' = "run"
       \/ /\ \E t \in Losers : lsn_mapping[active_txn[t]] # 1
          /\ up' = "overrun"
    /\ active_txn' = [t \in Id |-> NoLsn] /\ lsn_mapping' = [l \in Lsn |-> 0]
    /\ committed' = Visible(page.slots) /\ changers' = [s \in Slot |-> {}]
    /\ UNCHANGED <<first, page, disk, logVars, txnVars, cursor, crashes, durable>>

-----------------------------------------------------------------------------
\* Transaction 0 has created the table.
Init ==
    /\ up = "run" /\ first \in BOOLEAN
    /\ page = [lsn |-> 1, slots |-> <<>>] /\ disk = NewPage
    /\ file = <<>>
    /\ buffer = <<[Zero EXCEPT !.type = "BEGIN"], [Zero EXCEPT !.lsn = 1, !.type = "NEWPAGE"]>>
    /\ next_lsn = 2 /\ persistent_lsn = NoLsn /\ flushes = 0
    /\ leftover = FALSE
    /\ next_txn = 1
    /\ txn = [t \in Id |-> IF t = 0 THEN [stage |-> "grow", write_set |-> <<>>, prev_lsn |-> 1]
                           ELSE Idle]
    /\ cursor = <<1, 1>> /\ active_txn = [t \in Id |-> NoLsn] /\ lsn_mapping = [l \in Lsn |-> 0]
    /\ lock = [s \in Slot |-> NoTxn]
    /\ crashes = 0
    /\ durable = <<>>
    /\ committed = [s \in Slot |-> NoTuple] /\ changers = [s \in Slot |-> {}]

Next ==
    \/ Begin \/ FlushLog \/ FlushPage
    \/ \E t \in Id :
        \/ \E tu \in Tuple : Insert(t, tu)
        \/ \E s \in Slot : Delete(t, s)
        \/ \E s \in Slot, tu \in Tuple : Update(t, s, tu)
        \/ \E how \in {"commit", "abort"} : End(t, how)
        \/ WorkOff(t)
        \/ EndRecord(t)
        \/ Return(t)
    \/ Crash \/ Restart \/ RedoRecord \/ RedoDone \/ Undo

Spec == Init /\ [][Next]_vars

-----------------------------------------------------------------------------
\* Redo repeats history: no assertion of it fails, and at its end the page is
\* as it was after the last record that reached the log file, although Redo
\* chooses the slots of insertions again and the page may have been written
\* at any time before the crash, or during an earlier recovery.
RedoExact ==
    /\ up # "assert"
    /\ up = "undo" => page.slots = durable

\* That is so as long as every buffer the flush thread wrote had at least as
\* many records as when it was written before (or was new): WriteLog writes the
\* whole buffer and nobody clears it.
RedoRestores == ~leftover => RedoExact

\* Durability: once every transaction that changed a slot has returned from
\* Commit or Abort, the slot has after Redo the tuple the committed ones left
\* there, although ApplyDelete lets others have the slot before the COMMIT
\* record of the transaction that deleted the tuple is in the log.  Again, as
\* long as no image in the file has old records behind its own.
CommittedSurvive ==
    ~leftover /\ up = "undo" =>
        \A s \in Slot : changers[s] = {} => Visible(page.slots)[s] = committed[s]

\* "iterate through active txn map and undo each operation"
\* (log_recovery.cpp): the table has only what was committed when transactions
\* run again.
LosersUndone == [][up = "undo" /\ up' = "run" => Visible(page.slots) = committed]_vars
=============================================================================
