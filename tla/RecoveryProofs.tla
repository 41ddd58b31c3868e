---------------------------- MODULE RecoveryProofs ----------------------------
(***************************************************************************)
(* Redo repeats history, and what was committed survives a crash, for any  *)
(* numbers of slots, transactions, records and crashes.                    *)
(***************************************************************************)
EXTENDS RecoveryLogProofs

USE SMTT(20), ZenonT(20), SMTT(40)

-----------------------------------------------------------------------------
(* The steps and the rows.                                                 *)

LEMMA TxnSet ==
    ASSUME Typed, NEW t \in Id, NEW x \in TxnRecord, txn' = [txn EXCEPT ![t] = x]
    PROVE  txn' \in [Id -> TxnRecord]
BY DEF Typed

LEMMA TxnTyped ==
    ASSUME Typed
    PROVE  \A t \in Id : txn[t].stage \in Stages /\ txn[t].write_set \in Seq(Item) /\ txn[t].prev_lsn \in Int
BY DEF Typed, TxnRecord

\* t changes slot s.
LEMMA ChangeRows ==
    ASSUME Typed, Rows, NEW t \in Id, NEW s \in Slot, NEW v \in SlotState, NEW ws \in Seq(Item),
           Active(txn[t]), Sets(page.slots, s, v, page'.slots),
           txn' = [txn EXCEPT ![t].prev_lsn = next_lsn, ![t].write_set = ws],
           changers' = [changers EXCEPT ![s] = @ \cup {t}],
           lock[s] \in {t, NoTxn}, lock'[s] \in {t, NoTxn},
           \A j \in Slot : j # s => lock'[j] = lock[j] /\ committed'[j] = committed[j],
           lock'[s] = NoTxn => Visible(page'.slots)[s] = committed'[s],
           Covers(t, txn'[t], lock', page'.slots, committed'),
           next_lsn' = next_lsn + 1, UNCHANGED <<next_txn, durable, persistent_lsn>>
    PROVE  Rows'
<1> DEFINE q == page.slots
           q2 == page'.slots
<1>1. /\ q \in SlotSeq /\ t # NoTxn /\ next_lsn \in Nat /\ persistent_lsn < next_lsn
      /\ persistent_lsn \in Int /\ \A j \in Slot : changers[j] \subseteq Id \cup {Lost}
  BY DEF Typed, Page, Rows, Id, NoTxn
<1>2. /\ txn'[t].stage = txn[t].stage /\ txn'[t].prev_lsn = next_lsn /\ Active(txn'[t])
      /\ \A u \in Id : u # t => txn'[u] = txn[u]
  BY DEF Typed, Active
<1>3. ASSUME NEW u \in Id PROVE Active(txn'[u]) <=> Active(txn[u])
  BY ZenonT(60), <1>2 DEF Active
<1>4. /\ t \in changers'[s] /\ changers'[s] = changers[s] \cup {t}
      /\ \A j \in Slot : j # s => changers'[j] = changers[j]
  BY DEF Typed
<1>5. ASSUME NEW u \in Id PROVE Covers(u, txn'[u], lock', q2, committed')
  <2>1. CASE u = t
    BY <2>1
  <2>2. CASE u # t
    <3>1. lock[s] # u /\ lock'[s] # u
      BY <2>2 DEF Id, NoTxn
    <3>2. txn[u].write_set \in Seq(Item) /\ txn'[u] = txn[u]
      BY ZenonT(60), <1>2, <2>2, TxnTyped
    <3>3. PICK w \in Seq(Item), q1 \in SlotSeq : w = txn[u].write_set /\ q1 = q
      BY <1>1, <3>2
    <3>4. PICK q3, lk, lk2, cm, cm2 :
            q3 = q2 /\ lk = lock /\ lk2 = lock' /\ cm = committed /\ cm2 = committed'
      OBVIOUS
    <3>5. Sets(q1, s, v, q3) /\ lk[s] # u /\ lk2[s] # u
          /\ \A j \in Slot : j # s => lk2[j] = lk[j] /\ cm2[j] = cm[j]
      BY <3>1, <3>3, <3>4
    <3>6. /\ Undoable(u, w, lk, q1, cm) => Undoable(u, w, lk2, q3, cm2)
          /\ Appliable(u, w, lk, q1) => Appliable(u, w, lk2, q3)
          /\ Clean(u, w, lk, q1, cm) => Clean(u, w, lk2, q3, cm2)
      BY <3>5, OtherItems
    <3>7. Covers(u, txn[u], lock, q, committed)
      BY DEF Rows
    <3> QED BY <3>2, <3>3, <3>4, <3>6, <3>7 DEF Covers
  <2> QED BY <2>1, <2>2
<1>6. ASSUME NEW j \in Slot
      PROVE  /\ lock'[j] = NoTxn => Visible(q2)[j] = committed'[j]
             /\ lock'[j] # NoTxn => lock'[j] \in changers'[j]
             /\ \A u \in changers'[j] : u \in Id /\ Active(txn'[u])
             /\ Visible(q2)[j] # Visible(durable)[j] =>
                    \E u \in changers'[j] : txn'[u].prev_lsn > persistent_lsn
  <2>1. /\ lock[j] = NoTxn => Visible(q)[j] = committed[j]
        /\ lock[j] # NoTxn => lock[j] \in changers[j]
        /\ \A u \in changers[j] : u \in Id /\ Active(txn[u])
        /\ Visible(q)[j] # Visible(durable)[j] => \E u \in changers[j] : txn[u].prev_lsn > persistent_lsn
    BY DEF Rows, Slots
  <2>2. \A u \in changers'[j] : u \in Id /\ Active(txn'[u])
    BY ZenonT(60), <1>2, <1>3, <1>4, <2>1
  <2>3. CASE j = s
    BY ZenonT(60), <1>1, <1>2, <1>4, <2>2, <2>3
  <2>4. CASE j # s
    <3>1. Visible(q2)[j] = Visible(q)[j]
      BY <1>1, <2>4, SetsOthers
    <3>2. ASSUME NEW u \in changers[j], txn[u].prev_lsn > persistent_lsn
          PROVE  txn'[u].prev_lsn > persistent_lsn
      BY ZenonT(60), <1>1, <1>2, <2>1, <3>2
    <3>3. lock'[j] = lock[j] /\ committed'[j] = committed[j] /\ changers'[j] = changers[j]
      BY <1>4, <2>4
    <3> QED BY ZenonT(60), <2>1, <2>2, <3>1, <3>2, <3>3
  <2> QED BY ZenonT(60), <2>3, <2>4
<1>7. Slots(txn', lock', q2, committed', changers', durable, persistent_lsn)
  BY ZenonT(60), <1>6 DEF Slots
<1>8. \A u \in Id : u >= next_txn => txn'[u].stage = "none"
  BY ZenonT(60), <1>2 DEF Rows
<1>9. next_lsn' > 0 /\ persistent_lsn' < next_lsn'
  BY <1>1
<1>10. /\ \A u \in Id : Covers(u, txn[u], lock, page.slots, committed)'
       /\ Slots(txn, lock, page.slots, committed, changers, durable, persistent_lsn)'
  BY ZenonT(60), <1>5, <1>7
<1> QED BY ZenonT(60), <1>8, <1>9, <1>10 DEF Rows

\* t logs a change of slot s and makes it.
LEMMA ChangeInv ==
    ASSUME RInv, up = "run", NEW t \in Id, NEW s \in Slot, NEW type \in Changes,
           NEW tu \in Tuple \cup {NoTuple}, NEW v \in SlotState, NEW q2, NEW ws \in Seq(Item),
           Sets(page.slots, s, v, q2), Change(t, s, type, tu, q2, ws),
           CanRedo(page.slots, Rec(type, t, s, tu)), q2 = Redone(page.slots, Rec(type, t, s, tu)),
           Active(txn[t]), lock[s] \in {t, NoTxn}, lock'[s] \in {t, NoTxn},
           lock' \in [Slot -> Id \cup {NoTxn}], committed' \in [Slot -> Tuple \cup {NoTuple}],
           \A j \in Slot : j # s => lock'[j] = lock[j] /\ committed'[j] = committed[j],
           lock'[s] = NoTxn => Visible(q2)[s] = committed'[s],
           Covers(t, txn'[t], lock', q2, committed')
    PROVE  RInv'
<1> DEFINE r == Rec(type, t, s, tu)
<1>1. /\ AppendLogRecord(r) /\ page' = [lsn |-> next_lsn, slots |-> q2]
      /\ txn' = [txn EXCEPT ![t].prev_lsn = next_lsn, ![t].write_set = ws]
      /\ changers' = [changers EXCEPT ![s] = @ \cup {t}]
      /\ UNCHANGED <<up, first, disk, next_txn, cursor, crashes, durable>>
  BY DEF Change, redoVars
<1>2. Typed /\ Rows /\ LogInv
  BY ZenonT(60) DEF RInv, LogInv
<1>3. /\ page'.lsn = next_lsn /\ page'.slots = q2 /\ q2 \in SlotSeq /\ next_lsn' = next_lsn + 1
      /\ persistent_lsn' = persistent_lsn /\ flushes' = flushes /\ next_lsn \in Nat /\ next_lsn > 0
  BY <1>1, <1>2 DEF Sets, AppendLogRecord, Typed, Rows
<1>4. Rows'
  BY ZenonT(60), <1>1, <1>2, <1>3, ChangeRows
<1>5. r \in Record /\ r.lsn = next_lsn /\ r.type = type
  BY <1>3, Bounds DEF Rec, Record, Slot
<1>6. LogInv'
  <2>1. r.type \notin {"INVALID", "NEWPAGE"} /\ r.type \in Changes
    BY ZenonT(60), <1>5 DEF Changes
  <2>2. Follows(page.slots, r, page'.slots)
    BY ZenonT(60), <1>3, <2>1 DEF Follows
  <2>3. IF r.type \in Changes THEN page'.lsn = next_lsn ELSE page' = page
    BY ZenonT(60), <1>3, <2>1
  <2>4. up' = "run" /\ UNCHANGED <<first, disk, crashes, durable>> /\ page'.slots \in SlotSeq
    BY <1>1, <1>3
  <2>5. PICK x \in Record : x = r
    BY ZenonT(60), <1>5
  <2> HIDE DEF r
  <2>6. /\ AppendLogRecord(x) /\ x.lsn = next_lsn /\ x.type \notin {"INVALID", "NEWPAGE"}
        /\ (x.type \in Changes => next_lsn > 0)
        /\ (IF x.type \in Changes THEN page'.lsn = next_lsn ELSE page' = page)
        /\ Follows(page.slots, x, page'.slots)
    BY <1>1, <1>3, <1>5, <2>1, <2>2, <2>3, <2>5
  <2> QED BY ZenonT(60), <1>2, <2>4, <2>6, LogStep
<1>7. Typed'
  <2>1. page' \in Page
    BY <1>1, <1>3 DEF Page
  <2>2. txn' \in [Id -> TxnRecord]
    <3>1. /\ txn \in [Id -> TxnRecord]
          /\ txn[t] \in TxnRecord
      BY <1>2 DEF Typed
    <3>2. txn' = [txn EXCEPT ![t] = [[txn[t] EXCEPT !.prev_lsn = next_lsn] EXCEPT !.write_set = ws]]
      BY ZenonT(60), <1>1, <3>1
    <3>3. PICK x : x = [txn[t] EXCEPT !.prev_lsn = next_lsn]
      BY ZenonT(60)
    <3>4. x \in TxnRecord
      BY SMTT(60), <1>3, <3>1, <3>3 DEF TxnRecord
    <3>5. PICK y : y = [x EXCEPT !.write_set = ws]
      BY ZenonT(60)
    <3>6. y \in TxnRecord
      BY <3>4, <3>5 DEF TxnRecord
    <3>7. txn' = [txn EXCEPT ![t] = y]
      BY <3>2, <3>3, <3>5
    <3> QED BY ZenonT(60), <3>1, <3>6, <3>7
  <2>3. changers' \in [Slot -> SUBSET (Id \cup {Lost})]
    BY <1>1, <1>2 DEF Typed
  <2> QED BY <1>1, <1>2, <1>3, <2>1, <2>2, <2>3 DEF Typed
<1> QED BY <1>1, <1>4, <1>6, <1>7 DEF RInv, LogInv

-----------------------------------------------------------------------------
(* The steps of transactions.                                              *)

LEMMA Running ==
    ASSUME RInv, up = "run"
    PROVE  /\ Typed /\ Rows /\ LogInv /\ page.slots \in SlotSeq
           /\ lock \in [Slot -> Id \cup {NoTxn}] /\ committed \in [Slot -> Tuple \cup {NoTuple}]
           /\ \A t \in Id : Covers(t, txn[t], lock, page.slots, committed)
           /\ \A s \in Slot : lock[s] = NoTxn => Visible(page.slots)[s] = committed[s]
BY DEF RInv, LogInv, Typed, Page, Rows, Slots

LEMMA TxnChanged ==
    ASSUME Typed, NEW t \in Id, NEW ws,
           txn' = [txn EXCEPT ![t].prev_lsn = next_lsn, ![t].write_set = ws]
    PROVE  txn'[t].stage = txn[t].stage /\ txn'[t].write_set = ws
BY DEF Typed

\* A growing transaction adds an item.
LEMMA WriteInv ==
    ASSUME RInv, NEW t \in Id, Writing(t), NEW s \in Slot, NEW type \in Changes,
           NEW tu \in Tuple \cup {NoTuple}, NEW i \in Item, NEW v \in SlotState, NEW q2, Lock(t, s),
           Writes(t, s, txn[t].write_set, i, lock, page.slots, v, q2, committed),
           Change(t, s, type, tu, q2, Append(txn[t].write_set, i)), UNCHANGED committed,
           CanRedo(page.slots, Rec(type, t, s, tu)), q2 = Redone(page.slots, Rec(type, t, s, tu))
    PROVE  RInv'
<1> DEFINE w == txn[t].write_set
<1>1. up = "run" /\ txn[t].stage = "grow"
  BY ZenonT(60) DEF Writing, Growing
<1>2. /\ Typed /\ lock \in [Slot -> Id \cup {NoTxn}]
      /\ committed \in [Slot -> Tuple \cup {NoTuple}] /\ Covers(t, txn[t], lock, page.slots, committed)
  BY ZenonT(60), <1>1, Running
<1>3. w \in Seq(Item)
  BY ZenonT(60), <1>2, TxnTyped
<1>4. PICK ws : ws = Append(w, i)
  BY ZenonT(60)
<1>5. ws \in Seq(Item)
  BY ZenonT(60), <1>3, <1>4, Appended
<1>6. lock' = [lock EXCEPT ![s] = t] /\ lock[s] \in {t, NoTxn}
  BY DEF Lock, Lockable
<1>7. lock'[s] = t /\ lock' \in [Slot -> Id \cup {NoTxn}] /\ \A j \in Slot : j # s => lock'[j] = lock[j]
  BY <1>2, <1>6
<1>8. Undoable(t, w, lock, page.slots, committed) /\ Clean(t, w, lock, page.slots, committed)
  BY ZenonT(60), <1>1, <1>2 DEF Covers
<1>9. Undoable(t, ws, lock', q2, committed) /\ Clean(t, ws, lock', q2, committed)
  <2>1. PICK ww, lk, q, cm : ww = w /\ lk = lock /\ q = page.slots /\ cm = committed
    OBVIOUS
  <2>2. Writes(t, s, ww, i, lk, q, v, q2, cm) /\ Undoable(t, ww, lk, q, cm) /\ Clean(t, ww, lk, q, cm)
    BY <1>8, <2>1
  <2>3. Undoable(t, Append(ww, i), [lk EXCEPT ![s] = t], q2, cm) /\ Clean(t, Append(ww, i), [lk EXCEPT ![s] = t], q2, cm)
    BY <2>2, WriteItem
  <2> QED BY <1>4, <1>6, <2>1, <2>3
<1>10. txn'[t].stage = "grow" /\ txn'[t].write_set = ws
  BY ZenonT(60), <1>1, <1>2, <1>4, TxnChanged DEF Change
<1>11. Covers(t, txn'[t], lock', q2, committed')
  BY ZenonT(60), <1>9, <1>10 DEF Covers
<1>12. Active(txn[t]) /\ t # NoTxn
  BY <1>1 DEF Active, Id, NoTxn
<1>13. Sets(page.slots, s, v, q2)
  BY ZenonT(60) DEF Writes
<1>14. Change(t, s, type, tu, q2, ws)
  BY <1>4
<1>15. /\ lock'[s] \in {t, NoTxn} /\ lock[s] \in {t, NoTxn}
       /\ lock'[s] = NoTxn => Visible(q2)[s] = committed'[s]
       /\ committed' \in [Slot -> Tuple \cup {NoTuple}]
       /\ \A j \in Slot : j # s => lock'[j] = lock[j] /\ committed'[j] = committed[j]
  BY <1>2, <1>6, <1>7, <1>12
<1> QED BY ZenonT(60), <1>1, <1>5, <1>7, <1>11, <1>12, <1>13, <1>14, <1>15, ChangeInv

LEMMA InsertInv ==
    ASSUME RInv, NEW t \in Id, NEW tu \in Tuple, Insert(t, tu)
    PROVE  RInv'
<1> DEFINE q == page.slots
           i(s) == [wtype |-> "INSERT", slot |-> s, tuple |-> NoTuple]
<1>1. PICK s : s = SlotFor(q)
  OBVIOUS
<1>2. /\ Writing(t) /\ up = "run" /\ s <= SlotCount /\ Lock(t, s) /\ UNCHANGED committed
      /\ Change(t, s, "INSERT", tu, InsertTuple(q, tu), Append(txn[t].write_set, i(s)))
  BY ZenonT(60), <1>1 DEF Insert, Writing, Growing
<1>3. /\ Typed /\ q \in SlotSeq /\ lock \in [Slot -> Id \cup {NoTxn}] /\ txn[t].write_set \in Seq(Item)
      /\ \A r \in Slot : lock[r] = NoTxn => Visible(q)[r] = committed[r]
  BY ZenonT(60), <1>2, Running, TxnTyped
<1>4. s \in 1..(Len(q) + 1) /\ (s <= Len(q) => q[s] = Empty)
  BY <1>1, <1>3, SlotForFacts
<1>5. s \in Slot /\ Len(q) \in Nat
  BY <1>2, <1>3, <1>4, SeqFacts, Bounds DEF Slot
<1>6. Sets(q, s, Live(tu), InsertTuple(q, tu))
  BY ZenonT(60), <1>1, <1>2, <1>3, InsertSets
<1>7. Live(tu) \in SlotState /\ Live(tu).st = "live"
  BY States
<1>8. i(s) \in Item /\ i(s).slot = s /\ i(s).wtype = "INSERT"
  BY <1>5 DEF Item
<1>9. lock[s] \in {t, NoTxn}
  BY <1>2 DEF Lock, Lockable
<1>10. PICK x, v, q2 : x = i(s) /\ v = Live(tu) /\ q2 = InsertTuple(q, tu)
  BY ZenonT(60)
<1>11. Writes(t, s, txn[t].write_set, x, lock, q, v, q2, committed)
  <2> HIDE DEF i
  <2> QED BY ZenonT(60), <1>3, <1>4, <1>5, <1>6, <1>7, <1>8, <1>9, <1>10 DEF Writes
<1>12. CanRedo(q, Rec("INSERT", t, s, tu)) /\ q2 = Redone(q, Rec("INSERT", t, s, tu))
  BY <1>1, <1>2, <1>10 DEF CanRedo, Redone, Rec
<1>13. x \in Item /\ v \in SlotState /\ Change(t, s, "INSERT", tu, q2, Append(txn[t].write_set, x))
       /\ "INSERT" \in Changes
  BY <1>2, <1>7, <1>8, <1>10 DEF Changes
<1> QED BY <1>2, <1>5, <1>11, <1>12, <1>13, WriteInv

LEMMA DeleteInv ==
    ASSUME RInv, NEW t \in Id, NEW s \in Slot, Delete(t, s)
    PROVE  RInv'
<1> DEFINE q == page.slots
           i == [wtype |-> "DELETE", slot |-> s, tuple |-> NoTuple]
<1>1. /\ Writing(t) /\ up = "run" /\ s <= Len(q) /\ q[s].st = "live" /\ Lock(t, s) /\ UNCHANGED committed
      /\ Change(t, s, "MARKDELETE", q[s].tuple, MarkDelete(q, s), Append(txn[t].write_set, i))
  BY ZenonT(60) DEF Delete, Writing, Growing
<1>2. /\ Typed /\ q \in SlotSeq /\ lock \in [Slot -> Id \cup {NoTxn}] /\ txn[t].write_set \in Seq(Item)
      /\ \A r \in Slot : lock[r] = NoTxn => Visible(q)[r] = committed[r]
  BY ZenonT(60), <1>1, Running, TxnTyped
<1>3. s \in 1..Len(q) /\ q[s] \in SlotState /\ q[s].tuple \in Tuple
  BY <1>1, <1>2, SeqFacts, States, Bounds DEF Slot
<1>4. PICK x, v, q2, tu : x = i /\ v = Marked(q[s].tuple) /\ q2 = MarkDelete(q, s) /\ tu = q[s].tuple
  BY ZenonT(60)
<1>5. tu \in Tuple /\ v \in SlotState
  BY <1>3, <1>4, States
<1>6. Sets(q, s, v, q2)
  <2>1. q2 = [q EXCEPT ![s] = v]
    BY ZenonT(60), <1>1, <1>4 DEF MarkDelete
  <2> QED BY <1>2, <1>3, <1>5, <2>1, ExceptSets
<1>7. x \in Item /\ x.slot = s /\ x.wtype = "DELETE"
  BY <1>4 DEF Item
<1>8. lock[s] \in {t, NoTxn}
  BY ZenonT(60), <1>1 DEF Lock, Lockable
<1>9. Writes(t, s, txn[t].write_set, x, lock, q, v, q2, committed)
  BY ZenonT(60), <1>1, <1>2, <1>4, <1>5, <1>6, <1>7, <1>8 DEF Writes
<1>10. CanRedo(q, Rec("MARKDELETE", t, s, tu)) /\ q2 = Redone(q, Rec("MARKDELETE", t, s, tu))
  BY <1>1, <1>4 DEF CanRedo, Redone, Rec
<1>11. Change(t, s, "MARKDELETE", tu, q2, Append(txn[t].write_set, x)) /\ "MARKDELETE" \in Changes
  BY ZenonT(60), <1>1, <1>4 DEF Changes
<1> QED BY ZenonT(60), <1>1, <1>5, <1>7, <1>9, <1>10, <1>11, WriteInv

LEMMA UpdateInv ==
    ASSUME RInv, NEW t \in Id, NEW s \in Slot, NEW tu \in Tuple, Update(t, s, tu)
    PROVE  RInv'
<1> DEFINE q == page.slots
           i == [wtype |-> "UPDATE", slot |-> s, tuple |-> q[s].tuple]
<1>1. /\ Writing(t) /\ up = "run" /\ s <= Len(q) /\ q[s].st = "live" /\ Lock(t, s) /\ UNCHANGED committed
      /\ Change(t, s, "UPDATE", tu, UpdateTuple(q, s, tu), Append(txn[t].write_set, i))
  BY DEF Update, Writing, Growing
<1>2. /\ Typed /\ q \in SlotSeq /\ lock \in [Slot -> Id \cup {NoTxn}] /\ txn[t].write_set \in Seq(Item)
      /\ \A r \in Slot : lock[r] = NoTxn => Visible(q)[r] = committed[r]
  BY ZenonT(60), <1>1, Running, TxnTyped
<1>3. s \in 1..Len(q) /\ q[s] \in SlotState /\ q[s].tuple \in Tuple
  BY <1>1, <1>2, SeqFacts, States, Bounds DEF Slot
<1>4. PICK x, v, q2 : x = i /\ v = Live(tu) /\ q2 = UpdateTuple(q, s, tu)
  BY ZenonT(60)
<1>5. v \in SlotState /\ v.st = "live"
  BY <1>4, States
<1>6. Sets(q, s, v, q2)
  BY <1>2, <1>3, <1>4, <1>5, ExceptSets DEF UpdateTuple
<1>7. x \in Item /\ x.slot = s /\ x.wtype = "UPDATE" /\ x.tuple = q[s].tuple
  BY <1>3, <1>4 DEF Item
<1>8. lock[s] \in {t, NoTxn}
  BY <1>1 DEF Lock, Lockable
<1>9. Writes(t, s, txn[t].write_set, x, lock, q, v, q2, committed)
  BY ZenonT(60), <1>1, <1>2, <1>5, <1>6, <1>7, <1>8 DEF Writes
<1>10. CanRedo(q, Rec("UPDATE", t, s, tu)) /\ q2 = Redone(q, Rec("UPDATE", t, s, tu))
  BY <1>1, <1>4 DEF CanRedo, Redone, Rec
<1>11. Change(t, s, "UPDATE", tu, q2, Append(txn[t].write_set, x)) /\ "UPDATE" \in Changes
  BY ZenonT(60), <1>1, <1>4 DEF Changes
<1> QED BY ZenonT(60), <1>1, <1>5, <1>7, <1>9, <1>10, <1>11, WriteInv

LEMMA LastLocked ==
    ASSUME NEW t, NEW w \in Seq(Item), w # <<>>, NEW lk, NEW q, NEW cm, Undoable(t, w, lk, q, cm)
    PROVE  lk[w[Len(w)].slot] = t
<1>1. Len(w) \in 1..Len(w)
  OBVIOUS
<1> QED BY ZenonT(60), <1>1 DEF Undoable

\* Abort undoes the last item.
LEMMA UndoInv ==
    ASSUME RInv, up = "run", NEW t \in Id, txn[t].stage = "abort", NEW s \in Slot,
           NEW type \in Changes, NEW tu \in Tuple \cup {NoTuple}, NEW v \in SlotState, NEW q2,
           Undoes(t, s, txn[t].write_set, lock, lock', page.slots, v, q2), UNCHANGED committed,
           Change(t, s, type, tu, q2, SubSeq(txn[t].write_set, 1, Len(txn[t].write_set) - 1)),
           CanRedo(page.slots, Rec(type, t, s, tu)), q2 = Redone(page.slots, Rec(type, t, s, tu))
    PROVE  RInv'
<1> DEFINE w == txn[t].write_set
<1>1. /\ Typed /\ lock \in [Slot -> Id \cup {NoTxn}]
      /\ committed \in [Slot -> Tuple \cup {NoTuple}] /\ Covers(t, txn[t], lock, page.slots, committed)
  BY ZenonT(60), Running
<1>2. w \in Seq(Item) /\ w # <<>> /\ w[Len(w)].slot = s
  BY ZenonT(60) DEF Undoes
<1>3. PICK ws : ws = SubSeq(w, 1, Len(w) - 1)
  BY ZenonT(60)
<1>4. ws \in Seq(Item) /\ Len(w) \in Nat \ {0}
  BY ZenonT(60), <1>2, <1>3, Popped
<1>5. Undoable(t, w, lock, page.slots, committed) /\ Clean(t, w, lock, page.slots, committed)
  BY ZenonT(60), <1>1 DEF Covers
<1>6. lock[s] = t
  BY ZenonT(60), <1>2, <1>5, LastLocked
<1>7. lock' = lock \/ lock' = [lock EXCEPT ![s] = NoTxn]
  BY ZenonT(60) DEF Undoes
<1>8. /\ lock' \in [Slot -> Id \cup {NoTxn}] /\ lock'[s] \in {t, NoTxn}
      /\ \A j \in Slot : j # s => lock'[j] = lock[j]
  BY ZenonT(60), <1>1, <1>6, <1>7
<1>9. /\ Undoable(t, ws, lock', q2, committed) /\ Clean(t, ws, lock', q2, committed)
      /\ lock'[s] = NoTxn => Visible(q2)[s] = committed[s]
  <2>1. PICK ww, lk, lk2, q, cm : ww = w /\ lk = lock /\ lk2 = lock' /\ q = page.slots /\ cm = committed
    BY ZenonT(60)
  <2>2. Undoes(t, s, ww, lk, lk2, q, v, q2) /\ Undoable(t, ww, lk, q, cm) /\ Clean(t, ww, lk, q, cm)
    BY ZenonT(60), <1>5, <2>1
  <2>3. /\ Undoable(t, SubSeq(ww, 1, Len(ww) - 1), lk2, q2, cm)
        /\ Clean(t, SubSeq(ww, 1, Len(ww) - 1), lk2, q2, cm)
        /\ lk2[s] = NoTxn => Visible(q2)[s] = cm[s]
    BY <2>2, UndoItem
  <2> QED BY ZenonT(60), <1>3, <2>1, <2>3
<1>10. txn'[t].stage = "abort" /\ txn'[t].write_set = ws
  BY ZenonT(60), <1>1, <1>3, TxnChanged DEF Change
<1>11. Covers(t, txn'[t], lock', q2, committed')
  BY ZenonT(60), <1>9, <1>10 DEF Covers
<1>12. Active(txn[t]) /\ lock[s] \in {t, NoTxn} /\ Sets(page.slots, s, v, q2)
       /\ Change(t, s, type, tu, q2, ws)
  BY ZenonT(60), <1>3, <1>6 DEF Active, Undoes
<1>13. /\ committed' \in [Slot -> Tuple \cup {NoTuple}]
       /\ lock'[s] = NoTxn => Visible(q2)[s] = committed'[s]
       /\ \A j \in Slot : j # s => lock'[j] = lock[j] /\ committed'[j] = committed[j]
  BY ZenonT(60), <1>1, <1>8, <1>9
<1> QED BY ZenonT(60), <1>4, <1>8, <1>11, <1>12, <1>13, ChangeInv

\* The last item of a write set, and what it says of its slot in a transaction
\* that aborts.
LEMMA LastItem ==
    ASSUME RInv, up = "run", NEW t \in Id, txn[t].write_set # <<>>,
           NEW i, i = txn[t].write_set[Len(txn[t].write_set)], NEW s, s = i.slot
    PROVE  /\ txn[t].write_set \in Seq(Item) /\ i \in Item /\ s \in Slot
           /\ txn[t].stage = "abort" =>
                /\ s \in 1..Len(page.slots) /\ lock[s] = t
                /\ page.slots[s] \in SlotState /\ page.slots[s].tuple \in Tuple
                /\ page.slots[s].st = IF i.wtype = "DELETE" THEN "marked" ELSE "live"
           /\ txn[t].stage = "commit" /\ i.wtype = "DELETE" =>
                /\ s \in 1..Len(page.slots) /\ lock[s] = t
                /\ page.slots[s] \in SlotState /\ page.slots[s].tuple \in Tuple
                /\ page.slots[s].st = "marked"
<1> DEFINE w == txn[t].write_set
           q == page.slots
<1>1. Typed /\ q \in SlotSeq /\ Covers(t, txn[t], lock, q, committed)
  BY Running
<1>2. w \in Seq(Item)
  BY <1>1, TxnTyped
<1>3. PICK n \in Nat \ {0} : n = Len(w)
  BY <1>2, Popped
<1>4. i = w[n] /\ \A k \in 1..n : w[k] \in Item
  BY <1>2, <1>3, Popped
<1>5. i \in Item /\ s \in Slot
  BY <1>3, <1>4 DEF Item
<1>6. ASSUME s <= Len(q) PROVE s \in 1..Len(q) /\ q[s] \in SlotState
  BY <1>1, <1>5, <1>6, SeqFacts, Bounds DEF Slot
<1>7. ASSUME txn[t].stage = "abort"
      PROVE  s <= Len(q) /\ lock[s] = t /\ q[s].st = IF i.wtype = "DELETE" THEN "marked" ELSE "live"
  <2>1. Undoable(t, w, lock, q, committed)
    BY <1>1, <1>7 DEF Covers
  <2>2. /\ lock[s] = t /\ s <= Len(q)
        /\ \A j \in 1..(n - 1) : w[j].slot = s => w[j].wtype # "DELETE"
        /\ i.wtype = "DELETE" => q[s].st = "marked"
        /\ (\A j \in 1..n : w[j].slot = s => w[j].wtype # "DELETE") => q[s].st = "live"
    BY <1>3, <1>4, <2>1 DEF Undoable
  <2>3. \A j \in 1..n : j = n \/ j \in 1..(n - 1)
    BY <1>3
  <2> QED BY <1>4, <2>2, <2>3
<1>8. ASSUME txn[t].stage = "commit", i.wtype = "DELETE"
      PROVE  s <= Len(q) /\ lock[s] = t /\ q[s].st = "marked"
  BY <1>1, <1>3, <1>4, <1>8 DEF Covers, Appliable
<1>9. ASSUME s <= Len(q), q[s].st \in {"live", "marked"} PROVE q[s].tuple \in Tuple
  BY <1>6, <1>9, States
<1> QED BY ZenonT(60), <1>2, <1>5, <1>6, <1>7, <1>8, <1>9

\* Commit applies a deletion.
LEMMA ApplyInv ==
    ASSUME RInv, up = "run", NEW t \in Id, txn[t].stage = "commit", txn[t].write_set # <<>>,
           NEW i, i = txn[t].write_set[Len(txn[t].write_set)], NEW s, s = i.slot, i.wtype = "DELETE",
           Apply(t, s, SubSeq(txn[t].write_set, 1, Len(txn[t].write_set) - 1))
    PROVE  RInv'
<1> DEFINE w == txn[t].write_set
           q == page.slots
<1>1. /\ Typed /\ q \in SlotSeq /\ lock \in [Slot -> Id \cup {NoTxn}]
      /\ committed \in [Slot -> Tuple \cup {NoTuple}] /\ Covers(t, txn[t], lock, q, committed)
  BY Running
<1>2. /\ w \in Seq(Item) /\ s \in Slot /\ s \in 1..Len(q) /\ lock[s] = t
      /\ q[s].tuple \in Tuple /\ q[s].st = "marked"
  BY LastItem
<1>3. PICK ws, q2, tu : ws = SubSeq(w, 1, Len(w) - 1) /\ q2 = ApplyDelete(q, s) /\ tu = q[s].tuple
  BY ZenonT(60)
<1>4. ws \in Seq(Item)
  BY ZenonT(60), <1>2, <1>3, Popped
<1>5. /\ Change(t, s, "APPLYDELETE", tu, q2, ws) /\ lock' = [lock EXCEPT ![s] = NoTxn]
      /\ committed' = [committed EXCEPT ![s] = NoTuple]
  BY ZenonT(60), <1>3 DEF Apply
<1>6. Empty \in SlotState /\ Sets(q, s, Empty, q2)
  BY ZenonT(60), <1>1, <1>2, <1>3, States, ExceptSets DEF ApplyDelete
<1>7. Appliable(t, w, lock, q)
  BY ZenonT(60), <1>1 DEF Covers
<1>8. Appliable(t, ws, lock', q2) /\ Visible(q2)[s] = NoTuple
  <2>1. PICK ww, lk, lk2, p : ww = w /\ lk = lock /\ lk2 = lock' /\ p = q
    OBVIOUS
  <2>2. Applies(t, s, ww, ws, lk, lk2, p, q2) /\ Appliable(t, ww, lk, p)
    <3>1. w # <<>> /\ w[Len(w)].slot = s /\ w[Len(w)].wtype = "DELETE"
      OBVIOUS
    <3> QED BY ZenonT(60), <1>1, <1>2, <1>3, <1>5, <1>6, <1>7, <2>1, <3>1 DEF Applies
  <2>3. Appliable(t, ws, lk2, q2) /\ Visible(q2)[s] = NoTuple
    BY <2>2, ApplyItem
  <2> QED BY <2>1, <2>3
<1>9. txn'[t].stage = "commit" /\ txn'[t].write_set = ws
  <2>1. txn' = [txn EXCEPT ![t].prev_lsn = next_lsn, ![t].write_set = ws]
    BY <1>5 DEF Change
  <2> QED BY ZenonT(60), <1>1, <2>1, TxnChanged
<1>10. Covers(t, txn'[t], lock', q2, committed')
  BY ZenonT(60), <1>8, <1>9 DEF Covers
<1>11. CanRedo(q, Rec("APPLYDELETE", t, s, tu)) /\ q2 = Redone(q, Rec("APPLYDELETE", t, s, tu))
  <2>1. q[s] # Empty /\ s <= Len(q)
    BY <1>1, <1>2, States, SeqFacts
  <2> QED BY <1>3, <2>1 DEF CanRedo, Redone, Rec
<1>12. /\ lock' \in [Slot -> Id \cup {NoTxn}] /\ committed' \in [Slot -> Tuple \cup {NoTuple}]
       /\ lock'[s] \in {t, NoTxn} /\ lock[s] \in {t, NoTxn}
       /\ lock'[s] = NoTxn => Visible(q2)[s] = committed'[s]
       /\ \A j \in Slot : j # s => lock'[j] = lock[j] /\ committed'[j] = committed[j]
  BY ZenonT(60), <1>1, <1>2, <1>5, <1>8
<1>13. PICK type \in Changes, v \in SlotState : type = "APPLYDELETE" /\ v = Empty
  BY <1>6 DEF Changes
<1>14. /\ Sets(q, s, v, q2) /\ Change(t, s, type, tu, q2, ws)
       /\ CanRedo(q, Rec(type, t, s, tu)) /\ q2 = Redone(q, Rec(type, t, s, tu))
  BY ZenonT(60), <1>5, <1>6, <1>11, <1>13
<1>15. Active(txn[t]) /\ tu \in Tuple \cup {NoTuple}
  BY ZenonT(60), <1>2, <1>3 DEF Active
<1> QED BY ZenonT(60), <1>2, <1>4, <1>10, <1>12, <1>13, <1>14, <1>15, ChangeInv

\* A step that changes what txn has of t and nothing of the page.
LEMMA TxnRows ==
    ASSUME Typed, Rows, NEW t \in Id, NEW x, txn' = [txn EXCEPT ![t] = x],
           Covers(t, x, lock, page.slots, committed), Active(x),
           txn[t].prev_lsn > persistent_lsn => x.prev_lsn > persistent_lsn,
           next_lsn' \in Nat, next_lsn' > 0, next_lsn' >= next_lsn,
           \A u \in Id : u >= next_txn' => u # t /\ txn[u].stage = "none",
           UNCHANGED <<page, lock, committed, changers, durable, persistent_lsn>>
    PROVE  Rows'
<1>1. txn'[t] = x /\ \A u \in Id : u # t => txn'[u] = txn[u]
  BY DEF Typed
<1>2. \A u \in Id : Covers(u, txn'[u], lock, page.slots, committed)
  BY <1>1 DEF Rows
<1>3. ASSUME NEW u \in Id PROVE /\ Active(txn[u]) => Active(txn'[u])
                                /\ txn[u].prev_lsn > persistent_lsn => txn'[u].prev_lsn > persistent_lsn
  BY <1>1
<1>4. Slots(txn', lock, page.slots, committed, changers, durable, persistent_lsn)
  <2>1. Slots(txn, lock, page.slots, committed, changers, durable, persistent_lsn)
    BY DEF Rows
  <2> QED BY ZenonT(60), <1>3, <2>1 DEF Slots
<1>5. \A u \in Id : u >= next_txn' => txn'[u].stage = "none"
  BY <1>1
<1>6. persistent_lsn' < next_lsn'
  BY DEF Rows, Typed
<1>7. /\ \A u \in Id : Covers(u, txn[u], lock, page.slots, committed)'
      /\ Slots(txn, lock, page.slots, committed, changers, durable, persistent_lsn)'
  BY <1>2, <1>4
<1> QED BY <1>5, <1>6, <1>7 DEF Rows

\* A step that leaves the log and the page alone.
LEMMA QuietLog ==
    ASSUME LogInv, UNCHANGED <<up, first, page, disk, file, buffer, next_lsn, persistent_lsn>>,
           UNCHANGED <<crashes, durable, cursor>>
    PROVE  LogInv'
<1>1. PICK h : Logged(h)
  BY DEF LogInv
<1>2. Logged(h)'
  BY ZenonT(60), <1>1 DEF Logged
<1> QED BY <1>2 DEF LogInv, Fresh, Written

LEMMA RunInv ==
    ASSUME Typed', LogInv', Rows', up' = "run"
    PROVE  RInv'
BY DEF RInv, LogInv

\* Commit goes over an item that is no deletion.
LEMMA SkipInv ==
    ASSUME RInv, up = "run", NEW t \in Id, txn[t].stage = "commit", txn[t].write_set # <<>>,
           txn' = [txn EXCEPT ![t].write_set = SubSeq(txn[t].write_set, 1, Len(txn[t].write_set) - 1)],
           UNCHANGED <<up, first, page, disk, logVars, next_txn, lock, redoVars, crashes, ghosts>>
    PROVE  RInv'
<1> DEFINE w == txn[t].write_set
<1>1. /\ Typed /\ Rows /\ LogInv /\ Covers(t, txn[t], lock, page.slots, committed)
      /\ txn[t] \in TxnRecord /\ w \in Seq(Item) /\ next_lsn \in Nat
  BY Running, TxnTyped DEF Typed
<1>2. PICK ws \in Seq(Item) : ws = SubSeq(w, 1, Len(w) - 1)
  BY ZenonT(60), <1>1, Popped
<1>3. PICK x : x = [txn[t] EXCEPT !.write_set = ws]
  BY ZenonT(60)
<1>4. x \in TxnRecord /\ x.stage = "commit" /\ x.write_set = ws /\ x.prev_lsn = txn[t].prev_lsn
  BY ZenonT(60), <1>1, <1>2, <1>3 DEF TxnRecord
<1>5. txn' = [txn EXCEPT ![t] = x]
  BY <1>1, <1>2, <1>3
<1>6. UNCHANGED <<page, lock, committed, changers, durable, persistent_lsn, next_lsn, next_txn>>
  BY DEF logVars, ghosts
<1>7. Appliable(t, ws, lock, page.slots)
  <2>1. Appliable(t, w, lock, page.slots)
    BY <1>1 DEF Covers
  <2>2. PICK ww, lk, q : ww \in Seq(Item) /\ ww = w /\ lk = lock /\ q = page.slots
    BY <1>1
  <2>3. Appliable(t, SubSeq(ww, 1, Len(ww) - 1), lk, q)
    BY <2>1, <2>2, SkipItem
  <2> QED BY <1>2, <2>2, <2>3
<1>8. Covers(t, x, lock, page.slots, committed) /\ Active(x)
  BY <1>4, <1>7 DEF Covers, Active
<1>9. Active(txn[t])
  BY DEF Active
<1>10. /\ next_lsn' \in Nat /\ next_lsn' > 0 /\ next_lsn' >= next_lsn
       /\ \A u \in Id : u >= next_txn' => u # t /\ txn[u].stage = "none"
  BY <1>1, <1>6, <1>9 DEF Rows
<1>11. Rows'
  BY ZenonT(60), <1>1, <1>4, <1>5, <1>6, <1>8, <1>10, TxnRows
<1>12. LogInv'
  BY <1>1, QuietLog DEF logVars, redoVars, ghosts
<1>13. Typed'
  BY ZenonT(60), <1>1, <1>4, <1>5, TxnSet DEF Typed, logVars, ghosts
<1> QED BY <1>11, <1>12, <1>13, RunInv

LEMMA WorkOffInv ==
    ASSUME RInv, NEW t \in Id, WorkOff(t)
    PROVE  RInv'
<1> DEFINE w == txn[t].write_set
           q == page.slots
           rest == SubSeq(w, 1, Len(w) - 1)
<1>1. PICK i, s : i = w[Len(w)] /\ s = i.slot
  OBVIOUS
<1>2. /\ up = "run" /\ txn[t].stage \in {"commit", "abort"} /\ w # <<>>
      /\ \/ /\ i.wtype = (IF txn[t].stage = "commit" THEN "DELETE" ELSE "INSERT")
            /\ Apply(t, s, rest)
         \/ /\ txn[t].stage = "commit" /\ i.wtype # "DELETE"
            /\ txn' = [txn EXCEPT ![t].write_set = rest]
            /\ UNCHANGED <<up, first, page, disk, logVars, next_txn, lock, redoVars, crashes, ghosts>>
         \/ /\ txn[t].stage = "abort" /\ i.wtype = "DELETE"
            /\ Change(t, s, "ROLLBACKDELETE", q[s].tuple, RollbackDelete(q, s), rest)
            /\ UNCHANGED <<lock, committed>>
         \/ /\ txn[t].stage = "abort" /\ i.wtype = "UPDATE"
            /\ Change(t, s, "UPDATE", i.tuple, UpdateTuple(q, s, i.tuple), rest)
            /\ UNCHANGED <<lock, committed>>
  BY <1>1 DEF WorkOff
<1>a. up = "run" /\ w # <<>>
  BY ZenonT(60), <1>2
<1>3. w \in Seq(Item) /\ i \in Item /\ s \in Slot /\ q \in SlotSeq /\ lock \in [Slot -> Id \cup {NoTxn}]
  BY <1>1, <1>a, LastItem, Running
<1>4. txn[t].stage = "abort" =>
        /\ s \in 1..Len(q) /\ lock[s] = t /\ q[s] \in SlotState /\ q[s].tuple \in Tuple
        /\ q[s].st = IF i.wtype = "DELETE" THEN "marked" ELSE "live"
  BY <1>1, <1>a, LastItem
<1>5. s \in 1..Len(q) => s <= Len(q)
  BY <1>3, SeqFacts
<1> HIDE DEF rest
<1>6. CASE txn[t].stage = "commit" /\ i.wtype = "DELETE" /\ Apply(t, s, rest)
  BY <1>1, <1>2, <1>6, ApplyInv DEF rest
<1>7. CASE txn[t].stage = "abort" /\ i.wtype = "INSERT" /\ Apply(t, s, rest)
  <2>1. PICK type, v, q2, tu :
          type \in Changes /\ v \in SlotState /\ type = "APPLYDELETE" /\ v = Empty /\ q2 = ApplyDelete(q, s) /\ tu = q[s].tuple
    BY States DEF Changes
  <2>2. /\ Change(t, s, type, tu, q2, rest) /\ lock' = [lock EXCEPT ![s] = NoTxn] /\ UNCHANGED committed
    BY <1>7, <2>1 DEF Apply
  <2>3. Sets(q, s, v, q2)
    BY ZenonT(60), <1>3, <1>4, <1>7, <2>1, ExceptSets DEF ApplyDelete
  <2>4. Undoes(t, s, w, lock, lock', q, v, q2)
    BY ZenonT(60), <1>1, <1>2, <1>3, <1>7, <2>1, <2>2, <2>3 DEF Undoes
  <2>5. q[s] # Empty
    BY <1>4, <1>7, States
  <2>6. CanRedo(q, Rec(type, t, s, tu)) /\ q2 = Redone(q, Rec(type, t, s, tu))
    BY <1>4, <1>5, <1>7, <2>1, <2>5 DEF CanRedo, Redone, Rec
  <2>7. tu \in Tuple \cup {NoTuple}
    BY <1>4, <1>7, <2>1
  <2> QED BY ZenonT(60), <1>2, <1>3, <1>7, <2>1, <2>2, <2>4, <2>6, <2>7, UndoInv DEF rest
<1>8. CASE /\ txn[t].stage = "commit" /\ i.wtype # "DELETE" /\ txn' = [txn EXCEPT ![t].write_set = rest]
           /\ UNCHANGED <<up, first, page, disk, logVars, next_txn, lock, redoVars, crashes, ghosts>>
  BY ZenonT(60), <1>2, <1>8, SkipInv DEF rest
<1>9. CASE /\ txn[t].stage = "abort" /\ i.wtype = "DELETE" /\ UNCHANGED <<lock, committed>>
           /\ Change(t, s, "ROLLBACKDELETE", q[s].tuple, RollbackDelete(q, s), rest)
  <2>1. PICK type, v, q2, tu :
          type \in Changes /\ v \in SlotState /\ type = "ROLLBACKDELETE" /\ v = Live(q[s].tuple) /\ q2 = RollbackDelete(q, s) /\ tu = q[s].tuple
    BY <1>4, <1>9, States DEF Changes
  <2>2. Change(t, s, type, tu, q2, rest)
    BY ZenonT(60), <1>9, <2>1
  <2>3. Sets(q, s, v, q2)
    <3>1. q2 = [q EXCEPT ![s] = v]
      BY <1>4, <1>9, <2>1 DEF RollbackDelete
    <3> QED BY ZenonT(60), <1>3, <1>4, <1>9, <2>1, <3>1, ExceptSets
  <2>4. Undoes(t, s, w, lock, lock', q, v, q2)
    BY ZenonT(60), <1>1, <1>2, <1>3, <1>9, <2>1, <2>3 DEF Undoes
  <2>5. CanRedo(q, Rec(type, t, s, tu)) /\ q2 = Redone(q, Rec(type, t, s, tu))
    BY <1>4, <1>5, <1>9, <2>1 DEF CanRedo, Redone, Rec
  <2>6. tu \in Tuple \cup {NoTuple}
    BY <1>4, <1>9, <2>1
  <2> QED BY <1>2, <1>3, <1>9, <2>1, <2>2, <2>4, <2>5, <2>6, UndoInv DEF rest
<1>10. CASE /\ txn[t].stage = "abort" /\ i.wtype = "UPDATE" /\ UNCHANGED <<lock, committed>>
            /\ Change(t, s, "UPDATE", i.tuple, UpdateTuple(q, s, i.tuple), rest)
  <2>1. i.tuple \in Tuple
    BY <1>3, <1>10 DEF Item
  <2>2. PICK type, v, q2, tu :
          type \in Changes /\ v \in SlotState /\ type = "UPDATE" /\ v = Live(i.tuple) /\ q2 = UpdateTuple(q, s, i.tuple) /\ tu = i.tuple
    BY <2>1, States DEF Changes
  <2>3. Change(t, s, type, tu, q2, rest)
    BY <1>10, <2>2
  <2>4. Sets(q, s, v, q2)
    BY ZenonT(60), <1>3, <1>4, <1>10, <2>2, ExceptSets DEF UpdateTuple
  <2>5. Undoes(t, s, w, lock, lock', q, v, q2)
    BY ZenonT(60), <1>1, <1>2, <1>3, <1>10, <2>2, <2>4 DEF Undoes
  <2>6. CanRedo(q, Rec(type, t, s, tu)) /\ q2 = Redone(q, Rec(type, t, s, tu))
    BY <1>4, <1>5, <1>10, <2>2 DEF CanRedo, Redone, Rec
  <2>7. tu \in Tuple \cup {NoTuple}
    BY <2>1, <2>2
  <2> QED BY <1>2, <1>3, <1>10, <2>2, <2>3, <2>5, <2>6, <2>7, UndoInv DEF rest
<1> QED BY <1>2, <1>6, <1>7, <1>8, <1>9, <1>10

\* A record that is not about the page.
LEMMA RecordLog ==
    ASSUME Typed, Rows, LogInv, up = "run", NEW type \in {"BEGIN", "COMMIT", "ABORT"}, NEW t \in Id,
           AppendLogRecord(Rec(type, t, 0, NoTuple)), UNCHANGED <<up, first, page, disk, crashes, durable>>
    PROVE  /\ LogInv' /\ next_lsn' = next_lsn + 1 /\ next_lsn' \in Nat
           /\ UNCHANGED <<persistent_lsn, flushes>>
<1>1. next_lsn \in Nat /\ page.slots \in SlotSeq
  BY DEF Typed, Page
<1>2. PICK r \in Record : r = Rec(type, t, 0, NoTuple)
  BY <1>1 DEF Rec, Record
<1>3. r.lsn = next_lsn /\ r.type = type
  BY <1>2 DEF Rec
<1>4. r.type \notin {"INVALID", "NEWPAGE"} /\ r.type \notin Changes
  BY <1>3 DEF Changes
<1>5. /\ AppendLogRecord(r) /\ r.lsn = next_lsn /\ (r.type \in Changes => next_lsn > 0)
      /\ (IF r.type \in Changes THEN page'.lsn = next_lsn ELSE page' = page)
      /\ Follows(page.slots, r, page'.slots) /\ page'.slots \in SlotSeq /\ up' = "run"
  BY <1>1, <1>2, <1>3, <1>4 DEF Follows
<1>6. LogInv'
  BY <1>4, <1>5, LogStep
<1> QED BY <1>1, <1>6 DEF AppendLogRecord

LEMMA BeginInv ==
    ASSUME RInv, Begin
    PROVE  RInv'
<1>1. PICK t, x : t = next_txn /\ x = [stage |-> "grow", write_set |-> <<>>, prev_lsn |-> next_lsn]
  BY ZenonT(60)
<1>2. /\ up = "run" /\ t < MaxTxn - crashes /\ AppendLogRecord(Rec("BEGIN", t, 0, NoTuple))
      /\ txn' = [txn EXCEPT ![t] = x] /\ next_txn' = t + 1
      /\ UNCHANGED <<up, first, page, disk, lock, crashes, durable, committed, changers>>
  BY <1>1 DEF Begin, ghosts
<1>3. Typed /\ Rows /\ LogInv /\ next_txn \in Nat /\ crashes \in Nat /\ next_lsn \in Nat
  BY ZenonT(60), <1>2, Running DEF Typed
<1>4. t \in Id
  BY <1>1, <1>2, <1>3, Bounds DEF Id
<1>5. /\ LogInv' /\ next_lsn' = next_lsn + 1 /\ next_lsn' \in Nat /\ UNCHANGED <<persistent_lsn, flushes>>
  BY <1>2, <1>3, <1>4, RecordLog
<1>6. \A s \in Slot : lock[s] # t
  <2> SUFFICES ASSUME NEW s \in Slot, lock[s] = t PROVE FALSE
    OBVIOUS
  <2>1. t # NoTxn
    BY <1>4 DEF Id, NoTxn
  <2>2. Active(txn[t])
    BY ZenonT(60), <1>3, <2>1 DEF Rows, Slots
  <2>3. txn[t].stage = "none"
    BY <1>1, <1>3, <1>4 DEF Rows
  <2> QED BY <2>2, <2>3 DEF Active
<1>7. x.stage = "grow" /\ x.write_set = <<>> /\ x.prev_lsn = next_lsn /\ x \in TxnRecord
  BY <1>1, <1>3 DEF TxnRecord, Stages
<1>8. Covers(t, x, lock, page.slots, committed) /\ Active(x)
  <2>1. Undoable(t, <<>>, lock, page.slots, committed)
    BY DEF Undoable
  <2>2. Clean(t, <<>>, lock, page.slots, committed)
    BY <1>6 DEF Clean
  <2> QED BY <1>7, <2>1, <2>2 DEF Covers, Active
<1>9. /\ next_lsn' > 0 /\ next_lsn' >= next_lsn /\ x.prev_lsn > persistent_lsn
      /\ \A u \in Id : u >= next_txn' => u # t /\ txn[u].stage = "none"
  BY <1>1, <1>2, <1>3, <1>5, <1>7 DEF Rows, Typed, Id
<1>10. UNCHANGED <<page, lock, committed, changers, durable, persistent_lsn>>
  BY <1>2, <1>5
<1>11. Rows'
  BY ZenonT(60), <1>2, <1>3, <1>4, <1>5, <1>8, <1>9, <1>10, TxnRows
<1>12. txn' \in [Id -> TxnRecord] /\ next_txn' \in Nat
  <2>1. next_txn' \in Nat
    BY <1>1, <1>2, <1>3
  <2>2. txn' \in [Id -> TxnRecord]
    BY ZenonT(60), <1>2, <1>3, <1>4, <1>7, TxnSet
  <2> QED BY <2>1, <2>2
<1>13. Typed'
  BY <1>2, <1>3, <1>5, <1>12 DEF Typed
<1> QED BY <1>2, <1>5, <1>11, <1>13, RunInv

LEMMA EndInv ==
    ASSUME RInv, NEW t \in Id, NEW how \in {"commit", "abort"}, End(t, how)
    PROVE  RInv'
<1>1. /\ up = "run" /\ txn[t].stage = "grow" /\ txn' = [txn EXCEPT ![t].stage = how]
      /\ UNCHANGED <<up, first, page, disk, file, buffer, next_lsn, persistent_lsn, flushes>>
      /\ UNCHANGED <<next_txn, lock, cursor, crashes, durable, committed, changers>>
  BY DEF End, Growing, logVars, redoVars, ghosts
<1>2. /\ Typed /\ Rows /\ LogInv /\ Covers(t, txn[t], lock, page.slots, committed)
      /\ txn[t] \in TxnRecord /\ txn[t].write_set \in Seq(Item) /\ next_lsn \in Nat
  BY <1>1, Running, TxnTyped DEF Typed
<1>3. PICK x : x = [txn[t] EXCEPT !.stage = how]
  BY ZenonT(60)
<1>4. x \in TxnRecord /\ x.stage = how /\ x.write_set = txn[t].write_set /\ x.prev_lsn = txn[t].prev_lsn
  BY <1>2, <1>3 DEF TxnRecord, Stages
<1>5. txn' = [txn EXCEPT ![t] = x]
  BY <1>1, <1>2, <1>3
<1>6. /\ Undoable(t, x.write_set, lock, page.slots, committed)
      /\ Clean(t, x.write_set, lock, page.slots, committed)
  BY <1>1, <1>2, <1>4 DEF Covers
<1>7. Appliable(t, x.write_set, lock, page.slots)
  BY ZenonT(60), <1>6 DEF Undoable, Appliable
<1>8. Covers(t, x, lock, page.slots, committed) /\ Active(x) /\ Active(txn[t])
  BY <1>1, <1>4, <1>6, <1>7 DEF Covers, Active
<1>9. /\ next_lsn' \in Nat /\ next_lsn' > 0 /\ next_lsn' >= next_lsn
      /\ \A u \in Id : u >= next_txn' => u # t /\ txn[u].stage = "none"
  BY <1>1, <1>2, <1>8 DEF Rows
<1>10. Rows'
  BY ZenonT(60), <1>1, <1>2, <1>4, <1>5, <1>8, <1>9, TxnRows
<1>11. LogInv'
  BY <1>1, <1>2, QuietLog
<1>12. Typed'
  BY <1>1, <1>2, <1>4, <1>5, TxnSet DEF Typed
<1> QED BY <1>1, <1>10, <1>11, <1>12, RunInv

LEMMA EndRecordInv ==
    ASSUME RInv, NEW t \in Id, EndRecord(t)
    PROVE  RInv'
<1>1. PICK type \in {"COMMIT", "ABORT"}, how \in {"committing", "aborting"} :
        /\ type = IF txn[t].stage = "commit" THEN "COMMIT" ELSE "ABORT"
        /\ how = IF txn[t].stage = "commit" THEN "committing" ELSE "aborting"
  OBVIOUS
<1>2. /\ up = "run" /\ txn[t].stage \in {"commit", "abort"} /\ txn[t].write_set = <<>>
      /\ AppendLogRecord(Rec(type, t, 0, NoTuple))
      /\ txn' = [txn EXCEPT ![t].prev_lsn = next_lsn,
                            ![t].stage = IF @ = "commit" THEN "committing" ELSE "aborting"]
      /\ UNCHANGED <<up, first, page, disk, next_txn, lock, crashes, durable, committed, changers>>
  BY <1>1 DEF EndRecord, ghosts
<1>3. /\ Typed /\ Rows /\ LogInv /\ Covers(t, txn[t], lock, page.slots, committed)
      /\ txn[t] \in TxnRecord /\ next_lsn \in Nat /\ persistent_lsn \in Int
  BY <1>2, Running DEF Typed
<1>4. /\ LogInv' /\ next_lsn' = next_lsn + 1 /\ next_lsn' \in Nat /\ UNCHANGED <<persistent_lsn, flushes>>
  BY <1>1, <1>2, <1>3, RecordLog
<1>5. PICK x : x = [stage |-> how, write_set |-> <<>>, prev_lsn |-> next_lsn]
  BY ZenonT(60)
<1>6. x \in TxnRecord /\ x.stage = how /\ x.write_set = <<>> /\ x.prev_lsn = next_lsn
  BY <1>3, <1>5 DEF TxnRecord, Stages
<1>7. txn' = [txn EXCEPT ![t] = x]
  <2>1. txn[t] = [stage |-> txn[t].stage, write_set |-> <<>>, prev_lsn |-> txn[t].prev_lsn]
    BY <1>2, <1>3 DEF TxnRecord
  <2> QED BY <1>1, <1>2, <1>3, <1>5, <2>1 DEF Typed
<1>8. Covers(t, x, lock, page.slots, committed) /\ Active(x)
  <2>1. txn[t].stage = "abort" => Clean(t, <<>>, lock, page.slots, committed)
    BY <1>2, <1>3 DEF Covers
  <2> QED BY <1>1, <1>2, <1>6, <2>1 DEF Covers, Active
<1>9. /\ next_lsn' > 0 /\ next_lsn' >= next_lsn /\ x.prev_lsn > persistent_lsn /\ Active(txn[t])
      /\ \A u \in Id : u >= next_txn' => u # t /\ txn[u].stage = "none"
  BY <1>2, <1>3, <1>4, <1>6 DEF Rows, Active
<1>10. UNCHANGED <<page, lock, committed, changers, durable, persistent_lsn>>
  BY <1>2, <1>4
<1>11. Rows'
  BY ZenonT(60), <1>3, <1>4, <1>7, <1>8, <1>9, <1>10, TxnRows
<1>12. txn' \in [Id -> TxnRecord]
  BY ZenonT(60), <1>3, <1>6, <1>7, TxnSet
<1>13. Typed'
  BY <1>2, <1>3, <1>4, <1>12 DEF Typed
<1> QED BY <1>2, <1>4, <1>11, <1>13, RunInv

\* The transactions that keep their locks when another releases its own.
LEMMA KeptItems ==
    ASSUME NEW u, NEW w \in Seq(Item), NEW lk, NEW lk2, NEW q, NEW cm, NEW cm2,
           \A r \in Slot : (lk2[r] = u <=> lk[r] = u) /\ (lk[r] = u => cm2[r] = cm[r])
    PROVE  /\ Undoable(u, w, lk, q, cm) => Undoable(u, w, lk2, q, cm2)
           /\ Appliable(u, w, lk, q) => Appliable(u, w, lk2, q)
           /\ Clean(u, w, lk, q, cm) => Clean(u, w, lk2, q, cm2)
<1>1. \A k \in 1..Len(w) : w[k].slot \in Slot
  <2>1. \A k \in 1..Len(w) : w[k] \in Item
    OBVIOUS
  <2> QED BY <2>1 DEF Item
<1>2. ASSUME Undoable(u, w, lk, q, cm) PROVE Undoable(u, w, lk2, q, cm2)
  BY ZenonT(60), <1>1, <1>2 DEF Undoable
<1>3. ASSUME Appliable(u, w, lk, q) PROVE Appliable(u, w, lk2, q)
  BY ZenonT(60), <1>1, <1>3 DEF Appliable
<1>4. ASSUME Clean(u, w, lk, q, cm) PROVE Clean(u, w, lk2, q, cm2)
  BY <1>4 DEF Clean
<1> QED BY ZenonT(60), <1>2, <1>3, <1>4

LEMMA ReturnInv ==
    ASSUME RInv, NEW t \in Id, Return(t)
    PROVE  RInv'
<1> DEFINE q == page.slots
<1>1. /\ up = "run" /\ txn[t].stage \in {"committing", "aborting"} /\ txn[t].prev_lsn <= persistent_lsn
      /\ txn' = [txn EXCEPT ![t].stage = "done"]
      /\ lock' = [s \in Slot |-> IF lock[s] = t THEN NoTxn ELSE lock[s]]
      /\ committed' = [s \in Slot |-> IF lock[s] = t /\ txn[t].stage = "committing"
                                      THEN Visible(q)[s] ELSE committed[s]]
      /\ changers' = [s \in Slot |-> changers[s] \ {t}]
      /\ UNCHANGED <<up, first, page, disk, file, buffer, next_lsn, persistent_lsn, flushes>>
      /\ UNCHANGED <<next_txn, cursor, crashes, durable>>
  BY DEF Return, ReturnWhen, logVars, redoVars
<1>2. /\ Typed /\ Rows /\ LogInv /\ q \in SlotSeq /\ \A u \in Id : Covers(u, txn[u], lock, q, committed)
      /\ lock \in [Slot -> Id \cup {NoTxn}] /\ committed \in [Slot -> Tuple \cup {NoTuple}]
      /\ txn[t] \in TxnRecord /\ txn[t].prev_lsn \in Int /\ persistent_lsn \in Int /\ t # NoTxn
  BY <1>1, Running, TxnTyped DEF Typed, Id, NoTxn
<1>3. PICK x : x = [txn[t] EXCEPT !.stage = "done"]
  BY ZenonT(60)
<1>4. x \in TxnRecord /\ x.stage = "done" /\ x.write_set = txn[t].write_set
  BY <1>2, <1>3 DEF TxnRecord, Stages
<1>5. txn' = [txn EXCEPT ![t] = x]
  BY <1>1, <1>2, <1>3
<1>6. txn'[t] = x /\ \A u \in Id : u # t => txn'[u] = txn[u]
  BY <1>2, <1>5 DEF Typed
<1>7. /\ \A s \in Slot : lock[s] = t => lock'[s] = NoTxn
      /\ \A s \in Slot : lock[s] # t => lock'[s] = lock[s] /\ committed'[s] = committed[s]
      /\ \A s \in Slot : changers'[s] = changers[s] \ {t}
  BY <1>1
<1>8. txn[t].write_set = <<>> /\ (txn[t].stage = "aborting" => Clean(t, <<>>, lock, q, committed))
  BY <1>1, <1>2 DEF Covers
<1>9. ASSUME NEW s \in Slot, lock[s] = t PROVE committed'[s] = Visible(q)[s]
  <2>1. CASE txn[t].stage = "committing"
    BY <1>1, <1>9, <2>1
  <2>2. CASE txn[t].stage = "aborting"
    <3>1. Visible(q)[s] = committed[s]
      BY <1>8, <1>9, <2>2 DEF Clean
    <3> QED BY <1>1, <1>9, <2>2, <3>1
  <2> QED BY <1>1, <2>1, <2>2
<1>10. ASSUME NEW u \in Id PROVE Covers(u, txn'[u], lock', q, committed')
  <2>1. CASE u = t
    BY ZenonT(60), <1>4, <1>6, <1>8, <2>1 DEF Covers
  <2>2. CASE u # t
    <3>1. PICK w, lk, lk2, p, cm, cm2 : /\ w \in Seq(Item)
                                        /\ w = txn[u].write_set /\ lk = lock /\ lk2 = lock'
                                        /\ p = q /\ cm = committed /\ cm2 = committed'
      BY ZenonT(60), <1>2, TxnTyped
    <3>2. u # NoTxn
      BY DEF Id, NoTxn
    <3>3. \A r \in Slot : (lk2[r] = u <=> lk[r] = u) /\ (lk[r] = u => cm2[r] = cm[r])
      BY ZenonT(60), <1>7, <2>2, <3>1, <3>2
    <3>4. /\ Undoable(u, w, lk, p, cm) => Undoable(u, w, lk2, p, cm2)
          /\ Appliable(u, w, lk, p) => Appliable(u, w, lk2, p)
          /\ Clean(u, w, lk, p, cm) => Clean(u, w, lk2, p, cm2)
      BY ZenonT(60), <3>1, <3>3, KeptItems
    <3> QED BY ZenonT(60), <1>2, <1>6, <2>2, <3>1, <3>4 DEF Covers
  <2> QED BY <2>1, <2>2
<1>11. ASSUME NEW s \in Slot
       PROVE  /\ lock'[s] = NoTxn => Visible(q)[s] = committed'[s]
              /\ lock'[s] # NoTxn => lock'[s] \in changers'[s]
              /\ \A u \in changers'[s] : u \in Id /\ Active(txn'[u])
              /\ Visible(q)[s] # Visible(durable)[s] =>
                    \E u \in changers'[s] : txn'[u].prev_lsn > persistent_lsn
  <2>1. /\ lock[s] = NoTxn => Visible(q)[s] = committed[s]
        /\ lock[s] # NoTxn => lock[s] \in changers[s]
        /\ \A u \in changers[s] : u \in Id /\ Active(txn[u])
        /\ Visible(q)[s] # Visible(durable)[s] => \E u \in changers[s] : txn[u].prev_lsn > persistent_lsn
    BY ZenonT(60), <1>2 DEF Rows, Slots
  <2>2. lock'[s] = NoTxn => Visible(q)[s] = committed'[s]
    BY ZenonT(60), <1>7, <1>9, <2>1
  <2>3. lock'[s] # NoTxn => lock'[s] \in changers'[s]
    BY <1>7, <2>1
  <2>4. \A u \in changers'[s] : u \in changers[s] /\ u # t /\ u \in Id /\ Active(txn'[u])
    BY <1>6, <1>7, <2>1
  <2>5. ASSUME Visible(q)[s] # Visible(durable)[s]
        PROVE  \E u \in changers'[s] : txn'[u].prev_lsn > persistent_lsn
    <3>1. PICK u \in changers[s] : txn[u].prev_lsn > persistent_lsn
      BY <2>1, <2>5
    <3>2. u # t
      BY <1>1, <1>2, <3>1
    <3>3. u \in Id /\ u \in changers'[s] /\ txn'[u] = txn[u]
      BY <1>6, <1>7, <2>1, <3>2
    <3> QED BY <3>1, <3>3
  <2> QED BY ZenonT(60), <2>2, <2>3, <2>4, <2>5
<1>12. Slots(txn', lock', q, committed', changers', durable, persistent_lsn)
  BY <1>11 DEF Slots
<1>13. /\ \A u \in Id : u >= next_txn => txn'[u].stage = "none"
       /\ \A u \in Id : Active(txn'[u]) => next_lsn > 0
  <2>1. Active(txn[t]) /\ txn[t].stage # "none" /\ t \in Id
    BY <1>1 DEF Active
  <2> QED BY ZenonT(60), <1>2, <1>6, <2>1 DEF Rows
<1>14. /\ \A u \in Id : Covers(u, txn[u], lock, page.slots, committed)'
       /\ Slots(txn, lock, page.slots, committed, changers, durable, persistent_lsn)'
       /\ persistent_lsn' < next_lsn'
  BY <1>1, <1>2, <1>10, <1>12 DEF Rows
<1>15. Rows'
  BY <1>1, <1>13, <1>14 DEF Rows
<1>16. LogInv'
  BY <1>1, <1>2, QuietLog
<1>17. Typed'
  <2>1. txn' \in [Id -> TxnRecord]
    BY ZenonT(60), <1>2, <1>4, <1>5, TxnSet
  <2>2. lock' \in [Slot -> Id \cup {NoTxn}]
    BY <1>1, <1>2
  <2>3. committed' \in [Slot -> Tuple \cup {NoTuple}]
    <3>1. Visible(q) \in [Slot -> Tuple \cup {NoTuple}]
      BY <1>2, VisibleTyped
    <3> QED BY <1>1, <1>2, <3>1
  <2>4. changers' \in [Slot -> SUBSET (Id \cup {Lost})]
    BY <1>1, <1>2 DEF Typed
  <2> QED BY <1>1, <1>2, <2>1, <2>2, <2>3, <2>4 DEF Typed
<1> QED BY <1>1, <1>15, <1>16, <1>17, RunInv

-----------------------------------------------------------------------------
(* The flushes, the crash and the recovery.                                *)

LEMMA FlushLogInv ==
    ASSUME RInv, FlushLog, ~leftover'
    PROVE  RInv'
<1>1. /\ up = "run" /\ persistent_lsn' = next_lsn - 1 /\ flushes' = flushes + 1 /\ durable' = page.slots
      /\ UNCHANGED <<up, first, page, disk, next_lsn, next_txn, txn, lock, crashes, committed, changers>>
  BY DEF FlushLog, txnVars
<1>2. Typed /\ Rows /\ LogInv /\ page.slots \in SlotSeq
  BY <1>1, Running
<1>3. LogInv'
  BY <1>2, FlushLogLog
<1>4. next_lsn \in Nat
  BY <1>2 DEF Typed
<1>5. Slots(txn, lock, page.slots, committed, changers, durable', persistent_lsn')
  <2>1. Slots(txn, lock, page.slots, committed, changers, durable, persistent_lsn)
    BY ZenonT(60), <1>2 DEF Rows
  <2> QED BY ZenonT(60), <1>1, <2>1 DEF Slots
<1>6. Rows'
  BY <1>1, <1>2, <1>4, <1>5 DEF Rows
<1>7. Typed'
  BY <1>1, <1>2 DEF Typed
<1> QED BY <1>1, <1>3, <1>6, <1>7, RunInv

LEMMA FlushPageInv ==
    ASSUME RInv, FlushPage
    PROVE  RInv'
<1>1. /\ disk' = page /\ UNCHANGED <<up, first, page, file, buffer, next_lsn, persistent_lsn, flushes>>
      /\ UNCHANGED <<next_txn, txn, lock, cursor, crashes, durable, committed, changers>>
  BY DEF FlushPage, logVars, txnVars, redoVars, ghosts
<1>2. Typed /\ LogInv
  BY DEF RInv, LogInv
<1>3. LogInv'
  BY <1>2, FlushPageLog
<1>4. Typed'
  BY <1>1, <1>2 DEF Typed
<1>5. (Rows => Rows') /\ (Down => Down') /\ (Cursor(file, cursor) => Cursor(file, cursor)')
  BY <1>1 DEF Rows, Down
<1> QED BY <1>1, <1>3, <1>4, <1>5 DEF RInv, LogInv

LEMMA CrashInv ==
    ASSUME Sound, RInv, Crash
    PROVE  RInv'
<1>1. /\ up \in {"run", "redo", "undo"} /\ file # <<>> /\ up' = "down" /\ crashes' = crashes + 1
      /\ changers' = [s \in Slot |-> IF changers[s] = {} THEN {} ELSE {Lost}]
      /\ page' = NewPage /\ buffer' = <<>>
      /\ txn' = [t \in Id |-> Idle] /\ lock' = [s \in Slot |-> NoTxn] /\ cursor' = <<1, 1>>
      /\ next_lsn' = 0 /\ persistent_lsn' = NoLsn /\ flushes' = 0 /\ next_txn' = 0
      /\ UNCHANGED <<first, disk, file, durable, committed>>
  BY ZenonT(60) DEF Crash
<1>2. /\ Typed /\ LogInv /\ (up \in {"redo", "undo"} => Down) /\ (up = "run" => Rows)
  BY DEF RInv, LogInv
<1>3. LogInv'
  BY <1>2, CrashLog
<1>4. ASSUME NEW s \in Slot, changers'[s] = {} PROVE Visible(durable)[s] = committed[s]
  <2>1. changers[s] = {}
    BY <1>1, <1>4
  <2>2. CASE up = "run"
    <3>1. Slots(txn, lock, page.slots, committed, changers, durable, persistent_lsn)
      BY <1>2, <2>2 DEF Rows
    <3> QED BY <2>1, <3>1 DEF Slots
  <2>3. CASE up \in {"redo", "undo"}
    BY <1>2, <2>1, <2>3 DEF Down
  <2> QED BY <1>1, <2>2, <2>3
<1>5. Down'
  <2>1. crashes \in Nat
    BY <1>2 DEF Typed
  <2>2. crashes' > 0
    BY <1>1, <2>1
  <2> QED BY <1>1, <1>4, <2>2 DEF Down
<1>6. Typed'
  <2>1. Idle \in TxnRecord
    BY DEF Idle, TxnRecord, Stages, NoLsn
  <2>2. NewPage \in Page
    BY Bounds DEF NewPage, Page, SlotSeq
  <2>3. crashes' \in Nat /\ persistent_lsn' \in Int
    BY <1>1, <1>2 DEF Typed, NoLsn
  <2>4. /\ txn' \in [Id -> TxnRecord] /\ lock' \in [Slot -> Id \cup {NoTxn}]
        /\ changers' \in [Slot -> SUBSET (Id \cup {Lost})]
    BY <1>1, <2>1
  <2> QED BY <1>1, <1>2, <2>2, <2>3, <2>4 DEF Typed
<1> QED BY <1>1, <1>3, <1>5, <1>6 DEF RInv, LogInv

LEMMA RestartInv ==
    ASSUME RInv, Restart
    PROVE  RInv'
<1>1. /\ up = "down" /\ up' = "redo" /\ page' = disk
      /\ UNCHANGED <<first, disk, file, buffer, next_lsn, persistent_lsn, flushes>>
      /\ UNCHANGED <<next_txn, txn, lock, cursor, crashes, durable, committed, changers>>
  BY DEF Restart, logVars, txnVars, redoVars, ghosts
<1>2. Typed /\ LogInv /\ Down /\ cursor = <<1, 1>>
  BY <1>1 DEF RInv, LogInv
<1>3. LogInv' /\ Cursor(file, cursor)'
  BY <1>2, RestartLog
<1>4. Down'
  BY <1>1, <1>2 DEF Down
<1>5. Typed'
  BY <1>1, <1>2 DEF Typed
<1> QED BY <1>1, <1>3, <1>4, <1>5 DEF RInv, LogInv

LEMMA RedoRecordInv ==
    ASSUME RInv, RedoRecord
    PROVE  RInv'
<1>1. /\ up = "redo" /\ UNCHANGED <<first, disk, file, buffer, next_lsn, persistent_lsn, flushes>>
      /\ UNCHANGED <<next_txn, txn, lock, crashes, durable, committed, changers>>
  BY DEF RedoRecord, logVars, txnVars, ghosts
<1>2. Typed /\ LogInv /\ Down /\ Cursor(file, cursor)
  BY <1>1 DEF RInv, LogInv
<1>3. LogInv' /\ Cursor(file, cursor)' /\ up' = "redo" /\ page' \in Page
  BY <1>2, RedoRecordLog
<1>4. Down'
  BY <1>1, <1>2 DEF Down
<1>5. Typed'
  BY <1>1, <1>2, <1>3 DEF Typed
<1> QED BY <1>3, <1>4, <1>5 DEF RInv, LogInv

LEMMA RedoDoneInv ==
    ASSUME RInv, RedoDone
    PROVE  RInv'
<1>1. /\ up = "redo" /\ up' = "undo"
      /\ UNCHANGED <<first, page, disk, file, buffer, next_lsn, persistent_lsn, flushes>>
      /\ UNCHANGED <<next_txn, txn, lock, cursor, crashes, durable, committed, changers>>
  BY DEF RedoDone, logVars, txnVars, redoVars, ghosts
<1>2. Typed /\ LogInv /\ Down /\ Cursor(file, cursor)
  BY <1>1 DEF RInv, LogInv
<1>3. LogInv' /\ page.slots = durable
  BY <1>2, RedoDoneLog
<1>4. Down'
  BY <1>1, <1>2 DEF Down
<1>5. Typed'
  BY <1>1, <1>2 DEF Typed
<1> QED BY <1>1, <1>3, <1>4, <1>5 DEF RInv, LogInv

LEMMA RecoveredInv ==
    ASSUME RInv, Undo
    PROVE  RInv'
<1>1. /\ up = "undo" /\ up' \in {"run", "overrun"}
      /\ committed' = Visible(page.slots) /\ changers' = [s \in Slot |-> {}]
      /\ UNCHANGED <<first, page, disk, file, buffer, next_lsn, persistent_lsn, flushes>>
      /\ UNCHANGED <<next_txn, txn, lock, crashes, durable>>
  BY DEF Undo, logVars, txnVars
<1>2. Typed /\ LogInv /\ Down /\ page.slots = durable /\ page.slots \in SlotSeq
  BY <1>1 DEF RInv, LogInv, Typed, Page
<1>3. LogInv'
  BY <1>2, UndoLog
<1>4. Typed'
  <2>1. Visible(page.slots) \in [Slot -> Tuple \cup {NoTuple}]
    BY <1>2, VisibleTyped
  <2>2. changers' \in [Slot -> SUBSET (Id \cup {Lost})]
    BY <1>1
  <2> QED BY <1>1, <1>2, <2>1, <2>2 DEF Typed
<1>5. Rows'
  <2>1. \A t \in Id : txn'[t] = Idle
    BY <1>1, <1>2 DEF Down
  <2>2. Idle.stage = "none" /\ Idle.write_set = <<>> /\ ~Active(Idle)
    BY DEF Idle, Active
  <2>3. \A t \in Id : Covers(t, txn'[t], lock', page'.slots, committed')
    BY <2>1, <2>2 DEF Covers
  <2>4. ASSUME NEW s \in Slot
        PROVE  lock'[s] = NoTxn /\ changers'[s] = {} /\ Visible(page'.slots)[s] = committed'[s]
               /\ Visible(page'.slots)[s] = Visible(durable')[s]
    BY ZenonT(60), <1>1, <1>2 DEF Down
  <2>5. Slots(txn', lock', page'.slots, committed', changers', durable', persistent_lsn')
    BY ZenonT(60), <2>4 DEF Slots
  <2>6. persistent_lsn' < next_lsn'
    BY <1>1, <1>2 DEF Down, NoLsn
  <2>7. /\ \A t \in Id : Covers(t, txn[t], lock, page.slots, committed)'
        /\ Slots(txn, lock, page.slots, committed, changers, durable, persistent_lsn)'
    BY <2>3, <2>5
  <2> QED BY ZenonT(60), <2>1, <2>2, <2>6, <2>7 DEF Rows
<1>6. CASE up' = "run"
  BY <1>3, <1>4, <1>5, <1>6, RunInv
<1>7. CASE up' = "overrun"
  BY <1>3, <1>4, <1>7 DEF RInv, LogInv
<1> QED BY <1>1, <1>6, <1>7

-----------------------------------------------------------------------------
LEMMA InitLog ==
    ASSUME Init
    PROVE  LogInv
<1>1. PICK r1, r2 : r1 = [Zero EXCEPT !.type = "BEGIN"] /\ r2 = [Zero EXCEPT !.lsn = 1, !.type = "NEWPAGE"]
  BY ZenonT(60)
<1>2. /\ r1 \in Record /\ r1.type = "BEGIN" /\ r2 \in Record /\ r2.type = "NEWPAGE"
  <2>1. /\ r1 = [lsn |-> 0, txn |-> 0, type |-> "BEGIN", slot |-> 0, tuple |-> NoTuple]
        /\ r2 = [lsn |-> 1, txn |-> 0, type |-> "NEWPAGE", slot |-> 0, tuple |-> NoTuple]
    BY ZenonT(60), <1>1 DEF Zero
  <2>2. 0 \in Id
    BY Bounds DEF Id
  <2> QED BY <2>1, <2>2 DEF Record
<1>3. buffer = <<r1, r2>> /\ file = <<>>
  BY <1>1 DEF Init
<1>4. buffer \in Seq(Record) /\ Len(buffer) = 2 /\ buffer[1] = r1 /\ buffer[2] = r2
  BY <1>2, <1>3
<1>5. file \in Seq(Chunk) /\ Len(file) = 0
  BY <1>3
<1>6. \A c \in 1..(Len(file) + 1), i \in 1..BufferRecords :
        /\ c = 1
        /\ LogAt(file, buffer, c, i) = IF i = 1 THEN r1 ELSE IF i = 2 THEN r2 ELSE Zero
  BY <1>4, <1>5, Bounds DEF LogAt
<1>7. LogAt(file, buffer, 1, 1) = r1 /\ LogAt(file, buffer, 1, 2) = r2
  BY <1>4, <1>5, Bounds DEF LogAt
<1>8. \A c \in 1..(Len(file) + 1), i \in 1..BufferRecords :
        /\ LogAt(file, buffer, c, i).type \notin Changes
        /\ LogAt(file, buffer, c, i).type = "NEWPAGE" => c = 1 /\ i = 2
        /\ LogAt(file, buffer, c, i).type = "INVALID" => i > 2
  BY <1>2, <1>6, ZeroRecord DEF Changes
<1>9. LogShape(file, buffer)
  <2>1. Len(buffer) <= BufferRecords /\ \A i \in 1..Len(buffer) : buffer[i].type # "INVALID"
    BY <1>2, <1>4, Bounds
  <2> QED BY <1>2, <1>4, <1>5, <1>7, <1>8, <2>1 DEF LogShape
<1>10. Fresh
  <2>1. page.lsn = 1 /\ next_lsn = 2 /\ disk.lsn = 0 /\ persistent_lsn = -1
    BY DEF Init, NewPage, NoLsn
  <2> QED BY <1>8, <2>1 DEF Fresh
<1>11. PICK h : h = [c \in 1..1 |-> [i \in 1..(BufferRecords + 1) |-> <<>>]]
  BY ZenonT(60)
<1>12. /\ h \in [1..(Len(file) + 1) -> [1..(BufferRecords + 1) -> SlotSeq]]
       /\ \A c \in 1..1, i \in 1..(BufferRecords + 1) : h[c][i] = <<>>
  <2>1. <<>> \in SlotSeq
    BY Bounds DEF SlotSeq
  <2> QED BY <1>5, <1>11, <2>1
<1>13. History(h, file, buffer)
  <2>1. h[1][1] = <<>>
    BY <1>12, Bounds
  <2>2. ASSUME NEW c \in 1..(Len(file) + 1), NEW i \in 1..BufferRecords
        PROVE  /\ Follows(h[c][i], LogAt(file, buffer, c, i), h[c][i + 1])
               /\ h[c][i] = h[c][BufferRecords + 1]
    <3>1. h[c][i] = <<>> /\ h[c][i + 1] = <<>> /\ h[c][BufferRecords + 1] = <<>>
      BY <1>5, <1>12, Bounds
    <3> QED BY <1>8, <3>1 DEF Follows
  <2> QED BY <1>5, <1>12, <2>1, <2>2 DEF History
<1>14. Logged(h)
  <2>1. h[Len(file) + 1][1] = <<>> /\ h[Len(file) + 1][BufferRecords + 1] = <<>>
    BY <1>5, <1>12, Bounds
  <2>2. durable = <<>> /\ page.slots = <<>> /\ up = "run" /\ disk.lsn = 0
    BY DEF Init, NewPage
  <2> QED BY <1>13, <2>1, <2>2 DEF Logged
<1>15. Written
  BY DEF Init, Written
<1> QED BY <1>9, <1>10, <1>14, <1>15 DEF LogInv

LEMMA InitInv ==
    ASSUME Init
    PROVE  RInv
<1>1. LogInv
  BY InitLog
<1>2. /\ up = "run" /\ page.slots = <<>> /\ durable = <<>> /\ next_lsn = 2 /\ persistent_lsn = NoLsn
      /\ next_txn = 1 /\ lock = [s \in Slot |-> NoTxn] /\ committed = [s \in Slot |-> NoTuple]
      /\ changers = [s \in Slot |-> {}] /\ first \in BOOLEAN /\ flushes = 0 /\ crashes = 0
      /\ page = [lsn |-> 1, slots |-> <<>>] /\ disk = NewPage
  BY DEF Init
<1>3. PICK x : x = [stage |-> "grow", write_set |-> <<>>, prev_lsn |-> 1]
  BY ZenonT(60)
<1>4. /\ x \in TxnRecord /\ x.stage = "grow" /\ x.write_set = <<>>
      /\ Idle \in TxnRecord /\ Idle.stage = "none" /\ Idle.write_set = <<>>
  BY <1>3 DEF TxnRecord, Stages, Idle, NoLsn
<1>5. txn = [t \in Id |-> IF t = 0 THEN x ELSE Idle]
  BY <1>3 DEF Init
<1>6. <<>> \in SlotSeq
  BY Bounds DEF SlotSeq
<1>7. Typed
  <2>1. page \in Page /\ disk \in Page
    BY <1>2, <1>6 DEF Page, NewPage
  <2>2. txn \in [Id -> TxnRecord]
    BY <1>4, <1>5
  <2>3. persistent_lsn \in Int
    BY <1>2 DEF NoLsn
  <2> QED BY <1>2, <1>6, <2>1, <2>2, <2>3 DEF Typed
<1>8. \A s \in Slot : Visible(<<>>)[s] = NoTuple
  BY DEF Visible
<1>9. ASSUME NEW t \in Id PROVE Covers(t, txn[t], lock, page.slots, committed)
  <2>1. Undoable(t, <<>>, lock, page.slots, committed)
    BY DEF Undoable
  <2>2. Clean(t, <<>>, lock, page.slots, committed)
    BY <1>2, <1>8 DEF Clean
  <2>3. txn[t].stage \in {"none", "grow"} /\ txn[t].write_set = <<>>
    BY <1>4, <1>5
  <2> QED BY <2>1, <2>2, <2>3 DEF Covers
<1>10. Slots(txn, lock, page.slots, committed, changers, durable, persistent_lsn)
  BY <1>2, <1>8 DEF Slots
<1>11. \A t \in Id : t >= next_txn => txn[t].stage = "none"
  BY <1>2, <1>4, <1>5
<1>12. persistent_lsn < next_lsn /\ next_lsn > 0
  BY <1>2 DEF NoLsn
<1>13. Rows
  BY ZenonT(60), <1>9, <1>10, <1>11, <1>12 DEF Rows
<1> QED BY <1>1, <1>2, <1>7, <1>13 DEF RInv, LogInv

LEMMA NextInv ==
    ASSUME Sound, RInv, [Next]_vars, ~leftover'
    PROVE  RInv'
<1>1. CASE Begin
  BY <1>1, BeginInv
<1>2. CASE FlushLog
  BY <1>2, FlushLogInv
<1>3. CASE FlushPage
  BY <1>3, FlushPageInv
<1>4. ASSUME NEW t \in Id, NEW tu \in Tuple, Insert(t, tu) PROVE RInv'
  BY <1>4, InsertInv
<1>5. ASSUME NEW t \in Id, NEW s \in Slot, Delete(t, s) PROVE RInv'
  BY <1>5, DeleteInv
<1>6. ASSUME NEW t \in Id, NEW s \in Slot, NEW tu \in Tuple, Update(t, s, tu) PROVE RInv'
  BY <1>6, UpdateInv
<1>7. ASSUME NEW t \in Id, NEW how \in {"commit", "abort"}, End(t, how) PROVE RInv'
  BY <1>7, EndInv
<1>8. ASSUME NEW t \in Id, WorkOff(t) PROVE RInv'
  BY <1>8, WorkOffInv
<1>9. ASSUME NEW t \in Id, EndRecord(t) PROVE RInv'
  BY <1>9, EndRecordInv
<1>10. ASSUME NEW t \in Id, Return(t) PROVE RInv'
  BY <1>10, ReturnInv
<1>11. CASE Crash
  BY <1>11, CrashInv
<1>12. CASE Restart
  BY <1>12, RestartInv
<1>13. CASE RedoRecord
  BY <1>13, RedoRecordInv
<1>14. CASE RedoDone
  BY <1>14, RedoDoneInv
<1>15. CASE Undo
  BY <1>15, RecoveredInv
<1>16. CASE UNCHANGED vars
  <2>1. /\ UNCHANGED <<up, first, page, disk, file, buffer, next_lsn, persistent_lsn>>
        /\ UNCHANGED <<flushes, next_txn, txn, lock, cursor, crashes, durable, committed, changers>>
    BY <1>16 DEF vars, logVars, txnVars, redoVars, ghosts
  <2>2. Typed' /\ LogInv'
    BY <2>1, QuietLog DEF RInv, LogInv, Typed
  <2>3. (Rows => Rows') /\ (Down => Down') /\ (Cursor(file, cursor) => Cursor(file, cursor)')
    BY <2>1 DEF Rows, Down
  <2> QED BY <2>1, <2>2, <2>3 DEF RInv, LogInv
<1> QED BY <1>1, <1>2, <1>3, <1>4, <1>5, <1>6, <1>7, <1>8, <1>9, <1>10, <1>11, <1>12, <1>13, <1>14, <1>15, <1>16 DEF Next

\* No step of the engine takes old records out of the log file again.
LEMMA LeftoverStays ==
    ASSUME leftover, [Next]_vars
    PROVE  leftover'
<1>1. CASE Begin
  BY <1>1 DEF Begin, AppendLogRecord
<1>2. CASE FlushLog
  BY <1>2 DEF FlushLog
<1>3. CASE FlushPage
  BY <1>3 DEF FlushPage, logVars
<1>4. ASSUME NEW t \in Id, NEW tu \in Tuple, Insert(t, tu) PROVE leftover'
  BY <1>4 DEF Insert, Change, AppendLogRecord
<1>5. ASSUME NEW t \in Id, NEW s \in Slot, Delete(t, s) PROVE leftover'
  BY <1>5 DEF Delete, Change, AppendLogRecord
<1>6. ASSUME NEW t \in Id, NEW s \in Slot, NEW tu \in Tuple, Update(t, s, tu) PROVE leftover'
  BY <1>6 DEF Update, Change, AppendLogRecord
<1>7. ASSUME NEW t \in Id, NEW how \in {"commit", "abort"}, End(t, how) PROVE leftover'
  BY <1>7 DEF End, logVars
<1>8. ASSUME NEW t \in Id, WorkOff(t) PROVE leftover'
  BY <1>8 DEF WorkOff, Apply, Change, AppendLogRecord, logVars
<1>9. ASSUME NEW t \in Id, EndRecord(t) PROVE leftover'
  BY <1>9 DEF EndRecord, AppendLogRecord
<1>10. ASSUME NEW t \in Id, Return(t) PROVE leftover'
  BY <1>10 DEF Return, ReturnWhen, logVars
<1>11. CASE Crash
  BY <1>11 DEF Crash
<1>12. CASE Restart
  BY <1>12 DEF Restart, logVars
<1>13. CASE RedoRecord
  BY <1>13 DEF RedoRecord, logVars
<1>14. CASE RedoDone
  BY <1>14 DEF RedoDone, logVars
<1>15. CASE Undo
  BY <1>15 DEF Undo, logVars
<1>16. CASE UNCHANGED vars
  BY <1>16 DEF vars, logVars
<1> QED BY <1>1, <1>2, <1>3, <1>4, <1>5, <1>6, <1>7, <1>8, <1>9, <1>10, <1>11, <1>12, <1>13, <1>14, <1>15, <1>16 DEF Next

\* The invariant is kept as long as no image has been written with old records
\* behind its own.
LEMMA KeptInv ==
    ASSUME Sound
    PROVE  Spec => [](leftover \/ RInv)
<1>1. Init => leftover \/ RInv
  BY InitInv
<1>2. (leftover \/ RInv) /\ [Next]_vars => (leftover \/ RInv)'
  BY NextInv, LeftoverStays
<1> QED BY <1>1, <1>2, PTL DEF Spec

\* Redo repeats history, whatever was in the log and on the page when the
\* process died, after any number of flushes and crashes: as long as no image
\* had old records of its log buffer behind its own, every table page behind
\* the header page was written before the crash (~Unwritten), and such a page
\* is recovered only once, its LSN being of the process before (~Again).
THEOREM RedoRepeatsHistory == Sound => (Spec => []RedoRestores)
<1> SUFFICES ASSUME Sound PROVE Spec => []RedoRestores
  OBVIOUS
<1>1. Spec => [](leftover \/ RInv)
  BY KeptInv
<1>2. leftover \/ RInv => RedoRestores
  BY DEF RInv, RedoRestores, RedoExact
<1> QED BY <1>1, <1>2, PTL

\* Under the same conditions what Commit has returned for is in the page when
\* Redo ends, and what Abort has returned for is not.
THEOREM Durability == Sound => (Spec => []CommittedSurvive)
<1> SUFFICES ASSUME Sound PROVE Spec => []CommittedSurvive
  OBVIOUS
<1>1. Spec => [](leftover \/ RInv)
  BY KeptInv
<1>2. leftover \/ RInv => CommittedSurvive
  BY DEF RInv, Down, CommittedSurvive
<1> QED BY <1>1, <1>2, PTL
=============================================================================
