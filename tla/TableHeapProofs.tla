--------------------------- MODULE TableHeapProofs ---------------------------
(***************************************************************************)
(* Isolation, atomicity and durability of the table, for any sets of       *)
(* transactions and tuples and any numbers of pages and slots: every       *)
(* action of the table keeps what TableRowProofs defines as Core.          *)
(***************************************************************************)
EXTENDS TableRowProofs

USE SMTT(20), ZenonT(20), SMTT(40)


LEMMA UpdateOp ==
    ASSUME NEW n \in Ops, NEW tu \in Tuple
    PROVE  LET o == [n EXCEPT !.op = "update", !.tuple = tu]
           IN  o \in Ops /\ o.op = "update" /\ o.tuple = tu
<1>1. /\ n \in [op : {"none", "walk", "get", "mark", "update", "insert"},
                page : 0..MaxPages, tuple : Tuple \cup {NoTuple}]
  BY DEF Ops
<1>2. /\ [n EXCEPT !.op = "update", !.tuple = tu] \in
            [op : {"none", "walk", "get", "mark", "update", "insert"},
             page : 0..MaxPages, tuple : Tuple \cup {NoTuple}]
      /\ [n EXCEPT !.op = "update", !.tuple = tu].op = "update"
      /\ [n EXCEPT !.op = "update", !.tuple = tu].tuple = tu
  BY ZenonT(60), <1>1
<1> QED BY ZenonT(60), <1>2 DEF Ops

\* UpdateTuple.
LEMMA UpdateTupleStep ==
    ASSUME IInv, Core, Disciplined, NEW t \in Txn, NEW r \in Rid, NEW tu \in Tuple,
           UpdateTuple(t, r, tu)
    PROVE  IInv' /\ Core'
<1> DEFINE o == [NoOp EXCEPT !.op = "update", !.tuple = tu]
<1>1. HeapTyped /\ NoUpgrade /\ Client(t) /\ LatchFree(t, r) /\ ~Inserting(r)
  BY CoreIsRest, WriteLatch DEF Disciplined, UpdateTuple
<1>2. Running(t) /\ phase[t] = "run" /\ ~Blocked(t) /\ pending[t].op = "none" /\ state[t] \in {"GROWING", "ABORTED"}
  BY <1>1, ClientRuns DEF Running
<1>3. o \in Ops /\ o.op = "update" /\ o.tuple = tu
  BY ZenonT(60), NoOpTyped, UpdateOp
<1>4. /\ UNCHANGED <<last_page, endVars, crashed>>
      /\ UNCHANGED <<phase, db, writer, log, persistent>>
  BY DEF UpdateTuple, endVars
<1>5. slot \in [Rid -> Slots]
  BY <1>1 DEF HeapTyped
<1> HIDE DEF o
<1>6. CASE SetAborted(t) /\ UNCHANGED <<slotVars, pending, write_set>>
  <2>1. IInv' /\ SameLocks
    BY ZenonT(60), <1>6, SetStateIInv DEF SetAborted
  <2>2. Alone(t)
    BY <1>1, <1>4, <1>6, OthersIdle
  <2>3. /\ state'[t] \in {state[t], "ABORTED"} /\ call'[t] = call[t] /\ shared'[t] = shared[t]
        /\ exclusive'[t] = exclusive[t] /\ pending'[t].op \in {"none", "walk"} /\ phase'[t] = "run"
        /\ UNCHANGED <<slot, db, writer, log, persistent, write_set>>
    BY <1>2, <1>4, <1>6 DEF SetAborted, IInv, TypeOK, slotVars
  <2>4. Rest'
    BY ZenonT(60), <1>2, <2>1, <2>2, <2>3, QuietMove
  <2>5. HeapTyped'
    BY <1>1, <1>4, <1>6, SameTyped, OpTyped DEF tableVars
  <2> QED BY <2>1, <2>4, <2>5 DEF Core, Rest
<1>7. CASE slot[r].st = "live" /\ Operate(t, r, o, "X")
  <2>1. /\ IInv' /\ Alone(t)
        /\ \/ HadLock(t, r, "X") /\ pending' = pending /\ Done(t, r, o, TRUE)
           \/ /\ r \notin shared[t] \cup exclusive[t] /\ state[t] = "GROWING"
              /\ GotLock(t, r, "X") /\ pending' = pending /\ Done(t, r, o, TRUE)
           \/ /\ state[t] = "GROWING" /\ FellAsleep(t, r, "X")
              /\ pending' = [pending EXCEPT ![t] = o] /\ UNCHANGED <<slotVars, write_set>>
           \/ /\ r \notin shared[t] \cup exclusive[t]
              /\ WasRefused(t) /\ pending' = pending /\ Done(t, r, o, FALSE)
    BY ZenonT(60), <1>1, <1>3, <1>4, <1>7, OperateCases
  <2>2. ASSUME HadLock(t, r, "X") \/ (state[t] = "GROWING" /\ GotLock(t, r, "X")),
               pending' = pending, Done(t, r, o, TRUE)
        PROVE  Rest' /\ HeapTyped'
    <3>1. /\ PutInPlace(r, tu)
          /\ IF state'[t] # "ABORTED" THEN Record(t, r, "UPDATE", slot[r].tuple)
                                      ELSE UNCHANGED write_set
      BY ZenonT(60), <1>3, <2>2, DoneUpdate
    <3>2. RowLocked(t, r)
      BY ZenonT(60), <1>1, <1>2, <1>4, <2>1, <2>2, RowLockedNow
    <3>3. slot[r].tuple \in Tuple
      BY <1>5, <1>7 DEF Slots
    <3>4. slot' = [slot EXCEPT ![r].tuple = tu] /\ free_space' \in [1..MaxPages -> Nat]
      BY <1>1, <3>1, <3>3, PutTyped
    <3>5. /\ IF state[t] # "ABORTED"
             THEN write_set'[t] = Append(write_set[t], WriteRecord(r, "UPDATE", slot[r].tuple))
             ELSE write_set'[t] = write_set[t]
          /\ write_set' = write_set \/ write_set' = [write_set EXCEPT ![t] = write_set'[t]]
      BY <1>1, <3>1, <3>2 DEF Record, HeapTyped, RowLocked
    <3>6. Rest' /\ slot' \in [Rid -> Slots] /\ write_set'[t] \in Seq(Writes)
      BY ZenonT(60), <1>1, <1>7, <2>1, <3>2, <3>4, <3>5, UpdateRow
    <3>7. slot[r].st # "unused" /\ \A s \in Rid \ {r} : slot'[s] = slot[s]
      BY <1>5, <1>7, <3>4
    <3>8. last_page' \in 1..MaxPages /\ \A s \in Rid : s[1] > last_page' => slot'[s].st = "unused"
      BY <1>1, <1>4, <3>6, <3>7, SlotsTyped
    <3>9. HeapTyped'
      BY ZenonT(60), <1>1, <1>4, <2>2, <3>4, <3>5, <3>6, <3>8, OpTyped
    <3> QED BY <3>6, <3>9
  <2>3. ASSUME state[t] = "GROWING", FellAsleep(t, r, "X"),
               pending' = [pending EXCEPT ![t] = o], UNCHANGED <<slotVars, write_set>>
        PROVE  Rest' /\ HeapTyped'
    <3>1. /\ slot[r].st \in (IF o.op = "mark" THEN {"live", "empty"} ELSE {"live"})
          /\ UNCHANGED <<slot, write_set, phase, db, writer, log, persistent>>
      BY <1>3, <1>4, <1>7, <2>3 DEF slotVars
    <3>2. Rest'
      BY ZenonT(60), <1>1, <1>2, <1>3, <2>1, <2>3, <3>1, WriterSleeps
    <3>3. HeapTyped'
      BY ZenonT(60), <1>1, <1>3, <1>4, <2>3, SameTyped, OpTyped DEF tableVars
    <3> QED BY <3>2, <3>3
  <2>4. ASSUME WasRefused(t), pending' = pending, Done(t, r, o, FALSE)
        PROVE  Rest' /\ HeapTyped'
    <3>1. UNCHANGED slotVars /\ UNCHANGED write_set
      BY ZenonT(60), <1>3, <2>4, DoneUpdate
    <3>2. /\ SameLocks /\ state'[t] \in {state[t], "ABORTED"} /\ call'[t] = call[t]
          /\ shared'[t] = shared[t] /\ exclusive'[t] = exclusive[t]
          /\ pending'[t].op \in {"none", "walk"} /\ phase'[t] = "run"
          /\ UNCHANGED <<slot, db, writer, log, persistent, write_set>>
      BY <1>2, <1>4, <2>4, <3>1, CallReturns DEF WasRefused, slotVars
    <3>3. Rest'
      BY ZenonT(60), <1>2, <2>1, <3>2, QuietMove
    <3>4. HeapTyped'
      BY <1>1, <1>4, <2>4, <3>1, SameTyped, OpTyped DEF tableVars
    <3> QED BY <3>3, <3>4
  <2> QED BY ZenonT(60), <2>1, <2>2, <2>3, <2>4, CoreIsRest DEF Core, Rest
<1> QED BY <1>6, <1>7 DEF UpdateTuple, o

-----------------------------------------------------------------------------
(* InsertTuple.                                                            *)

\* Where it puts the tuple.
LEMMA TargetSlot ==
    ASSUME HeapTyped, NEW p \in 1..MaxPages, NEW tu \in Tuple, NEW r \in Target(p, tu)
    PROVE  /\ r \in Rid /\ r[1] = p /\ slot[r].st \in {"empty", "unused"}
           /\ free_space[p] >= tu[1] + (IF slot[r].st = "unused" THEN SlotSize ELSE 0)
<1>1. free_space[p] \in Nat /\ tu[1] \in Nat
  BY TupleAssumption DEF HeapTyped
<1>2. free_space[p] >= tu[1]
  BY <1>1 DEF Target
<1>3. CASE r \in FirstSlot(p, "empty")
  BY <1>1, <1>2, <1>3 DEF FirstSlot, SlotsOf
<1>4. CASE r \in FirstSlot(p, "unused") /\ ~(free_space[p] < tu[1] + SlotSize)
  BY <1>1, <1>4, SpaceAssumption DEF FirstSlot, SlotsOf
<1> QED BY <1>3, <1>4 DEF Target

\* A failed assertion: nothing but the page and the state change.
Failed ==
    crashed' /\ UNCHANGED <<shared, exclusive, call, phase, writer, log, persistent>>

LEMMA PutTupleStep ==
    ASSUME IInv, Core, Disciplined, NEW t \in Txn, NEW r \in Rid, NEW tu \in Tuple,
           PutTuple(t, r, tu), Running(t), LatchFree(t, r), ~Inserting(r),
           slot[r].st \in {"empty", "unused"},
           free_space[r[1]] >= tu[1] + (IF slot[r].st = "unused" THEN SlotSize ELSE 0)
    PROVE  IInv' /\ (Failed \/ Core')
<1>1. HeapTyped /\ r[1] \in 1..MaxPages /\ last_page \in 1..MaxPages
  BY RidAssumption DEF Core, HeapTyped
<1>2. CASE Crash
  <2>1. IInv'
    BY <1>2, SameIInv DEF Crash
  <2>2. Failed
    BY <1>2 DEF Crash, Failed, vars, endVars
  <2> QED BY <2>1, <2>2
<1>3. CASE LockExclusive(t, r) /\ ~Crash /\ PutTuple(t, r, tu)
  <2>1. IInv'
    BY <1>3, LockExclusiveIInv
  <2>2. /\ r \notin shared[t] \cup exclusive[t]
        /\ \/ state[t] = "GROWING" /\ (GotLock(t, r, "X") \/ FellAsleep(t, r, "X"))
           \/ WasRefused(t)
    BY <1>3, LockCall
  <2>3. /\ slot' = [slot EXCEPT ![r] = Live(tu)]
        /\ SetFreeSpace(r[1], tu[1] + (IF slot[r].st = "unused" THEN SlotSize ELSE 0), 0)
        /\ crashed' = (ret'[t] = "false")
        /\ pending' = [pending EXCEPT ![t] =
             IF ret'[t] = "none" THEN [NoOp EXCEPT !.op = "insert"] ELSE NoOp]
        /\ IF ret'[t] = "true" THEN Record(t, r, "INSERT", NoTuple) ELSE UNCHANGED write_set
        /\ last_page' = IF r[1] > last_page THEN r[1] ELSE last_page
        /\ UNCHANGED endVars
    BY <1>3 DEF PutTuple
  <2>4. UNCHANGED <<phase, db, writer, log, persistent>>
    BY <2>3 DEF endVars
  <2>5. CASE WasRefused(t)
    <3>1. crashed' /\ UNCHANGED <<shared, exclusive, call>>
      BY ZenonT(60), <2>3, <2>5, CallReturns DEF WasRefused
    <3> QED BY <2>1, <2>4, <3>1 DEF Failed
  <2>6. Live(tu) \in Slots /\ Live(tu).st = "live"
    BY DEF Live, Slots
  <2>7. /\ slot' \in [Rid -> Slots]
        /\ last_page' \in 1..MaxPages
        /\ \A s \in Rid : s[1] > last_page' => slot'[s].st = "unused"
    <3>1. slot' \in [Rid -> Slots]
      BY <1>1, <2>3, <2>6 DEF HeapTyped
    <3>2. last_page' \in 1..MaxPages /\ last_page' >= last_page /\ last_page' >= r[1]
      BY <1>1, <2>3
    <3>3. \A s \in Rid : s[1] \in 1..MaxPages
      BY RidAssumption
    <3>4. \A s \in Rid : s[1] > last_page' => s # r /\ s[1] > last_page
      BY <1>1, <3>2, <3>3
    <3>5. \A s \in Rid : s # r => slot'[s] = slot[s]
      BY <1>1, <2>3 DEF HeapTyped
    <3> QED BY <1>1, <3>1, <3>2, <3>4, <3>5 DEF HeapTyped
  <2>8. free_space' \in [1..MaxPages -> Nat]
    BY <1>1, <2>3, TupleAssumption, SpaceAssumption DEF HeapTyped, SetFreeSpace
  <2>9. /\ NoOp \in Ops /\ [NoOp EXCEPT !.op = "insert"] \in Ops
        /\ NoOp.op = "none" /\ [NoOp EXCEPT !.op = "insert"].op = "insert"
    BY SpaceAssumption DEF NoOp, Ops
  <2>10. \A u \in Txn \ {t} : pending'[u] = pending[u] /\ write_set'[u] = write_set[u]
                              /\ phase'[u] = phase[u]
    BY <1>1, <2>3, <2>4 DEF HeapTyped, Record
  <2>11. Alone(t)
    BY <1>1, <2>2, <2>10, OthersIdle
  <2>12. ASSUME state[t] = "GROWING", GotLock(t, r, "X") PROVE Core'
    <3>1. ret'[t] = "true"
      BY ZenonT(60), <2>12, CallReturns
    <3>2. /\ pending' = [pending EXCEPT ![t] = NoOp] /\ pending'[t].op = "none"
          /\ write_set'[t] = Append(write_set[t], WriteRecord(r, "INSERT", NoTuple))
          /\ write_set' = [write_set EXCEPT ![t] = write_set'[t]]
      BY <1>1, <2>3, <2>9, <3>1 DEF HeapTyped, Record
    <3>3. RowLocked(t, r)
      BY ZenonT(60), <2>4, <2>11, <2>12, <3>2, RowLockedNow
    <3>4. ~Holds(t, r, "X")
      BY <2>2, RefusedNotHeld
    <3>5. Rest' /\ write_set'[t] \in Seq(Writes)
      BY ZenonT(60), <2>1, <2>3, <2>6, <3>2, <3>3, <3>4, InsertRow
    <3>6. HeapTyped'
      BY ZenonT(60), <1>1, <2>3, <2>7, <2>8, <2>9, <3>2, <3>5, OpTyped
    <3> QED BY <3>5, <3>6 DEF Core, Rest
  <2>13. ASSUME state[t] = "GROWING", FellAsleep(t, r, "X") PROVE Core'
    <3>1. ret'[t] = "none" /\ call'[t] = [op |-> "X", rid |-> r]
      BY ZenonT(60), <2>13, CallReturns
    <3>2. /\ pending' = [pending EXCEPT ![t] = [NoOp EXCEPT !.op = "insert"]]
          /\ pending'[t].op = "insert" /\ write_set' = write_set
      BY <1>1, <2>3, <2>9, <3>1 DEF HeapTyped
    <3>3. /\ SameLocks
          /\ UNCHANGED <<state, shared, exclusive, write_set, phase, db, writer, log, persistent>>
      BY <2>4, <2>13, <3>2 DEF FellAsleep
    <3>4. \A u \in Txn \ {t} : Idle(u) /\ (Blocked(u) => call[u].rid[1] # r[1])
      BY <2>11 DEF Alone, LatchFree
    <3>5. phase[t] = "run" /\ ~Blocked(t)
      BY DEF Running
    <3>6. Rest'
      BY ZenonT(60), <2>3, <2>6, <2>13, <3>1, <3>2, <3>3, <3>4, <3>5, InsertSleepStep
    <3>7. HeapTyped'
      BY ZenonT(60), <1>1, <2>3, <2>7, <2>8, <2>9, <3>2, OpTyped
    <3> QED BY <3>6, <3>7 DEF Core, Rest
  <2> QED BY <2>1, <2>2, <2>5, <2>12, <2>13
<1> QED BY <1>2, <1>3 DEF PutTuple

LEMMA InsertIntoStep ==
    ASSUME IInv, Core, Disciplined, NEW t \in Txn, NEW p \in 1..MaxPages, NEW tu \in Tuple,
           Running(t), state[t] \in {"GROWING", "ABORTED"}, InsertInto(t, p, tu)
    PROVE  IInv' /\ (Failed \/ Core')
<1>1. HeapTyped /\ last_page \in 1..MaxPages /\ CanWLatch(p)
  BY DEF Core, HeapTyped, InsertInto
<1>2. phase[t] = "run" /\ ~Blocked(t) /\ call[t] = NotBlocked
  BY DEF Running, Blocked
<1>3. ASSUME NEW r \in Target(p, tu), PutTuple(t, r, tu) PROVE IInv' /\ (Failed \/ Core')
  <2>1. /\ r \in Rid /\ r[1] = p /\ slot[r].st \in {"empty", "unused"}
        /\ free_space[r[1]] >= tu[1] + (IF slot[r].st = "unused" THEN SlotSize ELSE 0)
    BY <1>1, TargetSlot
  <2>2. LatchFree(t, r) /\ ~Inserting(r)
    BY <1>1, <2>1, WriteLatch
  <2> QED BY ZenonT(60), <1>3, <2>1, <2>2, PutTupleStep
<1>4. ASSUME p = last_page, p < MaxPages, NEW r \in Target(p + 1, tu), PutTuple(t, r, tu)
      PROVE IInv' /\ (Failed \/ Core')
  <2>1. p + 1 \in 1..MaxPages
    BY <1>4, SpaceAssumption
  <2>2. /\ r \in Rid /\ r[1] = p + 1 /\ slot[r].st \in {"empty", "unused"}
        /\ free_space[r[1]] >= tu[1] + (IF slot[r].st = "unused" THEN SlotSize ELSE 0)
    BY <1>1, <2>1, TargetSlot
  <2>3. ASSUME NEW u \in Txn, Blocked(u), call[u].rid[1] = r[1] PROVE FALSE
    <3>1. call[u] \in BlockedCall
      BY <2>3 DEF IInv, TypeOK, Blocked
    <3>2. call[u].rid \in Rid
      BY <3>1 DEF BlockedCall
    <3>3. slot[call[u].rid].st = "unused"
      BY <1>1, <1>4, <2>2, <2>3, <3>2 DEF HeapTyped
    <3> QED BY <2>3, <3>3 DEF Core, Sleeping
  <2>4. LatchFree(t, r) /\ ~Inserting(r)
    BY <2>3 DEF LatchFree, Inserting, Inserts
  <2> QED BY ZenonT(60), <1>4, <2>2, <2>4, PutTupleStep
<1>5. ASSUME p < last_page,
             pending' = [pending EXCEPT ![t] = [op |-> "walk", page |-> p + 1, tuple |-> tu]],
             UNCHANGED <<vars, tableVars, write_set, endVars, crashed>>
      PROVE  IInv' /\ Core'
  <2> DEFINE o == [op |-> "walk", page |-> p + 1, tuple |-> tu]
  <2>1. o \in Ops /\ o.op = "walk"
    BY <1>1, <1>5, SpaceAssumption DEF Ops
  <2> HIDE DEF o
  <2>2. pending' = [pending EXCEPT ![t] = o] /\ pending'[t] = o
    BY <1>1, <1>5 DEF HeapTyped, o
  <2>3. IInv' /\ SameLocks
    BY <1>5, SameIInv
  <2>4. UNCHANGED <<state, call, shared, exclusive>>
    BY <1>5 DEF vars
  <2>5. \A u \in Txn \ {t} : pending'[u] = pending[u] /\ write_set'[u] = write_set[u]
                             /\ phase'[u] = phase[u]
    BY <1>1, <1>5, <2>2 DEF HeapTyped, endVars
  <2>6. Alone(t)
    BY <2>4, <2>5 DEF Alone, Idle
  <2>7. /\ state'[t] \in {state[t], "ABORTED"} /\ call'[t] = call[t] /\ shared'[t] = shared[t]
        /\ exclusive'[t] = exclusive[t] /\ pending'[t].op \in {"none", "walk"} /\ phase'[t] = "run"
        /\ UNCHANGED <<slot, db, writer, log, persistent, write_set>>
    BY <1>2, <1>5, <2>1, <2>2, <2>4 DEF tableVars, slotVars, endVars
  <2>8. Rest'
    BY ZenonT(60), <2>3, <2>6, <2>7, QuietMove
  <2>9. HeapTyped'
    BY ZenonT(60), <1>1, <1>5, <2>1, <2>2, SameTyped, OpTyped
  <2> QED BY <2>3, <2>8, <2>9 DEF Core, Rest
<1>6. ASSUME SetAborted(t), pending' = [pending EXCEPT ![t] = NoOp],
             UNCHANGED <<tableVars, write_set, endVars, crashed>>
      PROVE  IInv' /\ Core'
  <2>1. IInv' /\ SameLocks
    BY ZenonT(60), <1>6, SetStateIInv DEF SetAborted
  <2>2. pending'[t].op = "none"
    BY <1>1, <1>6, NoOpTyped DEF HeapTyped
  <2>3. \A u \in Txn \ {t} : pending'[u] = pending[u] /\ write_set'[u] = write_set[u]
                             /\ phase'[u] = phase[u]
    BY <1>1, <1>6 DEF HeapTyped, endVars
  <2>4. /\ \A u \in Txn \ {t} : state'[u] = state[u]
        /\ state'[t] = "ABORTED" /\ UNCHANGED <<call, shared, exclusive>>
    BY <1>6 DEF SetAborted, IInv, TypeOK
  <2>5. Alone(t)
    BY <2>3, <2>4 DEF Alone, Idle
  <2>6. /\ state'[t] \in {state[t], "ABORTED"} /\ call'[t] = call[t] /\ shared'[t] = shared[t]
        /\ exclusive'[t] = exclusive[t] /\ pending'[t].op \in {"none", "walk"} /\ phase'[t] = "run"
        /\ UNCHANGED <<slot, db, writer, log, persistent, write_set>>
    BY <1>2, <1>6, <2>2, <2>4 DEF tableVars, slotVars, endVars
  <2>7. Rest'
    BY ZenonT(60), <2>1, <2>5, <2>6, QuietMove
  <2>8. HeapTyped'
    BY ZenonT(60), <1>1, <1>6, NoOpTyped, SameTyped, OpTyped
  <2> QED BY <2>1, <2>7, <2>8 DEF Core, Rest
<1> QED BY <1>3, <1>4, <1>5, <1>6 DEF InsertInto

LEMMA InsertTupleStep ==
    ASSUME IInv, Core, Disciplined, NEW t \in Txn, NEW tu \in Tuple, InsertTuple(t, tu)
    PROVE  IInv' /\ (Failed \/ Core')
<1>1. Running(t) /\ state[t] \in {"GROWING", "ABORTED"}
  BY ClientRuns DEF InsertTuple
<1>2. 1 \in 1..MaxPages /\ InsertInto(t, 1, tu)
  BY SpaceAssumption DEF InsertTuple
<1> QED BY <1>1, <1>2, InsertIntoStep

LEMMA InsertNextStep ==
    ASSUME IInv, Core, Disciplined, NEW t \in Txn, InsertNext(t)
    PROVE  IInv' /\ (Failed \/ Core')
<1>1. /\ Running(t) /\ state[t] \in {"GROWING", "ABORTED"}
      /\ pending[t].page \in 1..MaxPages /\ pending[t].tuple \in Tuple
  BY WalkerRuns DEF InsertNext
<1>2. InsertInto(t, pending[t].page, pending[t].tuple)
  BY DEF InsertNext
<1> QED BY <1>1, <1>2, InsertIntoStep

-----------------------------------------------------------------------------
(* A sleeping operation goes on.                                           *)

\* A call that sleeps has not got its lock yet.
LEMMA BlockedNotHeld ==
    ASSUME IInv, NEW t \in Txn, call[t] # NotBlocked
    PROVE  call[t] \in BlockedCall /\ call[t].rid \in Rid /\ ~Holds(t, call[t].rid, "X")
<1>1. call[t] \in BlockedCall /\ call[t].rid \in Rid
  BY DEF IInv, TypeOK, BlockedCall
<1> DEFINE r == call[t].rid
           m == ModeOf(call[t].op)
<1>2. m \in {"S", "X"}
  BY DEF ModeOf
<1>3. Pending(t, m) \in Requests(r)
  BY DEF IInv, BlockedQueued
<1>4. lock_table[r].list \in Seq(Request) /\ Distinct(lock_table[r].list)
  BY <1>1 DEF IInv, TypeOK, Waiting, RequestsOwned
<1> HIDE DEF r, m
<1>5. HeldReq(t, "X") \notin Requests(r)
  BY <1>2, <1>3, <1>4, DistinctRequests, RequestTyping DEF Requests
<1> QED BY <1>1, <1>5 DEF Holds, r

LEMMA ResumeStep ==
    ASSUME IInv, Core, Disciplined, NEW t \in Txn, Resume(t)
    PROVE  IInv' /\ Core'
<1> DEFINE r == call[t].rid
           o == pending[t]
<1>1. HeapTyped /\ Wake(t) /\ Blocked(t)
  BY DEF Core, Resume, Wake, IInv, TypeOK, Blocked
<1>2. /\ phase[t] = "run" /\ state[t] = "GROWING"
      /\ o.op \in {"get", "mark", "update", "insert"}
      /\ call[t].op = (IF o.op = "get" THEN "S" ELSE "X")
      /\ slot[r].st \in (IF o.op = "mark" THEN {"live", "empty"} ELSE {"live"})
  BY <1>1 DEF Core, Sleeping
<1>3. /\ call[t] \in BlockedCall /\ r \in Rid /\ ~Holds(t, r, "X")
  BY <1>1, BlockedNotHeld DEF Blocked
<1>4. IInv' /\ (GotLock(t, r, call[t].op) \/ FellAsleep(t, r, call[t].op))
  BY <1>1, <1>2, WakeIInv, WakeCall
<1>5. /\ UNCHANGED <<last_page, endVars, crashed>>
      /\ UNCHANGED <<phase, db, writer, log, persistent>>
  BY DEF Resume, endVars
<1>6. /\ ret'[t] = "true" => Done(t, r, o, TRUE) /\ pending' = [pending EXCEPT ![t] = NoOp]
      /\ ret'[t] # "true" => UNCHANGED <<slotVars, write_set, pending>>
  BY ZenonT(60) DEF Resume
<1>7. o \in Ops
  BY <1>1 DEF HeapTyped
<1>8. slot \in [Rid -> Slots]
  BY <1>1 DEF HeapTyped
<1> HIDE DEF o
<1>9. CASE FellAsleep(t, r, call[t].op)
  <2>1. /\ SameLocks /\ ret'[t] = "none" /\ UNCHANGED <<state, shared, exclusive>>
        /\ call' = [call EXCEPT ![t] = [op |-> call[t].op, rid |-> r]]
    BY <1>9 DEF FellAsleep, IInv, TypeOK
  <2>2. [op |-> call[t].op, rid |-> r] = call[t]
    BY <1>3 DEF BlockedCall
  <2>3. call' = call
    BY <2>1, <2>2 DEF IInv, TypeOK
  <2>4. UNCHANGED <<slotVars, write_set, pending>>
    BY <1>6, <2>1
  <2>5. \A u \in Txn : Idle(u) \/ Moves(u)
    BY <1>5, <2>1, <2>3, <2>4 DEF Idle
  <2>6. \A u \in Txn : Persisted(u) => Persisted(u)'
    BY <1>5 DEF Persisted
  <2>7. UNCHANGED <<slot, db, writer>>
    BY <1>5, <2>4 DEF slotVars
  <2>8. Rest'
    BY ZenonT(60), <2>1, <2>5, <2>6, <2>7, MoveStep
  <2>9. HeapTyped'
    BY <1>1, <1>5, <2>4, SameTyped, OpTyped DEF tableVars
  <2> QED BY <1>4, <2>8, <2>9 DEF Core, Rest
<1>10. CASE GotLock(t, r, call[t].op)
  <2>1. PICK m \in {"S", "X"} : m = call[t].op /\ m = (IF o.op = "get" THEN "S" ELSE "X")
    BY <1>2
  <2>2. GotLock(t, r, m) /\ ret'[t] = "true" /\ call'[t] = NotBlocked
    BY ZenonT(60), <1>3, <1>10, <2>1, CallReturns
  <2>3. /\ Done(t, r, o, TRUE) /\ pending' = [pending EXCEPT ![t] = NoOp]
        /\ pending'[t].op = "none" /\ NoOp \in Ops
    BY ZenonT(60), <1>1, <1>6, <2>2, NoOpTyped DEF HeapTyped
  <2>4. \A u \in Txn \ {t} : pending'[u] = pending[u] /\ write_set'[u] = write_set[u]
                             /\ phase'[u] = phase[u]
    BY ZenonT(60), <1>1, <1>2, <1>3, <1>5, <2>3, DoneOthers DEF HeapTyped
  <2>5. Alone(t)
    BY ZenonT(60), <1>1, <1>3, <2>2, <2>4, OthersIdle
  <2> HIDE DEF r
  <2>6. ASSUME o.op # "get" PROVE LatchFree(t, r)
    BY <1>1, <2>6 DEF Core, Latched, LatchFree, r, o
  <2>7. ASSUME o.op # "insert" PROVE ~Inserting(r)
    BY <1>1, <2>7 DEF Core, Latched, Inserting, Inserts, r, o
  <2>8. ASSUME o.op # "get" PROVE RowLocked(t, r)
    <3>1. /\ LocksWith(t, r, "X") /\ shared'[t] = shared[t] /\ exclusive'[t] = exclusive[t] \cup {r}
          /\ state'[t] = state[t]
      BY <1>3, <2>1, <2>2, <2>8 DEF GotLock, IInv, TypeOK
    <3> QED BY <1>2, <1>5, <2>2, <2>3, <2>5, <2>6, <2>8, <3>1 DEF RowLocked, r
  <2>9. CASE o.op = "get"
    <3>1. /\ UNCHANGED <<slotVars, write_set>>
          /\ UNCHANGED <<slot, write_set, phase, db, writer, log, persistent>>
      BY ZenonT(60), <1>5, <2>3, <2>9, DoneGet DEF slotVars
    <3>2. /\ slot[r].st = "live" /\ ~Inserting(r) /\ GotLock(t, r, "S")
          /\ (Blocked(t) => pending[t].op = "get") /\ \A u \in Txn \ {t} : Idle(u)
      BY <1>2, <2>1, <2>2, <2>5, <2>7, <2>9 DEF r, o, Alone
    <3>3. Rest'
      BY ZenonT(60), <1>2, <1>3, <1>4, <2>3, <3>1, <3>2, ReadStep
    <3>4. HeapTyped'
      BY ZenonT(60), <1>1, <1>5, <2>3, <3>1, SameTyped, OpTyped DEF tableVars
    <3> QED BY <1>4, <3>3, <3>4 DEF Core, Rest
  <2>10. CASE o.op = "mark"
    <3>1. /\ slot' = [slot EXCEPT ![r].st = IF @ = "live" THEN "marked" ELSE @]
          /\ UNCHANGED free_space /\ Record(t, r, "DELETE", NoTuple)
      BY ZenonT(60), <2>3, <2>10, DoneMark
    <3>2. /\ write_set'[t] = Append(write_set[t], WriteRecord(r, "DELETE", NoTuple))
          /\ write_set' = [write_set EXCEPT ![t] = write_set'[t]]
      BY <1>1, <3>1 DEF Record, HeapTyped
    <3>3. slot[r].st \in {"live", "empty"}
      BY <1>2, <2>10 DEF r
    <3>4. Rest' /\ slot' \in [Rid -> Slots] /\ write_set'[t] \in Seq(Writes)
      BY ZenonT(60), <1>3, <1>4, <2>7, <2>8, <2>10, <3>1, <3>2, <3>3, MarkRow
    <3>5. slot[r].st # "unused" /\ \A s \in Rid \ {r} : slot'[s] = slot[s]
      BY <1>8, <3>1, <3>3
    <3>6. last_page' \in 1..MaxPages /\ \A s \in Rid : s[1] > last_page' => slot'[s].st = "unused"
      BY <1>1, <1>3, <1>5, <3>4, <3>5, SlotsTyped
    <3>7. free_space' \in [1..MaxPages -> Nat]
      BY <1>1, <3>1 DEF HeapTyped
    <3>8. HeapTyped'
      BY ZenonT(60), <1>1, <1>5, <2>3, <3>2, <3>4, <3>6, <3>7, OpTyped
    <3> QED BY <1>4, <3>4, <3>8 DEF Core, Rest
  <2>11. CASE o.op = "update"
    <3>1. /\ PutInPlace(r, o.tuple) /\ o.tuple \in Tuple
          /\ IF state'[t] # "ABORTED" THEN Record(t, r, "UPDATE", slot[r].tuple)
                                      ELSE UNCHANGED write_set
      BY ZenonT(60), <1>7, <2>3, <2>11, DoneUpdate DEF Ops
    <3>2. slot[r].st = "live" /\ slot[r].tuple \in Tuple
      BY <1>2, <1>3, <1>8, <2>11 DEF Slots, r
    <3>3. slot' = [slot EXCEPT ![r].tuple = o.tuple] /\ free_space' \in [1..MaxPages -> Nat]
      BY <1>1, <1>3, <3>1, <3>2, PutTyped
    <3>4. /\ IF state[t] # "ABORTED"
             THEN write_set'[t] = Append(write_set[t], WriteRecord(r, "UPDATE", slot[r].tuple))
             ELSE write_set'[t] = write_set[t]
          /\ write_set' = write_set \/ write_set' = [write_set EXCEPT ![t] = write_set'[t]]
      BY ZenonT(60), <1>1, <2>8, <2>11, <3>1 DEF Record, HeapTyped, RowLocked
    <3>5. RowLocked(t, r) /\ ~Inserting(r)
      BY <2>7, <2>8, <2>11
    <3>6. Rest' /\ slot' \in [Rid -> Slots] /\ write_set'[t] \in Seq(Writes)
      BY ZenonT(60), <1>3, <1>4, <3>1, <3>2, <3>3, <3>4, <3>5, UpdateRow
    <3>7. slot[r].st # "unused" /\ \A s \in Rid \ {r} : slot'[s] = slot[s]
      BY <1>8, <3>2, <3>3
    <3>8. last_page' \in 1..MaxPages /\ \A s \in Rid : s[1] > last_page' => slot'[s].st = "unused"
      BY <1>1, <1>3, <1>5, <3>6, <3>7, SlotsTyped
    <3>9. HeapTyped'
      BY ZenonT(60), <1>1, <1>5, <2>3, <3>3, <3>4, <3>6, <3>8, OpTyped
    <3> QED BY <1>4, <3>6, <3>9 DEF Core, Rest
  <2>12. CASE o.op = "insert"
    <3>1. UNCHANGED slotVars /\ Record(t, r, "INSERT", NoTuple)
      BY ZenonT(60), <2>3, <2>12, DoneInsert
    <3>2. /\ write_set'[t] = Append(write_set[t], WriteRecord(r, "INSERT", NoTuple))
          /\ write_set' = [write_set EXCEPT ![t] = write_set'[t]]
      BY <1>1, <3>1 DEF Record, HeapTyped
    <3>3. slot[r] \in Slots /\ slot[r].st = "live" /\ slot' = [slot EXCEPT ![r] = slot[r]]
      BY <1>2, <1>3, <1>8, <2>12, <3>1 DEF slotVars, r
    <3>4. RowLocked(t, r) /\ ~Holds(t, r, "X") /\ Inserting(r)
      BY <1>1, <1>3, <2>8, <2>12 DEF r, o, Inserting, Inserts
    <3>5. Rest' /\ write_set'[t] \in Seq(Writes)
      BY ZenonT(60), <1>3, <1>4, <3>2, <3>3, <3>4, InsertRow
    <3>6. HeapTyped'
      BY ZenonT(60), <1>1, <1>5, <2>3, <3>1, <3>2, <3>5, SameTyped, OpTyped DEF tableVars
    <3> QED BY ZenonT(60), <1>4, <3>5, <3>6 DEF Core, Rest
  <2> QED BY <1>2, <2>9, <2>10, <2>11, <2>12
<1> QED BY <1>4, <1>9, <1>10

-----------------------------------------------------------------------------
(* Commit and Abort.                                                       *)

LEMMA CommitActionStep ==
    ASSUME IInv, Core, Disciplined, NEW t \in Txn, Commit(t)
    PROVE  IInv' /\ Core'
<1>1. Running(t) /\ pending[t].op = "none" /\ phase[t] = "run" /\ ~Blocked(t)
  BY ZenonT(60), ClientRuns DEF Commit, Running
<1>2. /\ state[t] = "GROWING" /\ pending[t].op # "walk"
      /\ state' = [state EXCEPT ![t] = "COMMITTED"]
      /\ phase' = [phase EXCEPT ![t] = "commit"]
      /\ db' = [r \in Rid |-> IF r \in exclusive[t] THEN Visible(slot[r]) ELSE db[r]]
      /\ writer' = [r \in Rid |-> IF r \in exclusive[t] THEN t ELSE writer[r]]
      /\ UNCHANGED <<call, pending, shared, exclusive, slot, write_set, log, persistent>>
  BY <1>1 DEF Commit, Disciplined, tableVars, slotVars
<1>3. IInv' /\ SameLocks
  BY ZenonT(60), SetStateIInv DEF Commit
<1>4. Rest'
  BY ZenonT(60), <1>1, <1>2, <1>3, CommitStep
<1>5. HeapTyped'
  <2>1. HeapTyped /\ \A r \in Rid : Visible(slot[r]) \in Tuple \cup {NoTuple}
    BY DEF Core, HeapTyped, Slots, Visible
  <2>2. db' \in [Rid -> Tuple \cup {NoTuple}]
    BY <1>2, <2>1 DEF HeapTyped
  <2>3. writer' \in [Rid -> Txn \cup {NoTxnYet}]
    BY <1>2, <2>1 DEF HeapTyped
  <2>4. phase' \in [Txn -> {"run", "commit", "abort", "ended"}]
    BY <1>2, <2>1 DEF HeapTyped
  <2>5. UNCHANGED <<slot, free_space, last_page, pending, write_set, todo, log, persistent>>
    BY DEF Commit, tableVars, slotVars
  <2> QED BY <2>1, <2>2, <2>3, <2>4, <2>5 DEF HeapTyped
<1> QED BY <1>3, <1>4, <1>5 DEF Core, Rest

LEMMA AbortActionStep ==
    ASSUME IInv, Core, NEW t \in Txn, Abort(t)
    PROVE  IInv' /\ Core'
<1>1. Running(t) /\ pending[t].op = "none" /\ HeapTyped
  BY ClientRuns DEF Abort, Core
<1>2. IInv' /\ SameLocks
  BY ZenonT(60), SetStateIInv DEF Abort
<1>3. /\ state'[t] \in {state[t], "ABORTED"} /\ call'[t] = call[t] /\ shared'[t] = shared[t]
      /\ exclusive'[t] = exclusive[t] /\ pending'[t].op \in {"none", "walk"}
      /\ phase'[t] = "abort" /\ state'[t] = "ABORTED" /\ pending'[t].op = "none"
      /\ UNCHANGED <<slot, db, writer, log, persistent, write_set>>
  BY <1>1 DEF Abort, tableVars, slotVars, IInv, TypeOK, HeapTyped
<1>4. Alone(t)
  BY <1>1 DEF Alone, Idle, Abort, IInv, TypeOK, HeapTyped
<1>5. Rest'
  BY ZenonT(60), <1>1, <1>2, <1>3, <1>4, QuietMove
<1>6. HeapTyped'
  BY <1>1 DEF HeapTyped, Abort, tableVars, slotVars
<1> QED BY <1>2, <1>5, <1>6 DEF Core, Rest

\* Commit and Abort with records left to work off.
Ending(t) == phase[t] \in {"commit", "abort"} /\ write_set[t] # <<>>

LEMMA EndingFacts ==
    ASSUME IInv, Core, NEW t \in Txn, Ending(t)
    PROVE  LET ws == write_set[t]
           IN  /\ ws \in Seq(Writes) /\ ws # <<>> /\ Shaped(ws) /\ Len(ws) \in Nat
               /\ Len(ws) \in 1..Len(ws)
               /\ Item(t) = ws[Len(ws)] /\ Item(t) \in Writes /\ Item(t).rid \in Rid
               /\ Covered(t, Len(ws))
               /\ ~Blocked(t) /\ pending[t].op = "none" /\ phase[t] # "ended" /\ phase[t] # "run"
               /\ state[t] = IF phase[t] = "commit" THEN "COMMITTED" ELSE "ABORTED"
<1> DEFINE ws == write_set[t]
<1>1. HeapTyped /\ Phases /\ Sleeping /\ Records
  BY DEF Core
<1>2. ws \in Seq(Writes) /\ ws # <<>> /\ Shaped(ws)
  BY <1>1, RecordTyping DEF Ending, Records
<1>3. Len(ws) \in Nat /\ Len(ws) \in 1..Len(ws)
  BY <1>2
<1>4. Item(t) = ws[Len(ws)] /\ Covered(t, Len(ws))
  BY <1>1, <1>3 DEF Item, Turn, Records
<1>5. Item(t) \in Writes /\ Item(t).rid \in Rid
  BY <1>1, <1>3, <1>4, RecordTyping
<1>6. ~Blocked(t) /\ phase[t] # "ended" /\ phase[t] # "run"
  BY <1>1 DEF Ending, Sleeping
<1>7. pending[t].op = "none"
  BY <1>1, <1>6 DEF Sleeping, Phases
<1>8. state[t] = IF phase[t] = "commit" THEN "COMMITTED" ELSE "ABORTED"
  BY <1>1 DEF Ending, Phases
<1> QED BY <1>2, <1>3, <1>4, <1>5, <1>6, <1>7, <1>8

LEMMA PopEffect ==
    ASSUME HeapTyped, NEW t \in Txn, Pop(t)
    PROVE  /\ write_set'[t] = Popped(write_set[t])
           /\ write_set' = [write_set EXCEPT ![t] = Popped(write_set[t])]
           /\ \A u \in Txn \ {t} : write_set'[u] = write_set[u]
BY DEF Pop, Turn, Popped, HeapTyped

\* A record of Commit or Abort is worked off: the row, and perhaps its lock.
LEMMA WorkedOff ==
    ASSUME IInv, IInv', Core, NEW t \in Txn, Ending(t), NEW r \in Rid, r = Item(t).rid, NEW s2,
           Holds(t, r, "X"),
           \A u \in Txn, s \in Rid, n \in {"S", "X"} :
                u # t \/ s # r \/ n # "X" => (Holds(u, s, n)' <=> Holds(u, s, n)),
           CanWLatch(r[1]), Pop(t), UNCHANGED <<pending, state, call, shared, exclusive>>,
           UNCHANGED endVars, slot' = [slot EXCEPT ![r] = s2],
           LET ws2 == Popped(write_set[t])
           IN  IF Holds(t, r, "X")'
               THEN Owner(ws2, r, phase[t], state[t], s2, db[r])
               ELSE /\ Visible(s2) = NoTuple /\ db[r] = NoTuple
                    /\ \A i \in On(ws2, r) : phase[t] = "commit" /\ ws2[i].wtype # "DELETE"
    PROVE  Rest'
<1> DEFINE ws == write_set[t]
           ws2 == Popped(ws)
<1>1. /\ ws \in Seq(Writes) /\ ws # <<>> /\ Shaped(ws) /\ Item(t) = ws[Len(ws)]
      /\ ~Blocked(t) /\ pending[t].op = "none" /\ phase[t] # "ended" /\ phase[t] # "run"
  BY ZenonT(60), EndingFacts
<1>2. ws2 \in Seq(Writes) /\ \A s \in Rid \ {r} : SameOn(ws, ws2, s)
  BY ZenonT(60), <1>1, PopOn
<1>3. Shaped(ws2)
  BY ZenonT(60), <1>1, PopShaped
<1>4. HeapTyped /\ write_set'[t] = ws2 /\ \A u \in Txn \ {t} : write_set'[u] = write_set[u]
  BY ZenonT(60), PopEffect DEF Core
<1>5. UNCHANGED <<phase, db, writer, log, persistent>>
  BY ZenonT(60) DEF endVars
<1>6. \A u \in Txn \ {t} : Idle(u) /\ (Blocked(u) => call[u].rid[1] # r[1])
  BY ZenonT(60), <1>4, <1>5 DEF Idle, CanWLatch, Latching, Blocked
<1>7. \A i \in On(ws2, r) : phase[t] # "commit" \/ ws2[i].wtype = "DELETE" => Holds(t, r, "X")'
  BY ZenonT(60)
<1>8. /\ Holds(t, r, "X")' => Owner(ws2, r, phase[t], state[t], s2, db[r])
      /\ ~Holds(t, r, "X")' => phase[t] # "run" /\ Visible(s2) = NoTuple /\ db[r] = NoTuple
  BY ZenonT(60), <1>1
<1>9. /\ Holds(t, r, "X") \/ Holds(t, r, "X")'
      /\ Blocked(t) => call[t].rid = r
      /\ shared'[t] = shared[t] /\ exclusive'[t] \subseteq exclusive[t] \cup {r}
      /\ state'[t] = state[t] /\ call'[t] = NotBlocked /\ pending'[t].op = "none"
  BY ZenonT(60), <1>1 DEF Blocked
<1> HIDE DEF ws2
<1> QED BY ZenonT(60), <1>1, <1>2, <1>3, <1>4, <1>5, <1>6, <1>7, <1>8, <1>9, RowStep

\* The types after that.
LEMMA WorkedOffTyped ==
    ASSUME IInv, Core, NEW t \in Txn, Ending(t), NEW r \in Rid, NEW s2 \in Slots,
           slot[r].st # "unused", slot' = [slot EXCEPT ![r] = s2],
           free_space' \in [1..MaxPages -> Nat], Pop(t), UNCHANGED <<last_page, pending, endVars>>
    PROVE  HeapTyped'
<1>1. HeapTyped /\ Popped(write_set[t]) \in Seq(Writes)
  BY ZenonT(60), EndingFacts, PopOn DEF Core
<1>2. write_set' = [write_set EXCEPT ![t] = Popped(write_set[t])]
  BY <1>1, PopEffect
<1>3. slot' \in [Rid -> Slots] /\ \A s \in Rid \ {r} : slot'[s] = slot[s]
  BY <1>1 DEF HeapTyped
<1>4. last_page' \in 1..MaxPages /\ \A s \in Rid : s[1] > last_page' => slot'[s].st = "unused"
  BY <1>1, <1>3, SlotsTyped
<1> QED BY ZenonT(60), <1>1, <1>2, <1>3, <1>4, OpTyped

\* t still has the row of the record.
LEMMA ItemOwner ==
    ASSUME IInv, Core, NEW t \in Txn, Ending(t), NEW r \in Rid, r = Item(t).rid,
           Holds(t, r, "X"), CanWLatch(r[1])
    PROVE  /\ Owner(write_set[t], r, phase[t], state[t], slot[r], db[r])
           /\ slot[r] \in Slots /\ ~Inserting(r)
<1>1. ~Inserting(r)
  BY ZenonT(60), WriteLatch
<1> QED BY <1>1 DEF Core, Owners, Owned, HeapTyped

\* ApplyDelete, in Commit for a DELETE and in Abort for an INSERT.
LEMMA ApplyDeleteStep ==
    ASSUME IInv, Core, NEW t \in Txn, Ending(t), NEW r \in Rid, r = Item(t).rid,
           Item(t).wtype = (IF phase[t] = "commit" THEN "DELETE" ELSE "INSERT"),
           ApplyDelete(t, r)
    PROVE  IInv' /\ (Failed \/ Core')
<1>1. CASE Crash
  <2>1. IInv'
    BY <1>1, SameIInv DEF Crash
  <2>2. Failed
    BY <1>1 DEF Crash, Failed, vars, endVars
  <2> QED BY <2>1, <2>2
<1>2. CASE /\ slot[r].st \in {"live", "marked"} /\ r \in exclusive[t] /\ Unlock(t, r)
           /\ slot' = [slot EXCEPT ![r] = Empty]
           /\ SetFreeSpace(r[1], 0, slot[r].tuple[1])
           /\ Pop(t)
           /\ UNCHANGED <<last_page, pending, endVars, crashed>>
  <2> DEFINE ws == write_set[t]
             ws2 == Popped(ws)
  <2>1. /\ ws \in Seq(Writes) /\ ws # <<>> /\ Shaped(ws) /\ Item(t) = ws[Len(ws)]
        /\ Covered(t, Len(ws)) /\ phase[t] \in {"commit", "abort"}
        /\ state[t] = IF phase[t] = "commit" THEN "COMMITTED" ELSE "ABORTED"
    BY EndingFacts DEF Ending
  <2>2. Holds(t, r, "X")
    BY <2>1 DEF Covered
  <2>3. CanWLatch(r[1])
    BY DEF ApplyDelete
  <2>4. Owner(ws, r, phase[t], state[t], slot[r], db[r]) /\ slot[r] \in Slots
    BY <2>2, <2>3, ItemOwner
  <2>5. IInv'
    BY <1>2, UnlockIInv
  <2>6. /\ UNCHANGED <<shared, exclusive, call>>
        /\ \A u \in Txn, s \in Rid, n \in {"S", "X"} :
             u # t \/ s # r => (Holds(u, s, n)' <=> Holds(u, s, n))
        /\ state' = state /\ \A n \in {"S", "X"} : ~Holds(t, r, n)'
    <3>1. Unlock(t, r) /\ state[t] \in {"COMMITTED", "ABORTED"}
      BY ZenonT(60), <1>2, <2>1
    <3>2. /\ UNCHANGED <<shared, exclusive, call>>
          /\ \A u \in Txn, s \in Rid, n \in {"S", "X"} :
               /\ Holds(u, s, n)' => Holds(u, s, n)
               /\ u # t \/ s # r => (Holds(u, s, n)' <=> Holds(u, s, n))
          /\ state[t] \in {"COMMITTED", "ABORTED"} =>
               state' = state /\ \A n \in {"S", "X"} : ~Holds(t, r, n)'
      BY ZenonT(60), <3>1, UnlockCall
    <3> QED BY <3>1, <3>2
  <2>7. ~Holds(t, r, "S")
    BY <2>2, LocksExclude
  <2>8. \A u \in Txn, s \in Rid, n \in {"S", "X"} :
             u # t \/ s # r \/ n # "X" => (Holds(u, s, n)' <=> Holds(u, s, n))
    BY <2>6, <2>7
  <2>9. Visible(Empty) = NoTuple /\ Empty \in Slots
    BY NoTupleIsNone DEF Visible, Empty, Slots
  <2>10. db[r] = NoTuple /\ \A i \in On(ws2, r) : phase[t] = "commit" /\ ws2[i].wtype # "DELETE"
    <3>1. CASE phase[t] = "commit"
      <4>1. /\ Owner(ws, r, "commit", "COMMITTED", slot[r], db[r])
            /\ ws[Len(ws)].rid = r /\ ws[Len(ws)].wtype = "DELETE"
        BY <2>1, <2>4, <3>1
      <4> QED BY ZenonT(60), <1>2, <2>1, <2>4, <3>1, <4>1, OwnerCommits
    <3>2. CASE phase[t] = "abort"
      <4>1. /\ Owner(ws, r, "abort", "ABORTED", slot[r], db[r])
            /\ ws[Len(ws)].rid = r /\ ws[Len(ws)].wtype = "INSERT"
        BY <2>1, <2>4, <3>2
      <4>2. db[r] = NoTuple /\ On(ws2, r) = {}
        BY ZenonT(60), <2>1, <2>4, <4>1, OwnerUndoes
      <4> QED BY <4>2
    <3> QED BY <2>1, <3>1, <3>2
  <2>11. /\ UNCHANGED <<pending, state, call, shared, exclusive>> /\ UNCHANGED endVars
         /\ ~Holds(t, r, "X")' /\ Pop(t) /\ slot' = [slot EXCEPT ![r] = Empty]
    BY <1>2, <2>6
  <2>12. LET x == Popped(write_set[t])
         IN  IF Holds(t, r, "X")'
             THEN Owner(x, r, phase[t], state[t], Empty, db[r])
             ELSE /\ Visible(Empty) = NoTuple /\ db[r] = NoTuple
                  /\ \A i \in On(x, r) : phase[t] = "commit" /\ x[i].wtype # "DELETE"
    BY <2>9, <2>10, <2>11
  <2>13. Rest'
    BY ZenonT(60), <2>2, <2>3, <2>5, <2>8, <2>11, <2>12, WorkedOff
  <2>14. free_space' \in [1..MaxPages -> Nat]
    <3>1. r[1] \in 1..MaxPages
      BY RidAssumption
    <3>2. slot[r].tuple[1] \in Nat
      BY ZenonT(60), <1>2, <2>4, TupleAssumption DEF Slots
    <3>3. free_space \in [1..MaxPages -> Nat]
      BY DEF Core, HeapTyped
    <3> QED BY <1>2, <3>1, <3>2, <3>3 DEF SetFreeSpace
  <2>15. HeapTyped'
    BY ZenonT(60), <1>2, <2>9, <2>14, WorkedOffTyped
  <2> QED BY <2>5, <2>13, <2>15 DEF Core, Rest
<1> QED BY <1>1, <1>2 DEF ApplyDelete

LEMMA RollbackDeleteStep ==
    ASSUME IInv, Core, NEW t \in Txn, Ending(t), phase[t] = "abort", NEW r \in Rid, r = Item(t).rid,
           Item(t).wtype = "DELETE", RollbackDelete(t, r)
    PROVE  IInv' /\ (Failed \/ Core')
<1>1. CASE Crash
  <2>1. IInv'
    BY <1>1, SameIInv DEF Crash
  <2>2. Failed
    BY <1>1 DEF Crash, Failed, vars, endVars
  <2> QED BY <2>1, <2>2
<1>2. CASE /\ r \in exclusive[t] /\ slot[r].st \in {"empty", "marked"}
           /\ slot' = [slot EXCEPT ![r].st = IF @ = "marked" THEN "live" ELSE @]
           /\ Pop(t)
           /\ UNCHANGED <<vars, free_space, last_page, pending, endVars, crashed>>
  <2> DEFINE ws == write_set[t]
             ws2 == Popped(ws)
             s == slot[r]
             s2 == [s EXCEPT !.st = IF @ = "marked" THEN "live" ELSE @]
  <2>1. /\ ws \in Seq(Writes) /\ ws # <<>> /\ Shaped(ws) /\ Item(t) = ws[Len(ws)]
        /\ Covered(t, Len(ws)) /\ state[t] = "ABORTED"
    BY EndingFacts
  <2>2. Holds(t, r, "X")
    BY <1>2, <2>1 DEF Covered
  <2>3. CanWLatch(r[1])
    BY DEF RollbackDelete
  <2>4. Owner(ws, r, "abort", "ABORTED", s, db[r]) /\ s \in Slots
    BY ZenonT(60), <2>1, <2>2, <2>3, ItemOwner
  <2>5. IInv' /\ SameLocks /\ UNCHANGED <<pending, state, call, shared, exclusive>>
    BY <1>2, SameIInv DEF vars
  <2>6. slot' = [slot EXCEPT ![r] = s2]
    BY <1>2
  <2>7. s.st \in {"empty", "marked"} /\ ws[Len(ws)].rid = r /\ ws[Len(ws)].wtype = "DELETE"
    BY <1>2, <2>1
  <2> HIDE DEF s
  <2>8. s2 \in Slots /\ Owner(ws2, r, "abort", "ABORTED", s2, db[r])
    BY ZenonT(60), <2>1, <2>4, <2>7, OwnerUndoes
  <2> HIDE DEF s2
  <2>9. \A u \in Txn, v \in Rid, n \in {"S", "X"} :
             u # t \/ v # r \/ n # "X" => (Holds(u, v, n)' <=> Holds(u, v, n))
    BY <2>5 DEF SameLocks
  <2>10. Holds(t, r, "X")'
    BY <2>2, <2>5 DEF SameLocks
  <2>11. LET x == Popped(write_set[t])
         IN  IF Holds(t, r, "X")'
             THEN Owner(x, r, phase[t], state[t], s2, db[r])
             ELSE /\ Visible(s2) = NoTuple /\ db[r] = NoTuple
                  /\ \A i \in On(x, r) : phase[t] = "commit" /\ x[i].wtype # "DELETE"
    BY <2>1, <2>8, <2>10
  <2>12. Pop(t) /\ UNCHANGED endVars
    BY <1>2
  <2>13. Rest'
    BY ZenonT(60), <2>2, <2>3, <2>5, <2>6, <2>9, <2>11, <2>12, WorkedOff
  <2>14. /\ free_space' \in [1..MaxPages -> Nat] /\ slot[r].st # "unused"
         /\ UNCHANGED <<last_page, pending, endVars>>
    BY <1>2 DEF Core, HeapTyped
  <2>15. HeapTyped'
    BY ZenonT(60), <2>6, <2>8, <2>12, <2>14, WorkedOffTyped
  <2> QED BY <2>5, <2>13, <2>15 DEF Core, Rest
<1> QED BY <1>1, <1>2 DEF RollbackDelete

LEMMA UndoUpdateStep ==
    ASSUME IInv, Core, Disciplined, NEW t \in Txn, Ending(t), phase[t] = "abort",
           NEW r \in Rid, r = Item(t).rid,
           Item(t).wtype = "UPDATE", UndoUpdate(t, r, Item(t).tuple)
    PROVE  IInv' /\ Core'
<1> DEFINE ws == write_set[t]
           ws2 == Popped(ws)
           s == slot[r]
           old == Item(t).tuple
           s2 == [s EXCEPT !.tuple = ws[Len(ws)].tuple]
<1>1. /\ ws \in Seq(Writes) /\ ws # <<>> /\ Shaped(ws) /\ Item(t) = ws[Len(ws)]
      /\ Covered(t, Len(ws)) /\ state[t] = "ABORTED" /\ Item(t) \in Writes
  BY EndingFacts
<1>2. Holds(t, r, "X")
  BY <1>1 DEF Covered
<1>3. CanWLatch(r[1]) /\ Pop(t) /\ UNCHANGED <<vars, last_page, pending, endVars, crashed>>
  BY DEF UndoUpdate
<1>4. Owner(ws, r, "abort", "ABORTED", s, db[r]) /\ s \in Slots
  BY ZenonT(60), <1>1, <1>2, <1>3, ItemOwner
<1>5. IInv' /\ SameLocks /\ UNCHANGED <<pending, state, call, shared, exclusive>>
  BY <1>3, SameIInv DEF vars
<1>6. ws[Len(ws)].rid = r /\ ws[Len(ws)].wtype = "UPDATE"
  BY <1>1
<1>7. s.st = "live" /\ s2 \in Slots /\ Owner(ws2, r, "abort", "ABORTED", s2, db[r])
  <2> HIDE DEF s
  <2> QED BY ZenonT(60), <1>1, <1>4, <1>6, OwnerUndoes
<1>8. old \in Tuple /\ s.tuple \in Tuple
  BY ZenonT(60), <1>1, <1>4, <1>7 DEF Writes, Slots
<1>9. HasSpace(r, old)
  <2>1. old[1] \in Nat /\ s.tuple[1] = old[1]
    BY <1>8, TupleAssumption DEF Disciplined
  <2>2. free_space[r[1]] \in Nat
    BY RidAssumption DEF Core, HeapTyped
  <2> QED BY <2>1, <2>2 DEF HasSpace
<1>10. PutInPlace(r, old)
  BY <1>2, <1>7, <1>9, HeldRecorded DEF UndoUpdate
<1>11. slot' = [slot EXCEPT ![r].tuple = old] /\ free_space' \in [1..MaxPages -> Nat]
  BY <1>8, <1>10, PutTyped DEF Core
<1>12. slot' = [slot EXCEPT ![r] = s2]
  BY ZenonT(60), <1>1, <1>11
<1> HIDE DEF s2, s
<1>13. \A u \in Txn, v \in Rid, n \in {"S", "X"} :
             u # t \/ v # r \/ n # "X" => (Holds(u, v, n)' <=> Holds(u, v, n))
  BY <1>5 DEF SameLocks
<1>14. Holds(t, r, "X")'
  BY <1>2, <1>5 DEF SameLocks
<1>15. LET x == Popped(write_set[t])
       IN  IF Holds(t, r, "X")'
           THEN Owner(x, r, phase[t], state[t], s2, db[r])
           ELSE /\ Visible(s2) = NoTuple /\ db[r] = NoTuple
                /\ \A i \in On(x, r) : phase[t] = "commit" /\ x[i].wtype # "DELETE"
  BY ZenonT(60), <1>1, <1>7, <1>14
<1>16. Pop(t) /\ UNCHANGED endVars /\ UNCHANGED <<last_page, pending, endVars>>
  BY <1>3
<1>17. Rest'
  BY ZenonT(60), <1>2, <1>3, <1>5, <1>12, <1>13, <1>15, <1>16, WorkedOff
<1>18. slot[r].st # "unused"
  BY <1>7 DEF s
<1>19. HeapTyped'
  BY ZenonT(60), <1>7, <1>11, <1>12, <1>16, <1>18, WorkedOffTyped
<1> QED BY <1>5, <1>17, <1>19 DEF Core, Rest

LEMMA AbortItemStep ==
    ASSUME IInv, Core, Disciplined, NEW t \in Txn, AbortItem(t)
    PROVE  IInv' /\ (Failed \/ Core')
<1>1. Ending(t) /\ phase[t] = "abort"
  BY DEF AbortItem, Ending
<1>2. Item(t).rid \in Rid
  BY <1>1, EndingFacts
<1>3. CASE Item(t).wtype = "DELETE" /\ RollbackDelete(t, Item(t).rid)
  BY <1>1, <1>2, <1>3, RollbackDeleteStep
<1>4. CASE Item(t).wtype = "INSERT" /\ ApplyDelete(t, Item(t).rid)
  <2>1. Item(t).wtype = (IF phase[t] = "commit" THEN "DELETE" ELSE "INSERT")
    BY <1>1, <1>4
  <2> QED BY <1>1, <1>2, <1>4, <2>1, ApplyDeleteStep
<1>5. CASE Item(t).wtype = "UPDATE" /\ UndoUpdate(t, Item(t).rid, Item(t).tuple)
  BY <1>1, <1>2, <1>5, UndoUpdateStep
<1> QED BY <1>3, <1>4, <1>5 DEF AbortItem

\* Commit drops a record.
LEMMA DropStep ==
    ASSUME IInv, Core, NEW t \in Txn, Ending(t), phase[t] = "commit", Item(t).wtype # "DELETE",
           Pop(t), UNCHANGED <<vars, tableVars, pending, endVars, crashed>>
    PROVE  IInv' /\ Core'
<1> DEFINE ws == write_set[t]
           ws2 == Popped(ws)
           r == ws[Len(ws)].rid
<1>1. /\ ws \in Seq(Writes) /\ ws # <<>> /\ Shaped(ws) /\ Item(t) = ws[Len(ws)]
      /\ state[t] = "COMMITTED" /\ r \in Rid /\ ~Blocked(t) /\ pending[t].op = "none"
      /\ Len(ws) \in 1..Len(ws)
  BY EndingFacts
<1>2. /\ ws2 \in Seq(Writes) /\ \A s \in Rid \ {r} : SameOn(ws, ws2, s)
      /\ \A i \in 1..Len(ws2) : i \in 1..Len(ws) /\ ws2[i] = ws[i]
  BY <1>1, PopOn
<1>3. Shaped(ws2)
  BY <1>1, PopShaped
<1>4. /\ HeapTyped /\ write_set'[t] = ws2 /\ \A u \in Txn \ {t} : write_set'[u] = write_set[u]
      /\ write_set' = [write_set EXCEPT ![t] = ws2]
  BY PopEffect DEF Core
<1>5. IInv' /\ SameLocks /\ UNCHANGED <<state, call, shared, exclusive>>
  BY SameIInv DEF vars
<1>6. UNCHANGED <<slot, phase, db, writer, log, persistent>>
  BY DEF tableVars, slotVars, endVars
<1> HIDE DEF ws2
<1>7. \A i \in 1..Len(ws2) : Covered(t, i)'
  <2>1. \A i \in 1..Len(ws) : Covered(t, i) /\ ws[i].rid \in Rid
    BY ZenonT(60), <1>4, RecordTyping DEF Core, Records
  <2> QED BY ZenonT(60), <1>2, <1>4, <1>5, <1>6, <2>1 DEF Covered, SameLocks
<1>8. ASSUME NEW s \in Rid, Holds(t, s, "X")
      PROVE  /\ Inserting(s) => Stuck(ws2, s, "commit")
             /\ ~Inserting(s) => Owner(ws2, s, "commit", "COMMITTED", slot[s], db[s])
             /\ Inserting(s) /\ StuckCommit(t, s) => StuckCommit(t, s)'
  <2>1. Owned(t, s)
    BY <1>8 DEF Core, Owners
  <2>2. CASE s # r
    <3>1. SameOn(ws, ws2, s)
      BY <1>2, <2>2
    <3>2. /\ Inserting(s) => Stuck(ws, s, "commit")
          /\ ~Inserting(s) => Owner(ws, s, "commit", "COMMITTED", slot[s], db[s])
      BY <1>1, <2>1 DEF Owned
    <3>3. /\ Inserting(s) => Stuck(ws2, s, "commit")
          /\ ~Inserting(s) => Owner(ws2, s, "commit", "COMMITTED", slot[s], db[s])
      BY <3>1, <3>2, OwnerSame
    <3>4. StuckCommit(t, s) => StuckCommit(t, s)'
      BY <1>4, <1>5, <1>6, <3>1 DEF StuckCommit, SameOn, SameLocks
    <3> QED BY <3>3, <3>4
  <2>3. CASE s = r
    <3>1. ~Inserting(s)
      <4>1. Len(ws) \in On(ws, r)
        BY ZenonT(60), <1>1 DEF On
      <4> QED BY ZenonT(60), <1>1, <2>1, <2>3, <4>1 DEF Owned, Stuck
    <3>2. Owner(ws, r, "commit", "COMMITTED", slot[r], db[r]) /\ slot[r] \in Slots
      BY ZenonT(60), <1>1, <1>4, <2>1, <2>3, <3>1 DEF Owned, HeapTyped
    <3>3. Owner(ws2, r, "commit", "COMMITTED", slot[r], db[r])
      BY ZenonT(60), <1>1, <3>2, OwnerCommits DEF ws2
    <3> QED BY ZenonT(60), <2>3, <3>1, <3>3
  <2> QED BY ZenonT(60), <2>2, <2>3
<1>9. call'[t] = NotBlocked /\ phase'[t] = "commit" /\ state'[t] = "COMMITTED" /\ pending'[t].op = "none"
  BY ZenonT(60), <1>1, <1>5, <1>6 DEF Blocked
<1>10. Moves(t)
  BY ZenonT(60), <1>1, <1>3, <1>4, <1>5, <1>7, <1>8, <1>9 DEF Moves
<1>11. \A u \in Txn : Idle(u) \/ Moves(u)
  BY <1>4, <1>5, <1>6, <1>10 DEF Idle
<1>12. \A u \in Txn : Persisted(u) => Persisted(u)'
  BY <1>6 DEF Persisted
<1>13. UNCHANGED <<slot, db, writer>>
  BY <1>6
<1>14. Rest'
  BY ZenonT(60), <1>5, <1>11, <1>12, <1>13, MoveStep
<1>15. HeapTyped'
  BY ZenonT(60), <1>2, <1>4, SameTyped, OpTyped
<1> QED BY <1>5, <1>14, <1>15 DEF Core, Rest

LEMMA CommitItemStep ==
    ASSUME IInv, Core, NEW t \in Txn, CommitItem(t)
    PROVE  IInv' /\ (Failed \/ Core')
<1>1. Ending(t) /\ phase[t] = "commit"
  BY DEF CommitItem, Ending
<1>2. Item(t).rid \in Rid
  BY <1>1, EndingFacts
<1>3. CASE Item(t).wtype = "DELETE" /\ ApplyDelete(t, Item(t).rid)
  <2>1. Item(t).wtype = (IF phase[t] = "commit" THEN "DELETE" ELSE "INSERT")
    BY <1>1, <1>3
  <2> QED BY <1>1, <1>2, <1>3, <2>1, ApplyDeleteStep
<1>4. CASE /\ Item(t).wtype # "DELETE" /\ Pop(t)
           /\ UNCHANGED <<vars, tableVars, pending, endVars, crashed>>
  BY <1>1, <1>4, DropStep
<1> QED BY <1>3, <1>4 DEF CommitItem

-----------------------------------------------------------------------------
(* The end of a transaction.                                               *)

\* The records on disk.
LEMMA PersistedIs ==
    ASSUME NEW l \in Seq(Txn), NEW n \in 0..Len(l), NEW u
    PROVE  u \in Range(SubSeq(l, 1, n)) <=> \E i \in 1..n : l[i] = u
<1> DEFINE p == SubSeq(l, 1, n)
<1>1. Len(p) = n /\ \A i \in 1..n : p[i] = l[i]
  OBVIOUS
<1>2. p \in Seq(Txn)
  OBVIOUS
<1> HIDE DEF p
<1>3. DOMAIN p = 1..n
  BY <1>1, <1>2
<1>4. Range(p) = {p[i] : i \in 1..n}
  BY <1>3 DEF Range
<1> QED BY <1>1, <1>4 DEF p

LEMMA AppendEndStep ==
    ASSUME IInv, Core, NEW t \in Txn, AppendEnd(t)
    PROVE  IInv' /\ Core'
<1>1. HeapTyped /\ phase[t] \in {"commit", "abort"} /\ write_set[t] = <<>>
  BY DEF Core, AppendEnd
<1>2. /\ ~Blocked(t) /\ pending[t].op = "none" /\ state[t] \in {"COMMITTED", "ABORTED"}
  BY <1>1 DEF Core, Phases, Sleeping
<1>3. IInv' /\ SameLocks /\ UNCHANGED <<state, call, shared, exclusive>>
  BY SameIInv DEF vars, AppendEnd
<1>4. /\ phase'[t] = "ended" /\ \A u \in Txn \ {t} : phase'[u] = phase[u]
      /\ UNCHANGED <<slot, free_space, last_page, pending, write_set, persistent, db, writer>>
  BY <1>1 DEF AppendEnd, tableVars, slotVars, HeapTyped
<1>5. \A s \in Rid : On(write_set[t], s) = {}
  BY <1>1 DEF On
<1>6. ASSUME NEW s \in Rid, Holds(t, s, "X")
      PROVE  /\ Inserting(s) => Stuck(write_set[t], s, "ended")
             /\ ~Inserting(s) => Owner(write_set[t], s, "ended", state[t], slot[s], db[s])
             /\ ~StuckCommit(t, s)
  <2>1. ~Inserting(s) => Owner(write_set[t], s, phase[t], state[t], slot[s], db[s])
    BY <1>6 DEF Core, Owners, Owned
  <2>2. ~Inserting(s) => Visible(slot[s]) = db[s]
    BY <1>1, <1>5, <2>1 DEF Owner
  <2>3. state[t] # "GROWING"
    BY <1>2
  <2> QED BY ZenonT(60), <1>5, <2>2, <2>3 DEF Owner, Stuck, StuckCommit
<1>7. Shaped(write_set[t]) /\ 1..Len(write_set[t]) = {}
  BY <1>1 DEF Shaped
<1>8. call'[t] = NotBlocked
  BY <1>2, <1>3 DEF Blocked
<1>9. Moves(t)
  BY ZenonT(60), <1>2, <1>3, <1>4, <1>6, <1>7, <1>8 DEF Moves
<1>10. \A u \in Txn : Idle(u) \/ Moves(u)
  BY ZenonT(60), <1>3, <1>4, <1>9 DEF Idle
<1>11. log' = Append(log, t) /\ log \in Seq(Txn) /\ persistent \in 0..Len(log)
  BY ZenonT(60), <1>1 DEF AppendEnd, HeapTyped
<1>12. /\ log' \in Seq(Txn) /\ persistent \in 0..Len(log')
       /\ \A i \in 1..persistent : log'[i] = log[i]
  BY <1>11
<1>13. \A u \in Txn : Persisted(u) => Persisted(u)'
  <2> SUFFICES ASSUME NEW u \in Txn, Persisted(u) PROVE Persisted(u)'
    OBVIOUS
  <2>1. \E i \in 1..persistent : log[i] = u
    BY <1>11, PersistedIs DEF Persisted
  <2>2. \E i \in 1..persistent : log'[i] = u
    BY <1>12, <2>1
  <2>3. u \in Range(SubSeq(log', 1, persistent))
    BY ZenonT(60), <1>12, <2>2, PersistedIs
  <2> QED BY <1>4, <2>3 DEF Persisted
<1>14. Rest'
  BY ZenonT(60), <1>3, <1>4, <1>10, <1>13, MoveStep
<1>15. HeapTyped'
  <2>1. phase' \in [Txn -> {"run", "commit", "abort", "ended"}]
    BY <1>1 DEF AppendEnd, HeapTyped
  <2>2. todo' \in [Txn -> SUBSET Rid]
    BY <1>1 DEF AppendEnd, HeapTyped, IInv, TypeOK
  <2> QED BY <1>1, <1>4, <1>12, <2>1, <2>2 DEF HeapTyped
<1> QED BY <1>3, <1>14, <1>15 DEF Core, Rest

LEMMA FlushLogStep ==
    ASSUME IInv, Core, FlushLog
    PROVE  IInv' /\ Core'
<1>1. HeapTyped /\ log \in Seq(Txn) /\ persistent \in 0..Len(log) /\ Len(log) \in Nat
  BY DEF Core, HeapTyped
<1>2. IInv' /\ SameLocks /\ UNCHANGED <<state, call, shared, exclusive>>
  BY SameIInv DEF vars, FlushLog
<1>3. UNCHANGED <<slot, free_space, last_page, pending, write_set, phase, todo, log, db, writer>>
  BY DEF FlushLog, tableVars, slotVars
<1>4. persistent' = Len(log)
  BY DEF FlushLog
<1>5. \A u \in Txn : Idle(u) \/ Moves(u)
  BY <1>2, <1>3 DEF Idle
<1>6. \A u \in Txn : Persisted(u) => Persisted(u)'
  <2>1. persistent' \in 0..Len(log') /\ log' \in Seq(Txn) /\ 1..persistent \subseteq 1..persistent'
    BY <1>1, <1>3, <1>4
  <2> QED BY <1>1, <1>3, <2>1, PersistedIs DEF Persisted
<1>7. UNCHANGED <<slot, db, writer>>
  BY <1>3
<1>8. Rest'
  BY ZenonT(60), <1>2, <1>5, <1>6, <1>7, MoveStep
<1>9. HeapTyped'
  BY <1>1, <1>3, <1>4 DEF HeapTyped
<1> QED BY <1>2, <1>8, <1>9 DEF Core, Rest

LEMMA ReleaseLockStep ==
    ASSUME IInv, Core, NEW t \in Txn, NEW r \in Rid, ReleaseLock(t, r)
    PROVE  IInv' /\ Core'
<1>1. HeapTyped /\ phase[t] = "ended" /\ Persisted(t) /\ Unlock(t, r)
  BY DEF Core, ReleaseLock
<1>2. state[t] \in {"COMMITTED", "ABORTED"}
  BY <1>1 DEF Core, Phases
<1>3. IInv'
  BY <1>1, UnlockIInv
<1>4. /\ UNCHANGED <<shared, exclusive, call>>
      /\ \A u \in Txn, s \in Rid, n \in {"S", "X"} :
           /\ Holds(u, s, n)' => Holds(u, s, n)
           /\ u # t \/ s # r => (Holds(u, s, n)' <=> Holds(u, s, n))
      /\ state[t] \in {"COMMITTED", "ABORTED"} =>
           state' = state /\ \A n \in {"S", "X"} : ~Holds(t, r, n)'
  BY ZenonT(60), <1>1, UnlockCall
<1>5. UNCHANGED <<state, call, pending, shared, exclusive, slot, write_set, phase,
                  db, writer, log, persistent>>
  BY ZenonT(60), <1>2, <1>4 DEF ReleaseLock, tableVars, slotVars
<1>6. Rest'
  BY ZenonT(60), <1>1, <1>4, <1>5, ReleaseStep
<1>7. HeapTyped'
  BY <1>1, <1>5 DEF ReleaseLock, HeapTyped, tableVars, slotVars
<1> QED BY <1>3, <1>6, <1>7 DEF Core, Rest

-----------------------------------------------------------------------------
(* The invariant.                                                          *)

\* After a failed assertion nothing moves any more.
HeapInv == IInv /\ (Core \/ (crashed /\ ReadsDurable))

\* A reader has its lock, so the writer has let go of its own.
LEMMA DurableReads ==
    ASSUME IInv, Core
    PROVE  ReadsDurable
<1> SUFFICES ASSUME NEW t \in Txn, NEW r \in shared[t], phase[t] = "run", call[t] = NotBlocked,
                    writer[r] \notin {t, NoTxnYet}
             PROVE  Persisted(writer[r])
  BY DEF ReadsDurable
<1>1. r \in Rid
  BY DEF IInv, TypeOK
<1>2. writer[r] \in Txn
  BY <1>1 DEF Core, HeapTyped
<1>3. slot[r].st = "live" /\ slot[r].tuple = db[r] /\ slot[r] \in Slots
  BY ZenonT(60), <1>1 DEF Core, SharedReads, HeapTyped
<1>4. db[r] # NoTuple
  BY <1>3, NoTupleIsNone DEF Slots
<1>5. Holds(t, r, "S")
  BY DEF Core, LocksKept
<1>6. ~Holds(writer[r], r, "X")
  BY <1>1, <1>2, <1>5, LocksExclude
<1> QED BY <1>1, <1>4, <1>6 DEF Core, Durable

\* A slot nobody wants to write is what the committed transactions left.
LEMMA CommittedOnly ==
    ASSUME IInv, Core
    PROVE  OnlyCommitted
<1> SUFFICES ASSUME NEW r \in Rid, ~ExclusivelyWanted(r) PROVE Visible(slot[r]) = db[r]
  BY DEF OnlyCommitted
<1>1. ~XLocked(r)
  BY RequestTyping DEF XLocked, Holds, ExclusivelyWanted
<1>2. ~Inserting(r)
  <2> SUFFICES ASSUME NEW t \in Txn, Inserts(t, r) PROVE FALSE
    BY DEF Inserting
  <2>1. call[t].op = "X" /\ call[t] # NotBlocked /\ call[t].rid = r
    BY DEF Inserts, Core, Sleeping, Blocked
  <2>2. Pending(t, "X") \in Requests(r)
    BY <2>1 DEF IInv, BlockedQueued, ModeOf
  <2> QED BY <2>2, RequestTyping DEF ExclusivelyWanted
<1> QED BY <1>1, <1>2 DEF Core, Settled

LEMMA StableReads ==
    ASSUME Core
    PROVE  ReadsStable
BY DEF Core, SharedReads, ReadsStable

-----------------------------------------------------------------------------
LEMMA HeapInitInv ==
    ASSUME HeapInit
    PROVE  HeapInv
<1>1. IInv
  BY InitIInv DEF HeapInit
<1>2. PICK n \in 0..SlotCount, tu \in Tuple :
        LET there == {1} \X (1..n)
        IN  /\ tu[1] * n + SlotSize * n <= PageSpace
            /\ slot = [r \in Rid |-> IF r \in there THEN Live(tu) ELSE Unused]
            /\ db = [r \in Rid |-> IF r \in there THEN tu ELSE NoTuple]
            /\ free_space = [p \in 1..MaxPages |->
                    PageSpace - (IF p = 1 THEN tu[1] * n + SlotSize * n ELSE 0)]
  BY ZenonT(60) DEF HeapInit
<1> DEFINE there == {1} \X (1..n)
           used == tu[1] * n + SlotSize * n
<1>3. /\ slot = [r \in Rid |-> IF r \in there THEN Live(tu) ELSE Unused]
      /\ db = [r \in Rid |-> IF r \in there THEN tu ELSE NoTuple]
  BY <1>2
<1>4. \A r \in there : r[1] = 1
  OBVIOUS
<1>5. used \in Nat /\ used <= PageSpace
  <2>1. tu[1] \in Nat /\ SlotSize \in Nat /\ n \in Nat
    BY TupleAssumption, SpaceAssumption
  <2>2. \A a, b \in Nat : a * b \in Nat
    OBVIOUS
  <2>3. tu[1] * n \in Nat /\ SlotSize * n \in Nat
    BY <2>1, <2>2
  <2> QED BY <1>2, <2>3
<1>6. free_space = [p \in 1..MaxPages |-> PageSpace - (IF p = 1 THEN used ELSE 0)]
  BY <1>2
<1> HIDE DEF there, used
<1>7. free_space \in [1..MaxPages -> Nat]
  BY <1>5, <1>6, SpaceAssumption
<1>8. /\ Live(tu) \in Slots /\ Unused \in Slots /\ Live(tu).st = "live" /\ Unused.st = "unused"
      /\ Visible(Live(tu)) = tu /\ Visible(Unused) = NoTuple
  BY NoTupleIsNone DEF Live, Unused, Slots, Visible
<1>9. slot \in [Rid -> Slots] /\ db \in [Rid -> Tuple \cup {NoTuple}]
      /\ \A r \in Rid : Visible(slot[r]) = db[r]
  BY <1>3, <1>8
<1>10. /\ last_page = 1 /\ persistent = 0 /\ log = <<>>
       /\ pending = [t \in Txn |-> NoOp] /\ write_set = [t \in Txn |-> <<>>]
       /\ phase = [t \in Txn |-> "run"] /\ todo = [t \in Txn |-> {}]
       /\ writer = [r \in Rid |-> NoTxnYet]
  BY DEF HeapInit
<1>11. /\ state = [t \in Txn |-> "GROWING"] /\ shared = [t \in Txn |-> {}]
       /\ exclusive = [t \in Txn |-> {}] /\ call = [t \in Txn |-> NotBlocked]
  BY DEF HeapInit, Init
<1>12. HeapTyped
  <2>1. \A r \in Rid : r[1] > 1 => slot[r].st = "unused"
    BY <1>3, <1>4, <1>8
  <2>2. 1 \in 1..MaxPages
    BY SpaceAssumption
  <2>3. /\ write_set \in [Txn -> Seq(Writes)] /\ log \in Seq(Txn) /\ persistent \in 0..Len(log)
    BY <1>10
  <2>4. pending \in [Txn -> Ops]
    BY <1>10, NoOpTyped
  <2> QED BY <1>7, <1>9, <1>10, <2>1, <2>2, <2>3, <2>4 DEF HeapTyped
<1>13. \A t \in Txn : ~Blocked(t) /\ pending[t].op = "none"
  BY <1>10, <1>11, NoOpTyped DEF Blocked
<1>14. \A t \in Txn, r \in Rid : ~Holds(t, r, "X") /\ ~Holds(t, r, "S") /\ ~Inserting(r)
  <2>1. \A t \in Txn, r \in Rid : ~Holds(t, r, "X") /\ ~Holds(t, r, "S")
    BY <1>1, <1>11, HeldRecorded
  <2> QED BY <1>13, <2>1 DEF Inserting, Inserts
<1>15. Phases /\ Sleeping /\ Latched /\ LocksKept
  BY ZenonT(60), <1>10, <1>11, <1>13 DEF Phases, Sleeping, Latched, LocksKept
<1>16. Records
  <2>1. \A t \in Txn : write_set[t] = <<>> /\ 1..Len(write_set[t]) = {}
    BY <1>10
  <2> QED BY <2>1 DEF Records, Shaped
<1>17. Owners /\ Settled /\ Fresh
  BY <1>9, <1>14 DEF Owners, Settled, Fresh, Inserting
<1>18. SharedReads /\ Durable
  BY <1>10, <1>11 DEF SharedReads, Durable
<1> QED BY <1>1, <1>12, <1>15, <1>16, <1>17, <1>18 DEF HeapInv, Core

LEMMA StutterInv ==
    ASSUME HeapInv, UNCHANGED allVars
    PROVE  HeapInv'
<1>1. /\ UNCHANGED vars
      /\ UNCHANGED <<slot, free_space, last_page, pending, write_set, phase, todo, log,
                     persistent, db, writer, crashed>>
      /\ UNCHANGED <<state, shared, exclusive, call>>
  BY DEF allVars, heapVars, tableVars, slotVars, endVars, vars
<1>2. IInv' /\ SameLocks
  BY <1>1, SameIInv DEF HeapInv
<1>3. CASE Core
  <2>1. \A u \in Txn : Idle(u) \/ Moves(u)
    BY <1>1 DEF Idle
  <2>2. \A u \in Txn : Persisted(u) => Persisted(u)'
    BY <1>1 DEF Persisted
  <2>3. UNCHANGED <<slot, db, writer>>
    BY <1>1
  <2>4. Rest'
    BY ZenonT(60), <1>2, <1>3, <2>1, <2>2, <2>3, MoveStep DEF HeapInv
  <2>5. HeapTyped'
    BY <1>1, <1>3 DEF HeapTyped, Core
  <2> QED BY <1>2, <2>4, <2>5 DEF HeapInv, Core, Rest
<1>4. CASE crashed /\ ReadsDurable
  BY <1>1, <1>2, <1>4 DEF HeapInv, ReadsDurable, Persisted
<1> QED BY <1>3, <1>4 DEF HeapInv

LEMMA HeapNextInv ==
    ASSUME Disciplined, HeapInv, HeapNext
    PROVE  HeapInv'
<1>1. IInv /\ Core
  BY DEF HeapInv, HeapNext
<1>2. ASSUME IInv', Core' PROVE HeapInv'
  BY <1>2 DEF HeapInv
<1>3. ASSUME IInv', Failed PROVE HeapInv'
  <2>1. ReadsDurable
    BY <1>1, DurableReads
  <2>2. ReadsDurable'
    BY <1>3, <2>1 DEF Failed, ReadsDurable, Persisted
  <2> QED BY <1>3, <2>2 DEF Failed, HeapInv
<1>4. CASE FlushLog
  BY <1>1, <1>2, <1>4, FlushLogStep
<1>5. ASSUME NEW t \in Txn, NEW r \in Rid, GetTuple(t, r) PROVE HeapInv'
  BY <1>1, <1>2, <1>5, GetTupleStep
<1>6. ASSUME NEW t \in Txn, NEW r \in Rid, MarkDelete(t, r) PROVE HeapInv'
  BY <1>1, <1>2, <1>6, MarkDeleteStep
<1>7. ASSUME NEW t \in Txn, NEW r \in Rid, ReleaseLock(t, r) PROVE HeapInv'
  BY <1>1, <1>2, <1>7, ReleaseLockStep
<1>8. ASSUME NEW t \in Txn, NEW r \in Rid, NEW tu \in Tuple, UpdateTuple(t, r, tu) PROVE HeapInv'
  BY <1>1, <1>2, <1>8, UpdateTupleStep
<1>9. ASSUME NEW t \in Txn, NEW tu \in Tuple, InsertTuple(t, tu) PROVE HeapInv'
  BY <1>1, <1>2, <1>3, <1>9, InsertTupleStep
<1>10. ASSUME NEW t \in Txn, InsertNext(t) PROVE HeapInv'
  BY <1>1, <1>2, <1>3, <1>10, InsertNextStep
<1>11. ASSUME NEW t \in Txn, Resume(t) PROVE HeapInv'
  BY <1>1, <1>2, <1>11, ResumeStep
<1>12. ASSUME NEW t \in Txn, Commit(t) PROVE HeapInv'
  BY <1>1, <1>2, <1>12, CommitActionStep
<1>13. ASSUME NEW t \in Txn, Abort(t) PROVE HeapInv'
  BY <1>1, <1>2, <1>13, AbortActionStep
<1>14. ASSUME NEW t \in Txn, CommitItem(t) PROVE HeapInv'
  BY <1>1, <1>2, <1>3, <1>14, CommitItemStep
<1>15. ASSUME NEW t \in Txn, AbortItem(t) PROVE HeapInv'
  BY <1>1, <1>2, <1>3, <1>15, AbortItemStep
<1>16. ASSUME NEW t \in Txn, AppendEnd(t) PROVE HeapInv'
  BY <1>1, <1>2, <1>16, AppendEndStep
<1> QED BY ZenonT(60), <1>4, <1>5, <1>6, <1>7, <1>8, <1>9, <1>10, <1>11, <1>12, <1>13, <1>14,
           <1>15, <1>16 DEF HeapNext

LEMMA HeapAlways == Disciplined => (HeapSpec => []HeapInv)
<1> SUFFICES ASSUME Disciplined PROVE HeapSpec => []HeapInv
  OBVIOUS
<1>1. HeapInit => HeapInv
  BY HeapInitInv
<1>2. HeapInv /\ [HeapNext]_allVars => HeapInv'
  BY HeapNextInv, StutterInv
<1> QED BY <1>1, <1>2, PTL DEF HeapSpec

\* Atomicity: however the inserts, updates and deletes of committing and
\* aborting transactions overlap, a slot that nobody has locked, or waits to
\* lock, for writing has what the committed transactions left there.
THEOREM AtomicTransactions == Disciplined => (HeapSpec => []OnlyCommitted)
<1> SUFFICES ASSUME Disciplined PROVE HeapSpec => []OnlyCommitted
  OBVIOUS
<1>1. HeapInv => OnlyCommitted
  BY CommittedOnly DEF HeapInv, OnlyCommitted
<1> QED BY <1>1, HeapAlways, PTL

\* Isolation: what a running transaction has read with GetTuple is committed
\* and does not change until the transaction ends.
THEOREM RepeatableReads == Disciplined => (HeapSpec => []ReadsStable)
<1> SUFFICES ASSUME Disciplined PROVE HeapSpec => []ReadsStable
  OBVIOUS
<1>1. HeapInv => ReadsStable
  BY StableReads DEF HeapInv, ReadsStable
<1> QED BY <1>1, HeapAlways, PTL

\* Durability: what a transaction has read of another one was on disk, by the
\* COMMIT record of that one, before it could be read.
THEOREM DurableBeforeRead == Disciplined => (HeapSpec => []ReadsDurable)
<1> SUFFICES ASSUME Disciplined PROVE HeapSpec => []ReadsDurable
  OBVIOUS
<1>1. HeapInv => ReadsDurable
  BY DurableReads DEF HeapInv
<1> QED BY <1>1, HeapAlways, PTL
=============================================================================
