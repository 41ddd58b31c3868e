---------------------------- MODULE LockOrderProofs ---------------------------
(***************************************************************************)
(* Who wakes whom and who waits for whom in the lock manager.  No wakeup   *)
(* is lost, with every lock operation in use.  Wait-die, for any finite    *)
(* set of transactions that exclusive_cnt can count, and two-phase         *)
(* locking, for any sets of transactions and rids, hold when no client     *)
(* calls LockUpgrade: with upgrades they fail.                             *)
(***************************************************************************)
EXTENDS LockManagerProofs, LockHistory, FiniteSetTheorems

USE SMTT(20), ZenonT(20), SMTT(40)

-----------------------------------------------------------------------------
(* No lost wakeup.  The argument is about lists: what a step does to a     *)
(* list without notifying cannot make the predicate of another transaction *)
(* true.                                                                   *)

LEMMA AppendReady ==
    ASSUME NEW list \in Seq(Request), NEW t \in Txn, NEW m \in {"S", "X"},
           NEW u \in Txn, u # t, NEW op \in {"S", "X", "U"},
           \E q \in Range(list) : q.txn_id = u,
           Ready(Append(list, Pending(t, m)), op, u)
    PROVE  Ready(list, op, u)
<1> DEFINE q == Pending(t, m)
           new == Append(list, q)
<1>1. q \in Request /\ q.txn_id = t
  BY RequestTyping
<1> HIDE DEF q
<1>2. /\ Len(list) \in Nat /\ Len(new) = Len(list) + 1
      /\ \A i \in 1..Len(list) : new[i] = list[i]
      /\ new[Len(list) + 1] = q
  BY <1>1
<1>3. Len(list) > 0
  BY <1>2, ListTyping
<1>4. Ready(new, op, u)
  BY DEF q
<1> HIDE DEF new
<1>5. CASE op = "S"
  <2>1. PICK i \in Own(new, u) : \A j \in 1..(i - 1) :
            new[j].txn_id # u /\ new[j].mode = "S" /\ new[j].granted
    BY <1>4, <1>5 DEF Ready, SharedReady
  <2>2. i \in 1..Len(list) /\ i \in Own(list, u)
    BY <2>1, <1>1, <1>2 DEF Own
  <2>3. \A j \in 1..(i - 1) : list[j].txn_id # u /\ list[j].mode = "S" /\ list[j].granted
    BY <2>1, <2>2, <1>2
  <2> QED BY <2>2, <2>3, <1>5 DEF Ready, SharedReady
<1>6. CASE op # "S"
  BY <1>2, <1>3, <1>4, <1>6 DEF Ready, FrontReady
<1> QED BY <1>5, <1>6

LEMMA EraseReady ==
    ASSUME NEW list \in Seq(Request), Ordered(list), Distinct(list),
           NEW e \in 2..Len(list), list[e].mode = "S", list[e].granted,
           NEW u \in Txn, list[e].txn_id # u, NEW op \in {"S", "X", "U"},
           Ready(EraseAt(list, e), op, u)
    PROVE  Ready(list, op, u)
<1> DEFINE new == EraseAt(list, e)
<1>1. Len(list) \in Nat /\ e \in 1..Len(list)
  OBVIOUS
<1>2. /\ Len(new) = Len(list) - 1
      /\ \A k \in 1..(Len(list) - 1) : new[k] = IF k < e THEN list[k] ELSE list[k + 1]
  BY <1>1, EraseRequest
<1>3. Ready(new, op, u)
  OBVIOUS
<1> HIDE DEF new
<1>4. CASE op = "S"
  <2>1. PICK i \in Own(new, u) : \A j \in 1..(i - 1) :
            new[j].txn_id # u /\ new[j].mode = "S" /\ new[j].granted
    BY <1>3, <1>4 DEF Ready, SharedReady
  <2>2. i \in 1..(Len(list) - 1) /\ new[i].txn_id = u
    BY <2>1, <1>2 DEF Own
  <2> DEFINE k == IF i < e THEN i ELSE i + 1
  <2>3. k \in Own(list, u)
    BY <2>2, <1>1, <1>2 DEF Own
  <2>4. ASSUME NEW j \in 1..(k - 1)
        PROVE  list[j].txn_id # u /\ list[j].mode = "S" /\ list[j].granted
    <3>1. CASE j = e
      BY <3>1
    <3>2. CASE j < e
      <4>1. j \in 1..(i - 1) /\ j \in 1..(Len(list) - 1)
        BY <3>2, <2>2, <1>1
      <4> QED BY <3>2, <4>1, <2>1, <1>2
    <3>3. CASE j > e
      <4>1. j - 1 \in 1..(i - 1) /\ j - 1 \in 1..(Len(list) - 1) /\ ~(j - 1 < e) /\ (j - 1) + 1 = j
        BY <3>3, <2>2, <1>1
      <4> QED BY <4>1, <2>1, <1>2
    <3> QED BY <3>1, <3>2, <3>3, <2>2, <1>1
  <2> QED BY <2>3, <2>4, <1>4 DEF Ready, SharedReady
<1>5. CASE op # "S"
  <2>1. Len(list) > 1 /\ new[1] = list[1]
    BY <1>1, <1>2
  <2> QED BY <2>1, <1>3, <1>5 DEF Ready, FrontReady
<1> QED BY <1>4, <1>5

LEMMA MoveReady ==
    ASSUME NEW list \in Seq(Request), Ordered(list), Distinct(list),
           NEW src \in 1..Len(list), NEW tgt \in 1..(Len(list) + 1),
           list[src].mode = "S", list[src].granted,
           UpgradeTarget(list, src, tgt),
           NEW u \in Txn, list[src].txn_id # u, NEW op \in {"S", "X", "U"},
           Pending(u, ModeOf(op)) \in Range(list),
           Ready(MoveToTarget(list, src, tgt), op, u)
    PROVE  Ready(list, op, u)
<1> DEFINE q1 == Pending(list[src].txn_id, "X")
           new == MoveToTarget(list, src, tgt)
<1>1. /\ Len(list) \in Nat /\ src < tgt
      /\ q1.txn_id = list[src].txn_id /\ q1.mode = "X"
  BY ListTyping, RequestTyping DEF UpgradeTarget
<1>2. /\ Len(new) = Len(list)
      /\ \A k \in 1..Len(list) :
            new[k] = IF k < src \/ k >= tgt THEN list[k]
                     ELSE IF k = tgt - 1 THEN q1 ELSE list[k + 1]
  BY <1>1 DEF MoveToTarget
<1>3. Ready(new, op, u)
  OBVIOUS
<1> HIDE DEF q1, new
<1>4. CASE op = "S"
  <2>1. PICK i \in Own(new, u) : \A j \in 1..(i - 1) :
            new[j].txn_id # u /\ new[j].mode = "S" /\ new[j].granted
    BY <1>3, <1>4 DEF Ready, SharedReady
  <2>2. i \in 1..Len(list) /\ new[i].txn_id = u
    BY <2>1, <1>2 DEF Own
  <2>3. i < tgt - 1
    <3>1. i # tgt - 1
      BY <2>2, <1>1, <1>2
    <3>2. ~(i >= tgt)
      <4>1. SUFFICES ASSUME i >= tgt PROVE FALSE
        OBVIOUS
      <4>2. tgt - 1 \in 1..(i - 1) /\ new[tgt - 1] = q1
        BY <4>1, <2>2, <1>1, <1>2
      <4> QED BY <4>2, <2>1, <1>1
    <3> QED BY <3>1, <3>2, <2>2, <1>1
  <2> DEFINE k == IF i < src THEN i ELSE i + 1
  <2>4. k \in Own(list, u)
    BY <2>2, <2>3, <1>1, <1>2 DEF Own
  <2>5. ASSUME NEW j \in 1..(k - 1)
        PROVE  list[j].txn_id # u /\ list[j].mode = "S" /\ list[j].granted
    <3>1. CASE j = src
      BY <3>1
    <3>2. CASE j < src
      <4>1. j \in 1..(i - 1) /\ j \in 1..Len(list)
        BY <3>2, <2>2, <1>1
      <4> QED BY <3>2, <4>1, <2>1, <1>2
    <3>3. CASE j > src
      <4>1. j - 1 \in 1..(i - 1) /\ j - 1 \in 1..Len(list) /\ ~(j - 1 < src)
            /\ j - 1 < tgt - 1 /\ (j - 1) + 1 = j
        BY <3>3, <2>2, <2>3, <1>1
      <4> QED BY <4>1, <2>1, <1>1, <1>2
    <3> QED BY <3>1, <3>2, <3>3, <2>2, <1>1
  <2> QED BY <2>4, <2>5, <1>4 DEF Ready, SharedReady
<1>5. CASE op # "S"
  <2>1. new # <<>> /\ new[1].txn_id = u
    BY <1>3, <1>5 DEF Ready, FrontReady
  <2>2. PICK k \in 1..Len(list) : list[k] = Pending(u, "X")
    BY <1>5, ListTyping DEF ModeOf
  <2>3. list[k].txn_id = u /\ list[k].mode = "X"
    BY <2>2, RequestTyping
  <2>4. CASE 1 < src
    <3>1. list # <<>> /\ new[1] = list[1]
      BY <2>4, <1>1, <1>2
    <3> QED BY <3>1, <2>1, <1>5 DEF Ready, FrontReady
  <2>5. CASE src = 1
    <3>1. CASE tgt = 2
      BY <3>1, <2>1, <2>5, <1>1, <1>2
    <3>2. CASE tgt > 2
      <4>1. new[1] = list[2] /\ 2 \in 1..Len(list) /\ 2 \in src..(tgt - 1)
        BY <3>2, <2>5, <1>1, <1>2
      <4>2. list[2].txn_id = u /\ list[2].mode # "X"
        BY <4>1, <2>1 DEF UpgradeTarget
      <4> QED BY <4>1, <4>2, <2>3 DEF Distinct
    <3> QED BY <3>1, <3>2, <2>5, <1>1
  <2> QED BY <2>4, <2>5, <1>1
<1> QED BY <1>4, <1>5

\* The tail of a lock call loses no wakeup when queueing the request did not
\* make another sleeper ready.
LEMMA WaitThenGrantWakeup ==
    ASSUME IInv, NoLostWakeup,
           NEW t \in Txn, NEW r \in Rid, NEW op \in {"S", "X", "U"}, NEW w \in Waiting,
           Distinct(w.list), Pending(t, ModeOf(op)) \in Range(w.list),
           \A u \in Txn \ {t} :
                call[u] # NotBlocked /\ call[u].rid = r /\ Ready(w.list, call[u].op, u)
                    => Ready(lock_table[r].list, call[u].op, u),
           WaitThenGrant(t, r, op, w)
    PROVE  NoLostWakeup'
<1>1. call \in [Txn -> BlockedCall \cup {NotBlocked}] /\ lock_table \in [Rid -> Waiting]
  BY DEF IInv, TypeOK
<1>2. CASE Ready(w.list, op, t) /\ Granted(t, r, op, w)
  <2>1. /\ call' = [call EXCEPT ![t] = NotBlocked]
        /\ notified' = (IF op = "S" THEN Sleepers ELSE notified) \ {t}
        /\ lock_table' = [lock_table EXCEPT ![r] = [w EXCEPT !.list = Grant(w.list, t)]]
    BY <1>2 DEF Granted
  <2>2. CASE op = "S"
    BY <2>1, <2>2, <1>1 DEF NoLostWakeup, Sleepers
  <2>3. CASE op # "S"
    <3> DEFINE g == Grant(w.list, t)
    <3>1. w.list \in Seq(Request) /\ w.list # <<>> /\ w.list[1].txn_id = t
      BY <1>2, <2>3 DEF Ready, FrontReady, Waiting
    <3>2. w.list[1].mode = "X"
      <4>1. PICK k \in 1..Len(w.list) : w.list[k] = Pending(t, "X")
        BY <3>1, <2>3, ListTyping DEF ModeOf
      <4>2. w.list[k].txn_id = t /\ w.list[k].mode = "X"
        BY <4>1, RequestTyping
      <4> QED BY <4>2, <3>1 DEF Distinct
    <3>3. Len(g) = Len(w.list) /\ Len(g) >= 1 /\ g[1] = HeldReq(t, "X")
      BY <3>1, <3>2 DEF Grant
    <3>4. g[1].txn_id = t /\ g[1].mode = "X"
      BY <3>3, RequestTyping
    <3> HIDE DEF g
    <3>5. ASSUME NEW u \in Txn \ {t}, NEW o \in {"S", "X", "U"}
          PROVE  ~Ready(g, o, u)
      BY <3>3, <3>4 DEF Ready, SharedReady, FrontReady, Own
    <3>6. lock_table'[r].list = g /\ \A s \in Rid \ {r} : lock_table'[s] = lock_table[s]
      BY <2>1, <1>1 DEF g, Waiting
    <3>7. \A u \in Txn \ {t} : call[u] # NotBlocked =>
                call[u].op \in {"S", "X", "U"} /\ call[u].rid \in Rid
      BY <1>1 DEF BlockedCall
    <3> QED BY <3>5, <3>6, <3>7, <2>1, <2>3, <1>1 DEF NoLostWakeup
  <2> QED BY <2>2, <2>3
<1>3. CASE ~Ready(w.list, op, t) /\ Sleep(t, r, op, w)
  <2>1. /\ call' = [call EXCEPT ![t] = [op |-> op, rid |-> r]]
        /\ notified' = notified \ {t}
        /\ lock_table' = [lock_table EXCEPT ![r] = w]
    BY <1>3 DEF Sleep
  <2>2. \A u \in Txn \ {t} : call[u] # NotBlocked => call[u].rid \in Rid
    BY <1>1 DEF BlockedCall
  <2>3. /\ lock_table'[r] = w /\ \A s \in Rid \ {r} : lock_table'[s] = lock_table[s]
        /\ call'[t].op = op /\ call'[t].rid = r
        /\ \A u \in Txn \ {t} : call'[u] = call[u]
    BY <2>1, <1>1
  <2>4. ASSUME NEW u \in Txn, call'[u] # NotBlocked, u \notin notified'
        PROVE  ~Ready(lock_table'[call'[u].rid].list, call'[u].op, u)
    <3>1. CASE u = t
      BY <3>1, <2>3, <1>3
    <3>2. CASE u # t
      <4>1. u \notin notified /\ call[u] # NotBlocked /\ call'[u] = call[u] /\ call[u].rid \in Rid
        BY <3>2, <2>1, <2>2, <2>3, <2>4
      <4>2. ~Ready(lock_table[call[u].rid].list, call[u].op, u)
        BY <4>1 DEF NoLostWakeup
      <4> QED BY <3>2, <4>1, <4>2, <2>3
    <3> QED BY <3>1, <3>2
  <2> QED BY <2>4 DEF NoLostWakeup
<1> QED BY <1>2, <1>3 DEF WaitThenGrant

LEMMA QueueWakeup ==
    ASSUME IInv, NoLostWakeup,
           NEW t \in Txn, NEW r \in Rid, NEW op \in {"S", "X"}, NEW w \in Waiting,
           call[t] = NotBlocked, r \notin shared[t] \cup exclusive[t],
           w.list = Append(lock_table[r].list, Pending(t, op)),
           WaitThenGrant(t, r, op, w)
    PROVE  NoLostWakeup'
<1> DEFINE old == lock_table[r].list
<1>1. old \in Seq(Request) /\ Ordered(old) /\ Distinct(old)
  BY DEF IInv, TypeOK, Waiting, GrantOrder, RequestsOwned
<1>2. \A q \in Range(old) : q.txn_id # t
  BY NothingQueued DEF Requests
<1>3. Distinct(w.list) /\ Range(w.list) = Range(old) \cup {Pending(t, op)}
  BY <1>1, <1>2, AppendRequest
<1>4. Pending(t, ModeOf(op)) \in Range(w.list)
  BY <1>3 DEF ModeOf
<1>5. ASSUME NEW u \in Txn \ {t}, call[u] # NotBlocked, call[u].rid = r,
             Ready(w.list, call[u].op, u)
      PROVE  Ready(old, call[u].op, u)
  <2>1. call[u].op \in {"S", "X", "U"} /\ ModeOf(call[u].op) \in {"S", "X"}
    BY <1>5 DEF IInv, TypeOK, BlockedCall, ModeOf
  <2>2. Pending(u, ModeOf(call[u].op)) \in Range(old)
    BY <1>5 DEF IInv, BlockedQueued, Requests
  <2>3. \E q \in Range(old) : q.txn_id = u
    BY <2>1, <2>2, RequestTyping
  <2> QED BY <2>1, <2>3, <1>1, <1>5, AppendReady
<1>6. op \in {"S", "X", "U"}
  OBVIOUS
<1> QED BY ZenonT(60), <1>3, <1>4, <1>5, <1>6, WaitThenGrantWakeup

\* Steps that change neither the table nor a blocked call, and wake nobody up
\* to sleep.
LEMMA IdleWakeup ==
    ASSUME NoLostWakeup, lock_table' = lock_table, call' = call, notified \subseteq notified'
    PROVE  NoLostWakeup'
BY DEF NoLostWakeup

LEMMA UpgradeWakeup ==
    ASSUME IInv, NoLostWakeup, NEW t \in Txn, NEW r \in Rid, LockUpgrade(t, r)
    PROVE  NoLostWakeup'
<1> DEFINE w == lock_table[r]
<1>1. call[t] = NotBlocked /\ r \in shared[t]
  BY DEF LockUpgrade, Callable
<1>2. CASE Refuse(t)
  BY <1>2, IdleWakeup DEF Refuse
<1>3. ASSUME state[t] = "GROWING",
             NEW src \in Own(w.list, t), NEW tgt \in 1..(Len(w.list) + 1),
             UpgradeTarget(w.list, src, tgt),
             WaitThenGrant(t, r, "U", [w EXCEPT !.list = MoveToTarget(@, src, tgt)])
      PROVE  NoLostWakeup'
  <2> DEFINE l == MoveToTarget(w.list, src, tgt)
             w1 == [w EXCEPT !.list = l]
  <2>1. w.list \in Seq(Request) /\ Ordered(w.list) /\ Distinct(w.list)
    BY DEF IInv, TypeOK, Waiting, GrantOrder, RequestsOwned
  <2>2. src \in 1..Len(w.list) /\ w.list[src].txn_id = t /\ w.list[src] \in Requests(r)
    BY <2>1, ListTyping DEF Own, Requests
  <2>3. w.list[src].mode = "S" /\ w.list[src].granted
    <3>1. call[t] # [op |-> "U", rid |-> r]
      BY <1>1 DEF NotBlocked
    <3>2. r \in shared[t] =>
            \/ w.list[src].granted /\ w.list[src].mode = "S"
            \/ call[t] = [op |-> "U", rid |-> r]
      BY <1>1, <1>3, <2>2, HoldsIsRequest, ZenonT(60)
    <3> QED BY <3>1, <3>2, <1>1
  <2>4. /\ l \in Seq(Request) /\ Distinct(l)
        /\ Range(l) = (Range(w.list) \ {w.list[src]}) \cup {Pending(t, "X")}
    BY <1>3, <2>1, <2>2, <2>3, MoveRequest
  <2>5. ASSUME NEW u \in Txn \ {t}, call[u] # NotBlocked, call[u].rid = r,
               Ready(l, call[u].op, u)
        PROVE  Ready(w.list, call[u].op, u)
    <3>1. call[u].op \in {"S", "X", "U"}
      BY <2>5 DEF IInv, TypeOK, BlockedCall
    <3>2. Pending(u, ModeOf(call[u].op)) \in Range(w.list)
      BY <2>5 DEF IInv, BlockedQueued, Requests
    <3> QED BY <3>1, <3>2, <1>3, <2>1, <2>2, <2>3, <2>5, MoveReady
  <2> HIDE DEF l
  <2>6. w1 \in Waiting /\ w1.list = l
    BY ZenonT(60), <2>4 DEF IInv, TypeOK, Waiting
  <2>7. Pending(t, ModeOf("U")) \in Range(w1.list)
    BY <2>4, <2>6 DEF ModeOf
  <2>8. WaitThenGrant(t, r, "U", w1)
    BY <1>3 DEF l
  <2> HIDE DEF w1
  <2> QED BY <2>4, <2>5, <2>6, <2>7, <2>8, WaitThenGrantWakeup
<1> QED BY ZenonT(60), <1>2, <1>3 DEF LockUpgrade

LEMMA UnlockWakeup ==
    ASSUME IInv, NoLostWakeup, NEW t \in Txn, NEW r \in Rid, Unlock(t, r)
    PROVE  NoLostWakeup'
<1> DEFINE w == lock_table[r]
<1>1. call[t] = NotBlocked /\ call' = call
  BY DEF Unlock
<1>2. CASE UNCHANGED <<lock_table, notified>>
  BY <1>1, <1>2, IdleWakeup
<1>3. ASSUME NEW e \in Own(w.list, t),
             lock_table' = [lock_table EXCEPT ![r] =
                    [w EXCEPT !.exclusive_cnt =
                                  IF w.list[e].mode = "X" THEN (@ - 1) % CntMod ELSE @,
                              !.list = EraseAt(@, e)]],
             notified' = IF e = 1 \/ w.list[e].mode = "X" THEN Sleepers ELSE notified
      PROVE  NoLostWakeup'
  <2>1. w.list \in Seq(Request) /\ Ordered(w.list) /\ Distinct(w.list) /\ w \in Waiting
    BY DEF IInv, TypeOK, Waiting, GrantOrder, RequestsOwned
  <2>2. /\ e \in 1..Len(w.list) /\ w.list[e].txn_id = t
        /\ w.list[e] \in Request /\ w.list[e] \in Requests(r)
    BY <2>1, ListTyping DEF Own, Requests
  <2>3. w.list[e].granted
    BY <2>2, <1>1 DEF IInv, RequestsOwned
  <2>4. CASE e = 1 \/ w.list[e].mode = "X"
    BY <2>4, <1>1, <1>3 DEF NoLostWakeup, Sleepers
  <2>5. CASE ~(e = 1 \/ w.list[e].mode = "X")
    <3>1. e \in 2..Len(w.list) /\ w.list[e].mode = "S"
      BY <2>1, <2>2, <2>5 DEF Request
    <3>2. lock_table'[r].list = EraseAt(w.list, e) /\ \A s \in Rid \ {r} : lock_table'[s] = lock_table[s]
      BY <1>3, <2>1 DEF IInv, TypeOK, Waiting
    <3>3. ASSUME NEW u \in Txn, call[u] # NotBlocked, u \notin notified
          PROVE  ~Ready(lock_table'[call[u].rid].list, call[u].op, u)
      <4>1. call[u].rid \in Rid /\ call[u].op \in {"S", "X", "U"} /\ u # t
        BY <3>3, <1>1 DEF IInv, TypeOK, BlockedCall
      <4>2. ~Ready(lock_table[call[u].rid].list, call[u].op, u)
        BY <3>3 DEF NoLostWakeup
      <4>3. CASE call[u].rid # r
        BY <4>1, <4>2, <4>3, <3>2
      <4>4. CASE call[u].rid = r
        <5>1. Ready(EraseAt(w.list, e), call[u].op, u) => Ready(w.list, call[u].op, u)
          BY <4>1, <3>1, <2>1, <2>2, <2>3, EraseReady
        <5> QED BY <5>1, <4>2, <4>4, <3>2
      <4> QED BY <4>3, <4>4
    <3> QED BY <3>3, <1>1, <1>3, <2>5 DEF NoLostWakeup
  <2> QED BY <2>4, <2>5
<1> QED BY ZenonT(60), <1>2, <1>3 DEF Unlock, Release

LEMMA NextWakeup == IInv /\ NoLostWakeup /\ [Next]_vars => NoLostWakeup'
<1> SUFFICES ASSUME IInv, NoLostWakeup, [Next]_vars PROVE NoLostWakeup'
  OBVIOUS
<1>1. ASSUME NEW t \in Txn, NEW r \in Rid, LockShared(t, r) PROVE NoLostWakeup'
  <2> DEFINE w == [lock_table[r] EXCEPT
                    !.oldest = IF @ = NoTxn \/ @ > t THEN t ELSE @,
                    !.list = Append(@, Pending(t, "S"))]
  <2>1. call[t] = NotBlocked /\ r \notin shared[t] \cup exclusive[t]
    BY <1>1 DEF LockShared, Callable
  <2>2. CASE Refuse(t) \/ Die(t)
    BY <2>2, IdleWakeup DEF Refuse, Die
  <2>3. CASE WaitThenGrant(t, r, "S", w)
    <3>1. w.list = Append(lock_table[r].list, Pending(t, "S"))
      BY DEF IInv, TypeOK, Waiting
    <3>2. /\ Append(lock_table[r].list, Pending(t, "S")) \in Seq(Request)
          /\ 0 \in 0..(CntMod - 1) /\ lock_table[r] \in Waiting
      BY RequestTyping, CntModAssumption DEF IInv, TypeOK, Waiting
    <3>3. w \in Waiting
      BY ZenonT(60), <3>2, EntryTyping
    <3> HIDE DEF w
    <3> QED BY <3>1, <3>3, <2>1, <2>3, QueueWakeup
  <2> QED BY <2>2, <2>3, <1>1 DEF LockShared
<1>2. ASSUME NEW t \in Txn, NEW r \in Rid, LockExclusive(t, r) PROVE NoLostWakeup'
  <2> DEFINE w == [lock_table[r] EXCEPT
                    !.oldest = t,
                    !.exclusive_cnt = (@ + 1) % CntMod,
                    !.list = Append(@, Pending(t, "X"))]
  <2>1. call[t] = NotBlocked /\ r \notin shared[t] \cup exclusive[t]
    BY <1>2 DEF LockExclusive, Callable
  <2>2. CASE Refuse(t) \/ Die(t)
    BY <2>2, IdleWakeup DEF Refuse, Die
  <2>3. CASE WaitThenGrant(t, r, "X", w)
    <3>1. w.list = Append(lock_table[r].list, Pending(t, "X"))
      BY DEF IInv, TypeOK, Waiting
    <3>2. /\ Append(lock_table[r].list, Pending(t, "X")) \in Seq(Request)
          /\ lock_table[r] \in Waiting
      BY RequestTyping DEF IInv, TypeOK, Waiting
    <3>3. (lock_table[r].exclusive_cnt + 1) % CntMod \in 0..(CntMod - 1)
      BY CntModAssumption DEF IInv, TypeOK, Waiting
    <3>4. w \in Waiting
      BY ZenonT(60), <3>2, <3>3, EntryTyping
    <3> HIDE DEF w
    <3> QED BY <3>1, <3>4, <2>1, <2>3, QueueWakeup
  <2> QED BY <2>2, <2>3, <1>2 DEF LockExclusive
<1>3. ASSUME NEW t \in Txn, NEW r \in Rid, LockUpgrade(t, r) PROVE NoLostWakeup'
  BY <1>3, UpgradeWakeup
<1>4. ASSUME NEW t \in Txn, NEW r \in Rid, Unlock(t, r) PROVE NoLostWakeup'
  BY <1>4, UnlockWakeup
<1>5. ASSUME NEW t \in Txn, Wake(t) PROVE NoLostWakeup'
  <2>1. PICK c \in BlockedCall : call[t] = c
    BY <1>5 DEF Wake, IInv, TypeOK
  <2>2. c.rid \in Rid /\ c.op \in {"S", "X", "U"} /\ c # NotBlocked
    BY DEF BlockedCall, NotBlocked
  <2>3. lock_table[c.rid] \in Waiting /\ Distinct(lock_table[c.rid].list)
    BY <2>2 DEF IInv, TypeOK, RequestsOwned
  <2>4. Pending(t, ModeOf(c.op)) \in Range(lock_table[c.rid].list)
    BY <2>1, <2>2 DEF IInv, BlockedQueued, Requests
  <2>5. WaitThenGrant(t, c.rid, c.op, lock_table[c.rid])
    BY <1>5, <2>1 DEF Wake
  <2> QED BY <2>2, <2>3, <2>4, <2>5, WaitThenGrantWakeup
<1>6. ASSUME NEW t \in Txn, SpuriousWakeup(t) PROVE NoLostWakeup'
  BY <1>6, IdleWakeup DEF SpuriousWakeup
<1>7. ASSUME NEW t \in Txn, NEW s \in {"COMMITTED", "ABORTED"}, EndTransaction(t, s) PROVE NoLostWakeup'
  BY <1>7, IdleWakeup DEF EndTransaction
<1>8. CASE UNCHANGED vars
  BY <1>8, IdleWakeup DEF vars
<1> QED BY <1>1, <1>2, <1>3, <1>4, <1>5, <1>6, <1>7, <1>8 DEF Next

\* No lost wakeup: a thread asleep on the condition variable whose predicate
\* holds has been notified, so a call that could be granted never sleeps on
\* for want of a notification.
THEOREM NoLostWakeups == Spec => []NoLostWakeup
<1>1. Init => NoLostWakeup
  BY DEF Init, NoLostWakeup
<1> QED BY <1>1, InitIInv, NextIInv, NextWakeup, PTL DEF Spec

-----------------------------------------------------------------------------
(* Wait-die, for transactions that exclusive_cnt can count.                *)


\* exclusive_cnt, a size_t, counts all transactions.
Counts == IsFiniteSet(Txn) /\ Cardinality(Txn) < CntMod

\* The transactions with an exclusive request in a list.
XOwners(list) == {t \in Txn : \E i \in 1..Len(list) : list[i].txn_id = t /\ list[i].mode = "X"}

\* Of two requests one of which is exclusive, the later is the older's.
Aged(list) ==
    \A i, k \in 1..Len(list) : i < k /\ "X" \in {list[i].mode, list[k].mode} =>
        list[k].txn_id < list[i].txn_id

\* `oldest` is at least as old as every transaction in the list.
Eldest(oldest, list) ==
    \A i \in 1..Len(list) : oldest # NoTxn /\ oldest <= list[i].txn_id

Fits(cnt, oldest, list) ==
    cnt = Cardinality(XOwners(list)) /\ Aged(list) /\ Eldest(oldest, list)

WaitDie == \A r \in Rid : LET w == lock_table[r] IN Fits(w.exclusive_cnt, w.oldest, w.list)

-----------------------------------------------------------------------------
(* What the operations do to an entry.                                     *)

LEMMA XOwnersFinite ==
    ASSUME Counts, NEW list
    PROVE  /\ IsFiniteSet(XOwners(list))
           /\ Cardinality(XOwners(list)) \in 0..(CntMod - 1)
           /\ Cardinality(XOwners(list)) = 0 <=> XOwners(list) = {}
<1>1. XOwners(list) \subseteq Txn
  BY DEF XOwners
<1>2. IsFiniteSet(XOwners(list)) /\ Cardinality(XOwners(list)) <= Cardinality(Txn)
  BY <1>1, FS_Subset DEF Counts
<1>3. Cardinality(XOwners(list)) \in Nat /\ Cardinality(Txn) \in Nat
  BY <1>2, FS_CardinalityType DEF Counts
<1>4. Cardinality(XOwners(list)) = 0 <=> XOwners(list) = {}
  BY <1>2, FS_EmptySet
<1> QED BY <1>2, <1>3, <1>4, CntModAssumption DEF Counts

\* A grant changes neither the owner nor the mode of a request.
LEMMA GrantFits ==
    ASSUME NEW c, NEW o, NEW list \in Seq(Request), NEW t \in Txn, Fits(c, o, list)
    PROVE  Fits(c, o, Grant(list, t))
<1> DEFINE new == Grant(list, t)
<1>1. Len(list) \in Nat /\ \A i \in 1..Len(list) : list[i] \in Request
  BY ListTyping
<1>2. \A i \in 1..Len(list) : list[i].mode \in {"S", "X"}
  BY <1>1 DEF Request
<1>3. Len(new) = Len(list)
  BY <1>1 DEF Grant
<1>4. \A i \in 1..Len(list) : new[i].txn_id = list[i].txn_id /\ new[i].mode = list[i].mode
  <2> SUFFICES ASSUME NEW i \in 1..Len(list)
               PROVE  new[i].txn_id = list[i].txn_id /\ new[i].mode = list[i].mode
    OBVIOUS
  <2>1. new[i] = IF list[i].txn_id = t THEN HeldReq(t, list[i].mode) ELSE list[i]
    BY DEF Grant
  <2> QED BY <1>2, <2>1, RequestTyping
<1> HIDE DEF new
<1>5. XOwners(new) = XOwners(list)
  BY <1>3, <1>4 DEF XOwners
<1>6. Aged(new) /\ Eldest(o, new)
  BY <1>3, <1>4 DEF Fits, Aged, Eldest
<1> QED BY <1>5, <1>6 DEF Fits, new

\* The new request of t is behind all others, and t is older than all of them
\* unless no exclusive request is involved.
LEMMA AppendFits ==
    ASSUME Counts, NEW c \in 0..(CntMod - 1), NEW o \in Txn \cup {NoTxn}, NEW o2 \in Txn,
           NEW list \in Seq(Request), NEW t \in Txn, NEW m \in {"S", "X"},
           Fits(c, o, list), \A i \in 1..Len(list) : list[i].txn_id # t,
           (m = "S" /\ c = 0) \/ o = NoTxn \/ t <= o,
           o2 <= t, o # NoTxn => o2 <= o
    PROVE  Fits(IF m = "X" THEN (c + 1) % CntMod ELSE c, o2, Append(list, Pending(t, m)))
<1> DEFINE q == Pending(t, m)
           new == Append(list, q)
<1>1. q \in Request /\ q.txn_id = t /\ q.mode = m
  BY RequestTyping
<1>2. Len(list) \in Nat /\ \A i \in 1..Len(list) : list[i].txn_id \in Txn
  BY ListTyping
<1> HIDE DEF q
<1>3. /\ Len(new) = Len(list) + 1
      /\ \A i \in 1..Len(list) : new[i] = list[i]
      /\ new[Len(list) + 1] = q
  BY <1>1
<1> HIDE DEF new
<1>4. \A i \in 1..Len(list) : o # NoTxn /\ o <= list[i].txn_id
  BY DEF Fits, Eldest
<1>5. ASSUME NEW i \in 1..Len(list), "X" \in {list[i].mode, m} PROVE t < list[i].txn_id
  <2>1. m = "S" /\ c = 0 => list[i].mode # "X"
    <3>1. c = 0 => XOwners(list) = {}
      BY ZenonT(60), XOwnersFinite DEF Fits
    <3> QED BY <1>2, <3>1 DEF XOwners
  <2>2. t <= o
    BY <1>4, <1>5, <2>1
  <2>3. PICK u \in Txn : u = list[i].txn_id
    BY <1>2
  <2>4. o # NoTxn /\ o <= u /\ u # t
    BY <1>4, <2>3
  <2>5. o \in Nat /\ t \in Nat /\ u \in Nat
    BY <2>4, TxnAssumption
  <2>6. t < u
    BY <2>2, <2>4, <2>5
  <2> QED BY <2>3, <2>6
<1>6. Aged(new)
  <2> SUFFICES ASSUME NEW i \in 1..(Len(list) + 1), NEW k \in 1..(Len(list) + 1), i < k,
                      "X" \in {new[i].mode, new[k].mode}
               PROVE  new[k].txn_id < new[i].txn_id
    BY <1>3 DEF Aged
  <2>1. CASE k \in 1..Len(list)
    <3>1. i \in 1..Len(list)
      BY <1>2, <2>1
    <3> QED BY <1>3, <2>1, <3>1 DEF Fits, Aged
  <2>2. CASE k = Len(list) + 1
    <3>1. i \in 1..Len(list)
      BY <1>2, <2>2
    <3> QED BY <1>1, <1>3, <1>5, <2>2, <3>1
  <2> QED BY <1>2, <2>1, <2>2
<1>7. Eldest(o2, new)
  <2> SUFFICES ASSUME NEW i \in 1..(Len(list) + 1) PROVE o2 # NoTxn /\ o2 <= new[i].txn_id
    BY <1>3 DEF Eldest
  <2>1. o2 # NoTxn /\ o2 \in Nat /\ t \in Nat
    BY TxnAssumption DEF NoTxn
  <2>2. CASE i \in 1..Len(list)
    <3>1. PICK u \in Txn : u = list[i].txn_id /\ new[i] = list[i]
      BY <1>2, <1>3, <2>2
    <3>2. o # NoTxn /\ o <= u /\ o2 <= o
      BY <1>4, <2>2, <3>1
    <3>3. o \in Nat /\ u \in Nat
      BY <3>2, TxnAssumption
    <3>4. o2 <= u
      BY <2>1, <3>2, <3>3
    <3> QED BY <2>1, <3>1, <3>4
  <2>3. CASE i = Len(list) + 1
    BY <1>1, <1>3, <2>1, <2>3
  <2> QED BY <1>2, <2>2, <2>3
<1>8. CASE m = "S"
  <2>1. XOwners(new) = XOwners(list)
    BY <1>1, <1>2, <1>3, <1>8 DEF XOwners
  <2> QED BY <1>6, <1>7, <1>8, <2>1 DEF Fits, new, q
<1>9. CASE m = "X"
  <2>1. XOwners(new) = XOwners(list) \cup {t}
    <3>1. ASSUME NEW u \in XOwners(new) PROVE u \in XOwners(list) \cup {t}
      BY <1>1, <1>2, <1>3, <3>1 DEF XOwners
    <3>2. ASSUME NEW u \in XOwners(list) PROVE u \in XOwners(new)
      BY <1>2, <1>3, <3>2 DEF XOwners
    <3>3. t \in XOwners(new)
      BY <1>1, <1>2, <1>3, <1>9 DEF XOwners
    <3> QED BY <3>1, <3>2, <3>3
  <2>2. t \notin XOwners(list)
    BY DEF XOwners
  <2>3. Cardinality(XOwners(new)) = c + 1
    BY ZenonT(60), <2>1, <2>2, XOwnersFinite, FS_AddElement DEF Fits
  <2>4. (c + 1) % CntMod = c + 1
    <3>1. c + 1 \in 0..(CntMod - 1)
      BY <2>3, XOwnersFinite
    <3> QED BY <3>1, CntModAssumption
  <2> QED BY <1>6, <1>7, <1>9, <2>3, <2>4 DEF Fits, new, q
<1> QED BY <1>8, <1>9

\* Unlock erases a request, and counts an exclusive one down.
LEMMA EraseFits ==
    ASSUME Counts, NEW c \in 0..(CntMod - 1), NEW o,
           NEW list \in Seq(Request), Ordered(list), Distinct(list), NEW e \in 1..Len(list),
           Fits(c, o, list)
    PROVE  Fits(IF list[e].mode = "X" THEN (c - 1) % CntMod ELSE c, o, EraseAt(list, e))
<1> DEFINE new == EraseAt(list, e)
           t == list[e].txn_id
<1>1. Len(list) \in Nat /\ \A i \in 1..Len(list) : list[i].txn_id \in Txn
  BY ListTyping
<1>2. /\ Len(new) = Len(list) - 1
      /\ \A k \in 1..(Len(list) - 1) : new[k] = IF k < e THEN list[k] ELSE list[k + 1]
  BY EraseRequest
<1> HIDE DEF new
<1>3. ASSUME NEW k \in 1..Len(new)
      PROVE  \E j \in 1..Len(list) : j # e /\ new[k] = list[j] /\ j = IF k < e THEN k ELSE k + 1
  BY <1>1, <1>2
<1>4. ASSUME NEW j \in 1..Len(list), j # e PROVE \E k \in 1..Len(new) : new[k] = list[j]
  <2>1. CASE j < e
    BY <1>1, <1>2, <2>1
  <2>2. CASE j > e
    <3>1. j - 1 \in 1..Len(new) /\ ~(j - 1 < e) /\ (j - 1) + 1 = j
      BY <1>1, <1>2, <2>2
    <3> QED BY ZenonT(60), <1>2, <3>1
  <2> QED BY <1>1, <1>4, <2>1, <2>2
<1>5. Aged(new)
  <2> SUFFICES ASSUME NEW i \in 1..Len(new), NEW k \in 1..Len(new), i < k,
                      "X" \in {new[i].mode, new[k].mode}
               PROVE  new[k].txn_id < new[i].txn_id
    BY DEF Aged
  <2>1. PICK i1 \in 1..Len(list) : new[i] = list[i1] /\ i1 = IF i < e THEN i ELSE i + 1
    BY <1>3
  <2>2. PICK k1 \in 1..Len(list) : new[k] = list[k1] /\ k1 = IF k < e THEN k ELSE k + 1
    BY <1>3
  <2>3. i1 < k1
    BY <1>1, <1>2, <2>1, <2>2
  <2> QED BY <2>1, <2>2, <2>3 DEF Fits, Aged
<1>6. Eldest(o, new)
  BY <1>3 DEF Fits, Eldest
<1>7. XOwners(new) = IF list[e].mode = "X" THEN XOwners(list) \ {t} ELSE XOwners(list)
  <2>1. ASSUME NEW u \in XOwners(new) PROVE u \in XOwners(list) /\ u # t
    <3>1. PICK k \in 1..Len(new) : new[k].txn_id = u /\ new[k].mode = "X"
      BY <2>1 DEF XOwners
    <3>2. PICK j \in 1..Len(list) : j # e /\ new[k] = list[j]
      BY <1>3
    <3>3. u # t
      BY <3>1, <3>2 DEF Distinct
    <3> QED BY <1>1, <3>1, <3>2, <3>3 DEF XOwners
  <2>2. ASSUME NEW u \in XOwners(list), u # t \/ list[e].mode # "X" PROVE u \in XOwners(new)
    <3>1. PICK j \in 1..Len(list) : list[j].txn_id = u /\ list[j].mode = "X"
      BY <2>2 DEF XOwners
    <3>2. j # e
      BY <2>2, <3>1
    <3> QED BY <1>1, <1>4, <3>1, <3>2 DEF XOwners
  <2> QED BY ZenonT(60), <2>1, <2>2
<1>8. CASE list[e].mode = "X"
  <2>1. t \in XOwners(list)
    BY <1>1, <1>8 DEF XOwners
  <2>2. Cardinality(XOwners(new)) = c - 1
    BY ZenonT(60), <1>7, <1>8, <2>1, XOwnersFinite, FS_RemoveElement DEF Fits
  <2>3. (c - 1) % CntMod = c - 1
    <3>1. c - 1 \in 0..(CntMod - 1)
      BY <2>2, XOwnersFinite
    <3> QED BY <3>1, CntModAssumption
  <2> QED BY <1>5, <1>6, <1>8, <2>2, <2>3 DEF Fits, new
<1>9. CASE list[e].mode # "X"
  BY <1>5, <1>6, <1>7, <1>9 DEF Fits, new
<1> QED BY <1>8, <1>9

-----------------------------------------------------------------------------
(* The invariant.                                                          *)

LEMMA EntryFits ==
    ASSUME TypeOK, WaitDie, NEW r \in Rid, NEW w \in Waiting, lock_table' = [lock_table EXCEPT ![r] = w],
           Fits(w.exclusive_cnt, w.oldest, w.list)
    PROVE  WaitDie'
<1>1. lock_table'[r] = w /\ \A s \in Rid \ {r} : lock_table'[s] = lock_table[s]
  BY DEF TypeOK
<1> QED BY <1>1 DEF WaitDie

\* The tail of the lock calls, for an entry w with the request queued.
LEMMA WaitThenGrantFits ==
    ASSUME TypeOK, WaitDie, NEW t \in Txn, NEW r \in Rid, NEW op \in {"S", "X"}, NEW w \in Waiting,
           Fits(w.exclusive_cnt, w.oldest, w.list), WaitThenGrant(t, r, op, w), NotUpgrading
    PROVE  WaitDie' /\ NotUpgrading'
<1>1. w.list \in Seq(Request)
  BY DEF Waiting
<1>2. CASE Granted(t, r, op, w)
  <2> DEFINE w1 == [w EXCEPT !.list = Grant(w.list, t)]
  <2>1. lock_table' = [lock_table EXCEPT ![r] = w1]
    BY <1>2 DEF Granted
  <2>2. Grant(w.list, t) \in Seq(Request)
    <3>1. Len(w.list) \in Nat /\ \A i \in 1..Len(w.list) : w.list[i] \in Request
      BY <1>1, ListTyping
    <3>2. \A i \in 1..Len(w.list) : HeldReq(t, w.list[i].mode) \in Request
      BY <3>1, RequestTyping DEF Request
    <3> QED BY <3>1, <3>2 DEF Grant
  <2>3. /\ w1 \in Waiting /\ w1.exclusive_cnt = w.exclusive_cnt
        /\ w1.oldest = w.oldest /\ w1.list = Grant(w.list, t)
    BY ZenonT(60), <2>2 DEF Waiting
  <2> HIDE DEF w1
  <2>4. Fits(w1.exclusive_cnt, w1.oldest, w1.list)
    BY <1>1, <2>3, GrantFits
  <2>5. WaitDie'
    BY ZenonT(60), <2>1, <2>3, <2>4, EntryFits
  <2>6. NotUpgrading'
    <3>1. call' = [call EXCEPT ![t] = NotBlocked]
      BY <1>2 DEF Granted
    <3> QED BY <3>1 DEF NotUpgrading, NotBlocked, TypeOK
  <2> QED BY <2>5, <2>6
<1>3. CASE Sleep(t, r, op, w)
  <2>1. lock_table' = [lock_table EXCEPT ![r] = w]
    BY <1>3 DEF Sleep
  <2>2. call' = [call EXCEPT ![t] = [op |-> op, rid |-> r]]
    BY <1>3 DEF Sleep
  <2>3. WaitDie'
    BY ZenonT(60), <2>1, EntryFits
  <2>4. NotUpgrading'
    BY <2>2 DEF NotUpgrading, TypeOK
  <2> QED BY <2>3, <2>4
<1> QED BY <1>2, <1>3 DEF WaitThenGrant

LEMMA UnchangedFits ==
    ASSUME WaitDie, NotUpgrading, UNCHANGED <<lock_table, call>>
    PROVE  WaitDie' /\ NotUpgrading'
BY DEF WaitDie, NotUpgrading

\* The entry of r as a lock call of t finds it.
LEMMA EntryFacts ==
    ASSUME IInv, WaitDie, NEW t \in Txn, NEW r \in Rid,
           call[t] = NotBlocked, r \notin shared[t] \cup exclusive[t]
    PROVE  LET w == lock_table[r]
           IN  /\ w \in Waiting /\ w.list \in Seq(Request)
               /\ w.exclusive_cnt \in 0..(CntMod - 1) /\ w.oldest \in Txn \cup {NoTxn}
               /\ Fits(w.exclusive_cnt, w.oldest, w.list)
               /\ \A i \in 1..Len(w.list) : w.list[i].txn_id # t
<1> DEFINE w == lock_table[r]
<1>1. w \in Waiting
  BY DEF IInv, TypeOK
<1>2. w.list \in Seq(Request) /\ w.exclusive_cnt \in 0..(CntMod - 1) /\ w.oldest \in Txn \cup {NoTxn}
  BY <1>1 DEF Waiting
<1>3. Fits(w.exclusive_cnt, w.oldest, w.list)
  BY DEF WaitDie
<1>4. \A i \in 1..Len(w.list) : w.list[i].txn_id # t
  <2>1. \A q \in Requests(r) : q.txn_id # t
    BY NothingQueued
  <2>2. \A i \in 1..Len(w.list) : w.list[i] \in Requests(r)
    BY <1>2, ListTyping DEF Requests
  <2> QED BY <2>1, <2>2
<1> QED BY <1>1, <1>2, <1>3, <1>4

LEMMA LockSharedFits ==
    ASSUME Counts, IInv, WaitDie, NotUpgrading, NEW t \in Txn, NEW r \in Rid, LockShared(t, r)
    PROVE  WaitDie' /\ NotUpgrading'
<1> DEFINE w == lock_table[r]
           o2 == IF w.oldest = NoTxn \/ w.oldest > t THEN t ELSE w.oldest
           l == Append(w.list, Pending(t, "S"))
           w1 == [w EXCEPT !.oldest = o2, !.list = l]
<1>1. CASE Refuse(t) \/ Die(t)
  BY <1>1, UnchangedFits DEF Refuse, Die
<1>2. CASE /\ ~(w.oldest # NoTxn /\ w.exclusive_cnt # 0 /\ t > w.oldest)
           /\ WaitThenGrant(t, r, "S", w1)
  <2>1. call[t] = NotBlocked /\ r \notin shared[t] \cup exclusive[t]
    BY DEF LockShared, Callable
  <2>2. /\ w \in Waiting /\ w.list \in Seq(Request)
        /\ w.exclusive_cnt \in 0..(CntMod - 1) /\ w.oldest \in Txn \cup {NoTxn}
        /\ Fits(w.exclusive_cnt, w.oldest, w.list)
        /\ \A i \in 1..Len(w.list) : w.list[i].txn_id # t
    BY <2>1, EntryFacts
  <2>3. /\ o2 \in Txn /\ o2 <= t /\ (w.oldest # NoTxn => o2 <= w.oldest)
        /\ w.exclusive_cnt = 0 \/ w.oldest = NoTxn \/ t <= w.oldest
    BY <1>2, <2>2, TxnAssumption DEF NoTxn
  <2>4. l \in Seq(Request)
    BY <2>2, RequestTyping
  <2> HIDE DEF o2
  <2>5. Fits(w.exclusive_cnt, o2, l)
    <3>1. Fits(IF "S" = "X" THEN (w.exclusive_cnt + 1) % CntMod ELSE w.exclusive_cnt, o2, l)
      BY ZenonT(60), <2>2, <2>3, AppendFits
    <3> QED BY <3>1
  <2> HIDE DEF l
  <2>6. w1 \in Waiting /\ w1.exclusive_cnt = w.exclusive_cnt /\ w1.oldest = o2 /\ w1.list = l
    BY ZenonT(60), <2>2, <2>3, <2>4 DEF Waiting
  <2> HIDE DEF w1
  <2> QED BY <1>2, <2>5, <2>6, WaitThenGrantFits DEF IInv
<1> QED BY <1>1, <1>2 DEF LockShared

LEMMA LockExclusiveFits ==
    ASSUME Counts, IInv, WaitDie, NotUpgrading, NEW t \in Txn, NEW r \in Rid, LockExclusive(t, r)
    PROVE  WaitDie' /\ NotUpgrading'
<1> DEFINE w == lock_table[r]
           c == (w.exclusive_cnt + 1) % CntMod
           l == Append(w.list, Pending(t, "X"))
           w1 == [w EXCEPT !.oldest = t, !.exclusive_cnt = c, !.list = l]
<1>1. CASE Refuse(t) \/ Die(t)
  BY <1>1, UnchangedFits DEF Refuse, Die
<1>2. CASE /\ ~(w.oldest # NoTxn /\ t > w.oldest)
           /\ WaitThenGrant(t, r, "X", w1)
  <2>1. call[t] = NotBlocked /\ r \notin shared[t] \cup exclusive[t]
    BY DEF LockExclusive, Callable
  <2>2. /\ w \in Waiting /\ w.list \in Seq(Request)
        /\ w.exclusive_cnt \in 0..(CntMod - 1) /\ w.oldest \in Txn \cup {NoTxn}
        /\ Fits(w.exclusive_cnt, w.oldest, w.list)
        /\ \A i \in 1..Len(w.list) : w.list[i].txn_id # t
    BY <2>1, EntryFacts
  <2>3. /\ t <= t /\ (w.oldest # NoTxn => t <= w.oldest)
        /\ w.oldest = NoTxn \/ t <= w.oldest
    BY <1>2, <2>2, TxnAssumption DEF NoTxn
  <2>4. l \in Seq(Request)
    BY <2>2, RequestTyping
  <2>5. Fits(c, t, l)
    <3>1. Fits(IF "X" = "X" THEN (w.exclusive_cnt + 1) % CntMod ELSE w.exclusive_cnt, t, l)
      BY ZenonT(60), <2>2, <2>3, AppendFits
    <3> QED BY <3>1
  <2>6. c \in 0..(CntMod - 1)
    BY <2>2, CntModAssumption
  <2> HIDE DEF l, c
  <2>7. w1 \in Waiting /\ w1.exclusive_cnt = c /\ w1.oldest = t /\ w1.list = l
    BY ZenonT(60), <2>2, <2>4, <2>6 DEF Waiting
  <2> HIDE DEF w1
  <2> QED BY <1>2, <2>5, <2>7, WaitThenGrantFits DEF IInv
<1> QED BY <1>1, <1>2 DEF LockExclusive

LEMMA WakeFits ==
    ASSUME IInv, WaitDie, NotUpgrading, NEW t \in Txn, Wake(t)
    PROVE  WaitDie' /\ NotUpgrading'
<1>1. PICK d \in BlockedCall : call[t] = d
  BY DEF Wake, IInv, TypeOK
<1>2. d.rid \in Rid /\ d.op \in {"S", "X"}
  BY <1>1 DEF BlockedCall, NotUpgrading
<1>3. WaitThenGrant(t, d.rid, d.op, lock_table[d.rid])
  BY <1>1 DEF Wake
<1>4. PICK w \in Waiting : w = lock_table[d.rid] /\ Fits(w.exclusive_cnt, w.oldest, w.list)
  BY <1>2 DEF IInv, TypeOK, WaitDie
<1> QED BY <1>2, <1>3, <1>4, WaitThenGrantFits DEF IInv

LEMMA UnlockFits ==
    ASSUME Counts, IInv, WaitDie, NotUpgrading, NEW t \in Txn, NEW r \in Rid, Unlock(t, r)
    PROVE  WaitDie' /\ NotUpgrading'
<1> DEFINE w == lock_table[r]
<1>1. call' = call
  BY DEF Unlock
<1>2. CASE UNCHANGED lock_table
  BY <1>1, <1>2, UnchangedFits
<1>3. ASSUME NEW e \in Own(w.list, t),
             lock_table' = [lock_table EXCEPT ![r] =
                    [w EXCEPT !.exclusive_cnt =
                                  IF w.list[e].mode = "X" THEN (@ - 1) % CntMod ELSE @,
                              !.list = EraseAt(@, e)]]
      PROVE  WaitDie' /\ NotUpgrading'
  <2> DEFINE l == EraseAt(w.list, e)
             c == IF w.list[e].mode = "X" THEN (w.exclusive_cnt - 1) % CntMod ELSE w.exclusive_cnt
             w1 == [w EXCEPT !.exclusive_cnt = c, !.list = l]
  <2>1. /\ w \in Waiting /\ w.list \in Seq(Request) /\ Ordered(w.list) /\ Distinct(w.list)
        /\ w.exclusive_cnt \in 0..(CntMod - 1) /\ Fits(w.exclusive_cnt, w.oldest, w.list)
    BY DEF IInv, TypeOK, Waiting, GrantOrder, RequestsOwned, WaitDie
  <2>2. e \in 1..Len(w.list)
    BY DEF Own
  <2>3. l \in Seq(Request)
    BY <2>1, <2>2, EraseRequest
  <2>4. c \in 0..(CntMod - 1)
    BY <2>1, CntModAssumption
  <2>5. Fits(c, w.oldest, l)
    BY <2>1, <2>2, EraseFits
  <2>6. lock_table' = [lock_table EXCEPT ![r] = w1]
    BY <1>3
  <2> HIDE DEF l, c
  <2>7. w1 \in Waiting /\ w1.exclusive_cnt = c /\ w1.oldest = w.oldest /\ w1.list = l
    BY ZenonT(60), <2>1, <2>3, <2>4 DEF Waiting
  <2> HIDE DEF w1
  <2>8. WaitDie'
    BY ZenonT(60), <2>5, <2>6, <2>7, EntryFits DEF IInv
  <2> QED BY <1>1, <2>8 DEF NotUpgrading
<1> QED BY ZenonT(60), <1>2, <1>3 DEF Unlock, Release

LEMMA NextWaitDie ==
    ASSUME Counts, NoUpgrade, IInv, WaitDie, NotUpgrading, [Next]_vars
    PROVE  WaitDie' /\ NotUpgrading'
<1>1. ASSUME NEW t \in Txn, NEW r \in Rid, LockShared(t, r) PROVE WaitDie' /\ NotUpgrading'
  BY <1>1, LockSharedFits
<1>2. ASSUME NEW t \in Txn, NEW r \in Rid, LockExclusive(t, r) PROVE WaitDie' /\ NotUpgrading'
  BY <1>2, LockExclusiveFits
<1>3. ASSUME NEW t \in Txn, NEW r \in Rid, LockUpgrade(t, r) PROVE WaitDie' /\ NotUpgrading'
  BY <1>3 DEF LockUpgrade, Callable, NoUpgrade
<1>4. ASSUME NEW t \in Txn, NEW r \in Rid, Unlock(t, r) PROVE WaitDie' /\ NotUpgrading'
  BY <1>4, UnlockFits
<1>5. ASSUME NEW t \in Txn, Wake(t) PROVE WaitDie' /\ NotUpgrading'
  BY <1>5, WakeFits
<1>6. ASSUME NEW t \in Txn, SpuriousWakeup(t) PROVE WaitDie' /\ NotUpgrading'
  BY <1>6, UnchangedFits DEF SpuriousWakeup
<1>7. ASSUME NEW t \in Txn, NEW s \in {"COMMITTED", "ABORTED"}, EndTransaction(t, s)
      PROVE  WaitDie' /\ NotUpgrading'
  BY <1>7, UnchangedFits DEF EndTransaction
<1>8. CASE UNCHANGED vars
  BY <1>8, UnchangedFits DEF vars
<1> QED BY <1>1, <1>2, <1>3, <1>4, <1>5, <1>6, <1>7, <1>8 DEF Next

LEMMA InitWaitDie == Init => WaitDie /\ NotUpgrading
<1> SUFFICES ASSUME Init PROVE WaitDie /\ NotUpgrading
  OBVIOUS
<1>1. XOwners(<<>>) = {} /\ Aged(<<>>) /\ \A o : Eldest(o, <<>>)
  BY DEF XOwners, Aged, Eldest
<1>2. Fits(0, NoTxn, <<>>)
  BY <1>1, FS_EmptySet DEF Fits
<1>3. ASSUME NEW r \in Rid
      PROVE  /\ lock_table[r].exclusive_cnt = 0 /\ lock_table[r].oldest = NoTxn
             /\ lock_table[r].list = <<>>
  BY DEF Init
<1>4. WaitDie
  BY <1>2, <1>3 DEF WaitDie
<1>5. NotUpgrading
  BY DEF Init, NotUpgrading, NotBlocked
<1> QED BY <1>4, <1>5

LEMMA WaitDieInvariant ==
    Counts /\ NoUpgrade => (Spec => [](IInv /\ WaitDie /\ NotUpgrading))
<1> SUFFICES ASSUME Counts, NoUpgrade PROVE Spec => [](IInv /\ WaitDie /\ NotUpgrading)
  OBVIOUS
<1>1. IInv /\ WaitDie /\ NotUpgrading /\ [Next]_vars => (IInv /\ WaitDie /\ NotUpgrading)'
  BY NextIInv, NextWaitDie
<1> QED BY <1>1, InitIInv, InitWaitDie, PTL DEF Spec

-----------------------------------------------------------------------------
(* The theorems.                                                           *)

\* Wait-die works: without upgrades a transaction that sleeps in LockShared
\* or LockExclusive waits only for younger ones, so no cycle of waits forms,
\* although LockShared decides it from exclusive_cnt and an `oldest` that is
\* never reset.
THEOREM WaitDieOrder == Counts /\ NoUpgrade => (Spec => []WaitsOnlyForYounger)
<1> SUFFICES ASSUME Counts, NoUpgrade PROVE Spec => []WaitsOnlyForYounger
  OBVIOUS
<1>1. ASSUME IInv, WaitDie, NotUpgrading PROVE WaitsOnlyForYounger
  <2> SUFFICES ASSUME NEW t \in Txn, NEW u \in Txn, Blocks(u, t) PROVE t < u
    BY DEF WaitsOnlyForYounger
  <2>1. PICK d \in BlockedCall : d = call[t] /\ d # NotBlocked
    BY <1>1 DEF Blocks, IInv, TypeOK
  <2>2. d.rid \in Rid /\ d.op \in {"S", "X"}
    BY <1>1, <2>1 DEF BlockedCall, NotUpgrading
  <2> DEFINE list == lock_table[d.rid].list
  <2>3. PICK i \in Own(list, u), k \in Own(list, t) : i < k /\ (d.op # "S" \/ list[i].mode = "X")
    BY <2>1 DEF Blocks
  <2>4. /\ i \in 1..Len(list) /\ k \in 1..Len(list)
        /\ list[i].txn_id = u /\ list[k].txn_id = t
    BY DEF Own
  <2>5. list \in Seq(Request) /\ Distinct(list) /\ Aged(list)
    BY <1>1, <2>2 DEF IInv, TypeOK, Waiting, RequestsOwned, WaitDie, Fits
  <2>6. list[k].mode = ModeOf(d.op)
    <3>1. Pending(t, ModeOf(d.op)) \in Requests(d.rid)
      BY <1>1, <2>1 DEF IInv, BlockedQueued
    <3>2. ModeOf(d.op) \in {"S", "X"}
      BY DEF ModeOf
    <3>3. Pending(t, ModeOf(d.op)).txn_id = t /\ Pending(t, ModeOf(d.op)).mode = ModeOf(d.op)
      BY <3>2, RequestTyping
    <3>4. list[k] \in Range(list) /\ Range(list) = Requests(d.rid)
      BY <2>4, <2>5, ListTyping DEF Requests
    <3>5. list[k] = Pending(t, ModeOf(d.op))
      BY <2>4, <2>5, <3>1, <3>3, <3>4, DistinctRequests
    <3> QED BY <3>3, <3>5
  <2>7. "X" \in {list[i].mode, list[k].mode}
    BY <2>2, <2>3, <2>6 DEF ModeOf
  <2> QED BY <2>3, <2>4, <2>5, <2>7 DEF Aged
<1> QED BY <1>1, WaitDieInvariant, PTL

\* What the shared lock set of a growing transaction records, no other
\* transaction has locked exclusively, without upgrades.
THEOREM SharedSetsProtect == Counts /\ NoUpgrade => (Spec => []SharedSetProtects)
<1> SUFFICES ASSUME Counts, NoUpgrade PROVE Spec => []SharedSetProtects
  OBVIOUS
<1>1. ASSUME IInv, NotUpgrading PROVE SharedSetProtects
  <2> SUFFICES ASSUME NEW t \in Txn, NEW u \in Txn, NEW r \in Rid, t # u, state[t] = "GROWING",
                      r \in shared[t], Holds(u, r, "X")
               PROVE  FALSE
    BY DEF SharedSetProtects
  <2> DEFINE list == lock_table[r].list
  <2>1. list \in Seq(Request) /\ Ordered(list)
    BY <1>1 DEF IInv, TypeOK, Waiting, GrantOrder
  <2>2. Holds(t, r, "S")
    <3>1. Holds(t, r, "S") \/ call[t] = [op |-> "U", rid |-> r]
      BY <1>1 DEF IInv, LockSetsBacked
    <3>2. call[t] # [op |-> "U", rid |-> r]
      BY <1>1 DEF NotUpgrading
    <3> QED BY <3>1, <3>2
  <2>3. PICK i \in 1..Len(list) : list[i] = HeldReq(t, "S")
    BY <2>1, <2>2, ListTyping DEF Holds, Requests
  <2>4. PICK k \in 1..Len(list) : list[k] = HeldReq(u, "X")
    BY <2>1, ListTyping DEF Holds, Requests
  <2>5. /\ list[i].mode = "S" /\ list[i].granted
        /\ list[k].mode = "X" /\ list[k].granted
    BY <2>3, <2>4, RequestTyping
  <2>6. i # k /\ Len(list) \in Nat
    BY <2>1, <2>5, ListTyping
  <2>7. CASE i < k
    BY <2>1, <2>5, <2>6, <2>7 DEF Ordered
  <2>8. CASE k < i
    BY <2>1, <2>5, <2>6, <2>8 DEF Ordered
  <2> QED BY <2>6, <2>7, <2>8
<1> QED BY <1>1, WaitDieInvariant, PTL

\* exclusive_cnt is "how many exclusive requests" a list holds: the count
\* LockShared relies on never drifts, however calls and releases interleave.
THEOREM CountExact == Counts /\ NoUpgrade => (Spec => []ExclusiveCntExact)
<1> SUFFICES ASSUME Counts, NoUpgrade PROVE Spec => []ExclusiveCntExact
  OBVIOUS
<1>1. ASSUME IInv, WaitDie PROVE ExclusiveCntExact
  <2> SUFFICES ASSUME NEW r \in Rid
               PROVE  lock_table[r].exclusive_cnt =
                        Cardinality({i \in 1..Len(lock_table[r].list) :
                                        lock_table[r].list[i].mode = "X"})
    BY ZenonT(60) DEF ExclusiveCntExact
  <2> DEFINE list == lock_table[r].list
             idx == {i \in 1..Len(list) : list[i].mode = "X"}
             f == [i \in idx |-> list[i].txn_id]
  <2>1. list \in Seq(Request) /\ Distinct(list)
    BY <1>1 DEF IInv, TypeOK, Waiting, RequestsOwned
  <2>2. lock_table[r].exclusive_cnt = Cardinality(XOwners(list))
    BY <1>1 DEF WaitDie, Fits
  <2>3. Len(list) \in Nat /\ \A i \in 1..Len(list) : list[i].txn_id \in Txn
    BY <2>1, ListTyping
  <2> HIDE DEF list
  <2>4. IsFiniteSet(idx)
    <3>1. 1 \in Int /\ Len(list) \in Int
      BY <2>3
    <3>2. IsFiniteSet(1..Len(list))
      BY <3>1, FS_Interval
    <3>3. idx \in SUBSET (1..Len(list))
      OBVIOUS
    <3> QED BY <3>2, <3>3, FS_Subset
  <2>5. f \in Bijection(idx, XOwners(list))
    <3>1. f \in [idx -> XOwners(list)]
      BY <2>3 DEF XOwners
    <3>2. \A i, k \in idx : f[i] = f[k] => i = k
      BY <2>1 DEF Distinct
    <3>3. \A t \in XOwners(list) : \E i \in idx : f[i] = t
      BY DEF XOwners
    <3> HIDE DEF idx, f
    <3> QED BY <3>1, <3>2, <3>3 DEF Bijection, Injection, Surjection, IsInjective
  <2>6. Cardinality(XOwners(list)) = Cardinality(idx)
    BY <2>4, <2>5, FS_Bijection DEF ExistsBijection
  <2> QED BY <2>2, <2>6 DEF list
<1> QED BY <1>1, WaitDieInvariant, PTL

-----------------------------------------------------------------------------
(* Conflict serializability.  A lock step is a step of one thread; a       *)
(* transaction that grows keeps its locks, and only one that grows gets    *)
(* any, so every conflict goes from a transaction that is over to one that *)
(* has gone nowhere yet.                                                   *)

\* What a step of t's thread does to the locks and to who grows.
LockStep(t) ==
    /\ \A u \in Txn \ {t} :
        /\ state'[u] = state[u]
        /\ \A s \in Rid, n \in {"S", "X"} : Holds(u, s, n)' <=> Holds(u, s, n)
    /\ state'[t] = "GROWING" =>
        /\ state[t] = "GROWING"
        /\ \A s \in Rid, n \in {"S", "X"} : Holds(t, s, n) => Holds(t, s, n)'
    /\ state'[t] # "GROWING" =>
        \A s \in Rid, n \in {"S", "X"} : Holds(t, s, n)' => Holds(t, s, n)

\* Only a growing transaction sleeps, and in no upgrade.
SleeperGrows == \A t \in Txn : call[t] # NotBlocked => state[t] = "GROWING"

HTyped ==
    /\ ever \in [Rid -> SUBSET (Txn \X {"S", "X"})]
    /\ before \subseteq Txn \X Txn

\* A growing transaction has every lock it was ever granted.
Kept ==
    \A r \in Rid, u \in Txn, n \in {"S", "X"} :
        <<u, n>> \in ever[r] /\ state[u] = "GROWING" => Holds(u, r, n)

\* A transaction another one had to come after does not grow any more.
Over == \A u, v \in Txn : <<u, v>> \in before => state[u] # "GROWING"

HInv == IInv /\ NotUpgrading /\ SleeperGrows /\ HTyped /\ Kept /\ Over /\ Serializable

LEMMA AskStep ==
    ASSUME IInv, NotUpgrading, SleeperGrows, NEW t \in Txn, NEW r \in Rid, NEW m \in {"S", "X"},
           \/ state[t] = "GROWING" /\ (GotLock(t, r, m) \/ FellAsleep(t, r, m))
           \/ WasRefused(t) /\ call[t] = NotBlocked
    PROVE  LockStep(t) /\ NotUpgrading' /\ SleeperGrows'
<1>1. TypeOK
  BY DEF IInv
<1>2. CASE state[t] = "GROWING" /\ GotLock(t, r, m)
  <2>1. LockStep(t)
    BY <1>1, <1>2 DEF LockStep, GotLock, LocksWith, TypeOK
  <2>2. NotUpgrading' /\ SleeperGrows'
    BY <1>1, <1>2 DEF NotUpgrading, SleeperGrows, GotLock, NotBlocked, TypeOK
  <2> QED BY <2>1, <2>2
<1>3. CASE state[t] = "GROWING" /\ FellAsleep(t, r, m)
  <2>1. LockStep(t)
    BY <1>1, <1>3 DEF LockStep, FellAsleep, SameLocks, TypeOK
  <2>2. NotUpgrading' /\ SleeperGrows'
    BY <1>1, <1>3 DEF NotUpgrading, SleeperGrows, FellAsleep, TypeOK
  <2> QED BY <2>1, <2>2
<1>4. CASE WasRefused(t) /\ call[t] = NotBlocked
  <2>1. LockStep(t)
    BY <1>1, <1>4 DEF LockStep, WasRefused, SameLocks, TypeOK
  <2>2. NotUpgrading' /\ SleeperGrows'
    BY <1>1, <1>4 DEF NotUpgrading, SleeperGrows, WasRefused, TypeOK
  <2> QED BY <2>1, <2>2
<1> QED BY <1>2, <1>3, <1>4

LEMMA NextLockStep ==
    ASSUME NoUpgrade, IInv, NotUpgrading, SleeperGrows, Next
    PROVE  (\E t \in Txn : LockStep(t)) /\ NotUpgrading' /\ SleeperGrows'
<1>1. TypeOK
  BY DEF IInv
<1>2. ASSUME NEW t \in Txn, NEW r \in Rid, LockShared(t, r)
      PROVE  LockStep(t) /\ NotUpgrading' /\ SleeperGrows'
  <2>1. /\ call[t] = NotBlocked
        /\ \/ state[t] = "GROWING" /\ (GotLock(t, r, "S") \/ FellAsleep(t, r, "S"))
           \/ WasRefused(t)
    BY ZenonT(60), <1>2, LockCall
  <2> QED BY ZenonT(60), <2>1, AskStep
<1>3. ASSUME NEW t \in Txn, NEW r \in Rid, LockExclusive(t, r)
      PROVE  LockStep(t) /\ NotUpgrading' /\ SleeperGrows'
  <2>1. /\ call[t] = NotBlocked
        /\ \/ state[t] = "GROWING" /\ (GotLock(t, r, "X") \/ FellAsleep(t, r, "X"))
           \/ WasRefused(t)
    BY ZenonT(60), <1>3, LockCall
  <2> QED BY ZenonT(60), <2>1, AskStep
<1>4. ASSUME NEW t \in Txn, NEW r \in Rid, LockUpgrade(t, r) PROVE FALSE
  BY <1>4 DEF LockUpgrade, Callable, NoUpgrade
<1>5. ASSUME NEW t \in Txn, NEW r \in Rid, Unlock(t, r)
      PROVE  LockStep(t) /\ NotUpgrading' /\ SleeperGrows'
  <2>1. /\ call[t] = NotBlocked /\ call' = call
        /\ \A u \in Txn \ {t} : state'[u] = state[u]
        /\ state'[t] # "GROWING"
        /\ \A u \in Txn, s \in Rid, n \in {"S", "X"} :
             /\ Holds(u, s, n)' => Holds(u, s, n)
             /\ u # t \/ s # r => (Holds(u, s, n)' <=> Holds(u, s, n))
    BY ZenonT(60), <1>5, UnlockCall
  <2>2. LockStep(t)
    BY <2>1 DEF LockStep
  <2> QED BY <2>1, <2>2 DEF NotUpgrading, SleeperGrows
<1>6. ASSUME NEW t \in Txn, Wake(t)
      PROVE  LockStep(t) /\ NotUpgrading' /\ SleeperGrows'
  <2>1. state[t] = "GROWING" /\ call[t].op # "U"
    BY <1>1, <1>6 DEF Wake, SleeperGrows, NotUpgrading, TypeOK
  <2>2. PICK c \in BlockedCall : call[t] = c /\ (GotLock(t, c.rid, c.op) \/ FellAsleep(t, c.rid, c.op))
    BY ZenonT(60), <1>6, <2>1, WakeCall
  <2>3. c.rid \in Rid /\ c.op \in {"S", "X"}
    BY <2>1, <2>2 DEF BlockedCall
  <2> QED BY ZenonT(60), <2>1, <2>2, <2>3, AskStep
<1>7. ASSUME NEW t \in Txn, SpuriousWakeup(t)
      PROVE  LockStep(t) /\ NotUpgrading' /\ SleeperGrows'
  <2>1. SameLocks
    BY <1>7, SameTable DEF SpuriousWakeup
  <2> QED BY <1>7, <2>1 DEF SpuriousWakeup, SameLocks, LockStep, NotUpgrading, SleeperGrows
<1>8. ASSUME NEW t \in Txn, NEW s \in {"COMMITTED", "ABORTED"}, EndTransaction(t, s)
      PROVE  LockStep(t) /\ NotUpgrading' /\ SleeperGrows'
  <2>1. SameLocks
    BY <1>8, SameTable DEF EndTransaction
  <2> QED BY <1>1, <1>8, <2>1 DEF EndTransaction, SameLocks, LockStep, NotUpgrading, SleeperGrows, TypeOK
<1> QED BY <1>2, <1>3, <1>4, <1>5, <1>6, <1>7, <1>8 DEF Next

\* The pairs that HeldOn makes of a set of requests.
LEMMA HeldPairs ==
    ASSUME NEW S \in SUBSET Request
    PROVE  LET P == {<<q.txn_id, q.mode>> : q \in {q \in S : q.granted}}
           IN  /\ P \subseteq Txn \X {"S", "X"}
               /\ \A u \in Txn, n \in {"S", "X"} : <<u, n>> \in P <=> HeldReq(u, n) \in S
<1> DEFINE P == {<<q.txn_id, q.mode>> : q \in {q \in S : q.granted}}
<1>1. P \subseteq Txn \X {"S", "X"}
  BY DEF Request
<1>2. ASSUME NEW u \in Txn, NEW n \in {"S", "X"}, HeldReq(u, n) \in S PROVE <<u, n>> \in P
  BY <1>2, RequestTyping
<1>3. ASSUME NEW u \in Txn, NEW n \in {"S", "X"}, <<u, n>> \in P PROVE HeldReq(u, n) \in S
  <2>1. PICK q \in S : q.granted /\ <<u, n>> = <<q.txn_id, q.mode>>
    BY <1>3
  <2>2. q = HeldReq(u, n)
    BY <2>1 DEF HeldReq, Request
  <2> QED BY <2>2
<1> QED BY <1>1, <1>2, <1>3

LEMMA HeldIsHolds ==
    ASSUME TypeOK, NEW r \in Rid
    PROVE  /\ HeldOn(r) \subseteq Txn \X {"S", "X"}
           /\ \A u \in Txn, n \in {"S", "X"} : <<u, n>> \in HeldOn(r) <=> Holds(u, r, n)
<1>1. Requests(r) \subseteq Request
  BY ListTyping DEF Requests, TypeOK, Waiting
<1> QED BY <1>1, HeldPairs DEF HeldOn, Holds

LEMMA HeldIsHoldsNext ==
    ASSUME TypeOK', NEW r \in Rid
    PROVE  /\ HeldOn(r)' \subseteq Txn \X {"S", "X"}
           /\ \A u \in Txn, n \in {"S", "X"} : <<u, n>> \in HeldOn(r)' <=> Holds(u, r, n)'
<1>1. Requests(r)' \subseteq Request
  BY ListTyping DEF Requests, TypeOK, Waiting
<1> QED BY <1>1, HeldPairs DEF HeldOn, Holds

\* The edges a step adds go to the thread that steps, which grows, from
\* transactions that do not.
LEMMA NewEdges ==
    ASSUME HInv, HNext, IInv', NEW t \in Txn, LockStep(t)
    PROVE  /\ HTyped' /\ Kept'
           /\ \A u, v \in Txn : <<u, v>> \in before' =>
                \/ <<u, v>> \in before
                \/ v = t /\ state'[t] = "GROWING" /\ u # t /\ state'[u] # "GROWING"
<1>1. TypeOK /\ TypeOK' /\ GrantOrder' /\ HTyped /\ Kept
  BY DEF HInv, IInv
<1>2. ASSUME NEW u \in Txn, state'[u] = "GROWING"
      PROVE  /\ state[u] = "GROWING"
             /\ \A s \in Rid, n \in {"S", "X"} : Holds(u, s, n) => Holds(u, s, n)'
  BY <1>2 DEF LockStep
<1>3. CASE UNCHANGED <<ever, before>>
  BY <1>1, <1>2, <1>3 DEF HTyped, Kept
<1>4. CASE /\ ever' = [r \in Rid |-> ever[r] \cup HeldOn(r)']
           /\ before' = before \cup
                {e \in Txn \X Txn :
                    \E r \in Rid : \E g \in ever[r], h \in HeldOn(r)' \ HeldOn(r) :
                        Conflict(g, h) /\ e = <<g[1], h[1]>>}
  <2>1. \A r \in Rid :
            /\ HeldOn(r)' \subseteq Txn \X {"S", "X"}
            /\ \A u \in Txn, n \in {"S", "X"} :
                (<<u, n>> \in HeldOn(r)' <=> Holds(u, r, n)') /\ (<<u, n>> \in HeldOn(r) <=> Holds(u, r, n))
    BY <1>1, HeldIsHolds, HeldIsHoldsNext
  <2>2. \A r \in Rid : ever'[r] = ever[r] \cup HeldOn(r)'
    BY <1>4
  <2>3. HTyped'
    <3>1. ever' \in [Rid -> SUBSET (Txn \X {"S", "X"})]
      BY <1>1, <1>4, <2>1 DEF HTyped
    <3>2. before' \subseteq Txn \X Txn
      BY <1>1, <1>4 DEF HTyped
    <3> QED BY <3>1, <3>2 DEF HTyped
  <2>4. Kept'
    BY ZenonT(60), <1>1, <1>2, <2>1, <2>2 DEF Kept
  <2>5. ASSUME NEW u \in Txn, NEW v \in Txn, <<u, v>> \in before', <<u, v>> \notin before
        PROVE  v = t /\ state'[t] = "GROWING" /\ u # t /\ state'[u] # "GROWING"
    <3>1. PICK r \in Rid : \E g \in ever[r], h \in HeldOn(r)' \ HeldOn(r) :
                Conflict(g, h) /\ <<u, v>> = <<g[1], h[1]>>
      BY <1>4, <2>5
    <3>2. PICK n \in {"S", "X"}, m \in {"S", "X"} :
                /\ <<u, n>> \in ever[r] /\ <<v, m>> \in HeldOn(r)' \ HeldOn(r)
                /\ Conflict(<<u, n>>, <<v, m>>)
      <4>1. PICK g \in ever[r], h \in HeldOn(r)' \ HeldOn(r) :
                Conflict(g, h) /\ <<u, v>> = <<g[1], h[1]>>
        BY <3>1
      <4>2. g \in Txn \X {"S", "X"} /\ h \in Txn \X {"S", "X"}
        BY <1>1, <2>1 DEF HTyped
      <4>3. g = <<u, g[2]>> /\ h = <<v, h[2]>> /\ g[2] \in {"S", "X"} /\ h[2] \in {"S", "X"}
        BY <4>1, <4>2
      <4> QED BY <4>1, <4>3
    <3>3. u # v /\ "X" \in {n, m}
      BY <3>2 DEF Conflict
    <3>4. Holds(v, r, m)' /\ ~Holds(v, r, m)
      BY ZenonT(60), <2>1, <3>2
    <3>5. v = t /\ state'[t] = "GROWING"
      BY <3>4 DEF LockStep
    <3>6. ASSUME state'[u] = "GROWING" PROVE FALSE
      <4>1. Holds(u, r, n)'
        BY ZenonT(60), <1>1, <1>2, <3>2, <3>6 DEF Kept
      <4>2. n = "S" /\ m = "S"
        BY ZenonT(60), <4>1, <3>3, <3>4, LocksExcludeNext
      <4> QED BY <4>2, <3>3
    <3> QED BY <3>3, <3>5, <3>6
  <2> QED BY <2>3, <2>4, <2>5
<1> QED BY <1>3, <1>4 DEF HNext

\* A set that blocks itself after the step, without the thread that steps,
\* blocked itself before it.
LEMMA StillSerializable ==
    ASSUME NEW B \in SUBSET (Txn \X Txn), NEW B2 \in SUBSET (Txn \X Txn), NEW t \in Txn,
           ~\E D \in SUBSET Txn : D # {} /\ \A x \in D : \E y \in D : <<y, x>> \in B,
           \A u, v \in Txn : <<u, v>> \in B2 => <<u, v>> \in B \/ (v = t /\ u # t),
           (\A u, v \in Txn : <<u, v>> \in B2 => <<u, v>> \in B) \/ \A v \in Txn : <<t, v>> \notin B2
    PROVE  ~\E D \in SUBSET Txn : D # {} /\ \A x \in D : \E y \in D : <<y, x>> \in B2
<1> SUFFICES ASSUME NEW D \in SUBSET Txn, D # {}, \A x \in D : \E y \in D : <<y, x>> \in B2
             PROVE  FALSE
  BY ZenonT(60)
<1>1. CASE \A u, v \in Txn : <<u, v>> \in B2 => <<u, v>> \in B
  BY <1>1
<1>2. CASE \A v \in Txn : <<t, v>> \notin B2
  <2> DEFINE E == D \ {t}
  <2>1. E \in SUBSET Txn
    OBVIOUS
  <2>2. E # {}
    <3>1. PICK x \in D : TRUE
      OBVIOUS
    <3>2. PICK y \in D : <<y, x>> \in B2
      BY ZenonT(60), <3>1
    <3> QED BY <1>2, <3>2
  <2>3. \A x \in E : \E y \in E : <<y, x>> \in B
    <3> SUFFICES ASSUME NEW x \in E PROVE \E y \in E : <<y, x>> \in B
      OBVIOUS
    <3>1. PICK y \in D : <<y, x>> \in B2
      BY ZenonT(60)
    <3>2. y # t /\ <<y, x>> \in B
      BY <1>2, <3>1
    <3> QED BY <3>2
  <2> HIDE DEF E
  <2> QED BY ZenonT(60), <2>1, <2>2, <2>3
<1> QED BY <1>1, <1>2

LEMMA NextHInv ==
    ASSUME NoUpgrade, HInv, [HNext]_hvars
    PROVE  HInv'
<1>1. CASE UNCHANGED hvars
  <2>1. IInv'
    BY <1>1, NextIInv DEF HInv, hvars
  <2>2. SameLocks
    BY <1>1, SameTable DEF hvars, vars
  <2>3. NotUpgrading' /\ SleeperGrows' /\ HTyped' /\ Over' /\ Serializable'
    BY ZenonT(60), <1>1 DEF HInv, hvars, vars, NotUpgrading, SleeperGrows, HTyped, Over, Serializable
  <2>4. Kept'
    BY ZenonT(60), <1>1, <2>2 DEF HInv, hvars, vars, Kept, SameLocks
  <2> QED BY <2>1, <2>3, <2>4 DEF HInv
<1>2. CASE HNext
  <2>1. Next
    BY <1>2 DEF HNext
  <2>2. IInv'
    BY <2>1, NextIInv DEF HInv
  <2>3. (\E t \in Txn : LockStep(t)) /\ NotUpgrading' /\ SleeperGrows'
    BY ZenonT(60), <2>1, NextLockStep DEF HInv
  <2>4. PICK t \in Txn : LockStep(t)
    BY <2>3
  <2>5. /\ HTyped' /\ Kept'
        /\ \A u, v \in Txn : <<u, v>> \in before' =>
             \/ <<u, v>> \in before
             \/ v = t /\ state'[t] = "GROWING" /\ u # t /\ state'[u] # "GROWING"
    BY ZenonT(60), <1>2, <2>2, <2>4, NewEdges
  <2>6. \A u \in Txn : state'[u] = "GROWING" => state[u] = "GROWING"
    BY <2>4 DEF LockStep
  <2>7. Over'
    BY <2>5, <2>6 DEF HInv, Over
  <2>8. Serializable'
    <3>1. before \in SUBSET (Txn \X Txn) /\ before' \in SUBSET (Txn \X Txn)
      BY <2>5 DEF HInv, HTyped
    <3>2. ~\E D \in SUBSET Txn : D # {} /\ \A x \in D : \E y \in D : <<y, x>> \in before
      BY DEF HInv, Serializable
    <3>3. \A u, v \in Txn : <<u, v>> \in before' => <<u, v>> \in before \/ (v = t /\ u # t)
      BY <2>5
    <3>4. (\A u, v \in Txn : <<u, v>> \in before' => <<u, v>> \in before)
          \/ \A v \in Txn : <<t, v>> \notin before'
      BY <2>5, <2>7 DEF Over
    <3>5. ~\E D \in SUBSET Txn : D # {} /\ \A x \in D : \E y \in D : <<y, x>> \in before'
      BY ZenonT(60), <3>1, <3>2, <3>3, <3>4, StillSerializable
    <3> QED BY <3>5 DEF Serializable
  <2> QED BY <2>2, <2>3, <2>5, <2>7, <2>8 DEF HInv
<1> QED BY <1>1, <1>2

LEMMA InitHInv == HInit => HInv
<1> SUFFICES ASSUME HInit PROVE HInv
  OBVIOUS
<1>1. IInv
  BY InitIInv DEF HInit
<1>2. NotUpgrading /\ SleeperGrows
  BY DEF HInit, Init, NotUpgrading, SleeperGrows, NotBlocked
<1>3. HTyped /\ Kept /\ Over /\ Serializable
  BY DEF HInit, HTyped, Kept, Over, Serializable
<1> QED BY <1>1, <1>2, <1>3 DEF HInv

\* Two-phase locking is conflict serializable: whatever any number of clients
\* lock, on any number of rids, strictly or not, the order in which
\* LockShared, LockExclusive and Unlock grant and release conflicting locks
\* orders the transactions, as long as nobody calls LockUpgrade.
THEOREM ConflictSerializable == NoUpgrade => (HSpec => []Serializable)
<1> SUFFICES ASSUME NoUpgrade PROVE HSpec => []Serializable
  OBVIOUS
<1>1. HInv /\ [HNext]_hvars => HInv'
  BY NextHInv
<1>2. HInv => Serializable
  BY DEF HInv
<1> QED BY <1>1, <1>2, InitHInv, PTL DEF HSpec
=============================================================================
