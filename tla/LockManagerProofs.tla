-------------------------- MODULE LockManagerProofs --------------------------
(***************************************************************************)
(* Lock compatibility of the lock manager, for any set of transactions and *)
(* rids, strict or not, with every lock operation in use.                  *)
(*                                                                         *)
(* The lemmas on lists say what each operation of the code does to one     *)
(* request list; the theorems only reason about the set of requests of a   *)
(* rid.                                                                    *)
(***************************************************************************)
EXTENDS LockManager, TLAPS

USE SMTT(20), ZenonT(20), SMTT(40)

-----------------------------------------------------------------------------
(* Request lists.                                                          *)

\* What a list and the set of its requests have to do with each other.
LEMMA ListTyping ==
    ASSUME NEW list \in Seq(Request)
    PROVE  /\ Len(list) \in Nat
           /\ DOMAIN list = 1..Len(list)
           /\ \A i \in 1..Len(list) :
                /\ list[i] \in Request
                /\ list[i].txn_id \in Txn
                /\ list[i].granted \in BOOLEAN
           /\ Range(list) = {list[i] : i \in 1..Len(list)}
<1>1. Len(list) \in Nat /\ DOMAIN list = 1..Len(list) /\ \A i \in 1..Len(list) : list[i] \in Request
  OBVIOUS
<1>2. \A q \in Request : /\ q.txn_id \in Txn
                         /\ q.granted \in BOOLEAN
  BY DEF Request
<1>3. Range(list) = {list[i] : i \in 1..Len(list)}
  BY <1>1 DEF Range
<1> QED BY <1>1, <1>2, <1>3

LEMMA RequestTyping ==
    ASSUME NEW t \in Txn, NEW m \in {"S", "X"}
    PROVE  /\ Pending(t, m) \in Request
           /\ Pending(t, m).txn_id = t
           /\ Pending(t, m).mode = m
           /\ ~Pending(t, m).granted
           /\ HeldReq(t, m) \in Request
           /\ HeldReq(t, m).txn_id = t
           /\ HeldReq(t, m).mode = m
           /\ HeldReq(t, m).granted
BY DEF Request, Pending, HeldReq

\* LockShared and LockExclusive queue a new request (push_back).
LEMMA AppendRequest ==
    ASSUME NEW list \in Seq(Request), Ordered(list), Distinct(list),
           NEW t \in Txn, NEW m \in {"S", "X"},
           \A q \in Range(list) : q.txn_id # t
    PROVE  LET new == Append(list, Pending(t, m))
           IN  /\ new \in Seq(Request) /\ Ordered(new) /\ Distinct(new)
               /\ Range(new) = Range(list) \cup {Pending(t, m)}
<1> DEFINE q == Pending(t, m)
           new == Append(list, q)
<1>1. q \in Request /\ q.txn_id = t /\ ~q.granted
  BY RequestTyping
<1> HIDE DEF q
<1>2. /\ new \in Seq(Request) /\ Len(new) = Len(list) + 1
      /\ \A i \in 1..Len(list) : new[i] = list[i]
      /\ new[Len(list) + 1] = q
  BY <1>1
<1> HIDE DEF new
<1>3. Len(list) \in Nat /\ \A i \in 1..Len(list) : list[i] \in Range(list)
  BY ListTyping
<1>4. Ordered(new)
  BY <1>1, <1>2, <1>3 DEF Ordered
<1>5. Distinct(new)
  BY <1>1, <1>2, <1>3 DEF Distinct
<1>6. Range(new) = Range(list) \cup {q}
  BY <1>2, <1>3, ListTyping
<1> QED BY <1>2, <1>4, <1>5, <1>6 DEF new, q

\* The grant after cond.wait: the request of t becomes granted, nothing else
\* changes, and compatibility is kept because the predicate held.
LEMMA GrantRequest ==
    ASSUME NEW list \in Seq(Request), Ordered(list), Distinct(list),
           NEW t \in Txn, NEW op \in {"S", "X", "U"},
           Pending(t, ModeOf(op)) \in Range(list),
           Ready(list, op, t)
    PROVE  LET new == Grant(list, t)
           IN  /\ new \in Seq(Request) /\ Ordered(new) /\ Distinct(new)
               /\ Range(new) = (Range(list) \ {Pending(t, ModeOf(op))})
                                    \cup {HeldReq(t, ModeOf(op))}
<1> DEFINE m == ModeOf(op)
           q0 == Pending(t, m)
           q1 == HeldReq(t, m)
           new == Grant(list, t)
<1>a. m \in {"S", "X"}
  BY DEF ModeOf
<1>b. q0 \in Request /\ q0.txn_id = t /\ q0.mode = m /\ ~q0.granted
  BY <1>a, RequestTyping
<1>c. q1 \in Request /\ q1.txn_id = t /\ q1.mode = m /\ q1.granted
  BY <1>a, RequestTyping
<1>d. HeldReq(t, q0.mode) = q1
  BY <1>b
<1>e. q0 \in Range(list)
  OBVIOUS
<1>1. m \in {"S", "X"} /\ q0 \in Range(list)
  BY <1>a, <1>e
<1>2. (op = "S" <=> m = "S") /\ (op # "S" <=> m = "X")
  BY DEF ModeOf
<1> SUFFICES /\ new \in Seq(Request) /\ Ordered(new) /\ Distinct(new)
             /\ Range(new) = (Range(list) \ {q0}) \cup {q1}
  OBVIOUS
<1> HIDE DEF m, q0, q1
<1>3. /\ Len(list) \in Nat
      /\ \A i \in 1..Len(list) : list[i] \in Request
      /\ Range(list) = {list[i] : i \in 1..Len(list)}
  BY ListTyping
<1>4. PICK k \in 1..Len(list) : list[k] = q0
  BY <1>1, <1>3
<1>5. \A i \in 1..Len(list) : list[i].txn_id = t <=> i = k
  BY <1>b, <1>4 DEF Distinct
<1>6. new = [i \in 1..Len(list) |-> IF i = k THEN q1 ELSE list[i]]
  BY <1>d, <1>4, <1>5 DEF Grant
<1> HIDE DEF new
<1>7. /\ new \in Seq(Request) /\ Len(new) = Len(list)
      /\ new[k] = q1
      /\ \A i \in 1..Len(list) : i # k => new[i] = list[i]
  BY <1>c, <1>3, <1>6
<1>8. Distinct(new)
  BY <1>b, <1>c, <1>4, <1>7 DEF Distinct
<1>9. Range(new) = (Range(list) \ {q0}) \cup {q1}
  <2>1. Range(new) = {new[i] : i \in 1..Len(list)}
    BY <1>7, ListTyping
  <2>2. \A i \in 1..Len(list) : i # k => list[i] # q0
    BY <1>b, <1>5
  <2> QED BY <2>1, <2>2, <1>3, <1>4, <1>7
<1>10. Ordered(new)
  <2>1. CASE op = "S"
    <3>1. \A j \in 1..(k - 1) : list[j].mode = "S" /\ list[j].granted
      BY <2>1, <1>5 DEF Ready, SharedReady, Own
    <3> QED BY <3>1, <2>1, <1>c, <1>2, <1>3, <1>4, <1>7 DEF Ordered
  <2>2. CASE op # "S"
    <3>1. k = 1
      BY <2>2, <1>3, <1>5 DEF Ready, FrontReady
    <3>2. \A j \in 1..Len(list) : ~list[j].granted
      BY <3>1, <2>2, <1>b, <1>2, <1>3, <1>4 DEF Ordered
    <3> QED BY <3>1, <3>2, <1>c, <1>3, <1>7 DEF Ordered
  <2> QED BY <2>1, <2>2
<1> QED BY <1>7, <1>8, <1>9, <1>10

\* LockUpgrade replaces the granted shared request of t by an exclusive one
\* that is not granted, at the end of the shared period t is in.
LEMMA MoveRequest ==
    ASSUME NEW list \in Seq(Request), Ordered(list), Distinct(list),
           NEW src \in 1..Len(list), NEW tgt \in 1..(Len(list) + 1),
           list[src].mode = "S",
           UpgradeTarget(list, src, tgt)
    PROVE  LET new == MoveToTarget(list, src, tgt)
           IN  /\ new \in Seq(Request) /\ Ordered(new) /\ Distinct(new)
               /\ Range(new) = (Range(list) \ {list[src]})
                                    \cup {Pending(list[src].txn_id, "X")}
<1> DEFINE q1 == Pending(list[src].txn_id, "X")
           new == MoveToTarget(list, src, tgt)
<1>1. /\ Len(list) \in Nat
      /\ \A i \in 1..Len(list) : list[i] \in Request
      /\ list[src].txn_id \in Txn
      /\ Range(list) = {list[i] : i \in 1..Len(list)}
  BY ListTyping
<1>2. q1 \in Request /\ q1.txn_id = list[src].txn_id /\ q1.mode = "X" /\ ~q1.granted
  BY <1>1, RequestTyping
<1> SUFFICES /\ new \in Seq(Request) /\ Ordered(new) /\ Distinct(new)
             /\ Range(new) = (Range(list) \ {list[src]}) \cup {q1}
  OBVIOUS
<1>3. src < tgt
  BY <1>1 DEF UpgradeTarget
<1>4. new = [k \in 1..Len(list) |->
                IF k < src \/ k >= tgt THEN list[k]
                ELSE IF k = tgt - 1 THEN q1 ELSE list[k + 1]]
  BY DEF MoveToTarget
<1> HIDE DEF q1, new
<1>5. /\ new \in Seq(Request) /\ Len(new) = Len(list)
      /\ new[tgt - 1] = q1
      /\ \A k \in 1..Len(list) : k < src \/ k >= tgt => new[k] = list[k]
      /\ \A k \in src..(tgt - 2) : new[k] = list[k + 1]
  <2>1. \A k \in 1..Len(list) :
            (IF k < src \/ k >= tgt THEN list[k]
             ELSE IF k = tgt - 1 THEN q1 ELSE list[k + 1]) \in Request
    BY <1>1, <1>2
  <2> QED BY <2>1, <1>1, <1>3, <1>4
<1>6. Distinct(new)
  BY <1>1, <1>2, <1>3, <1>5 DEF Distinct
<1>7. Range(new) = (Range(list) \ {list[src]}) \cup {q1}
  <2>1. Range(new) = {new[i] : i \in 1..Len(list)}
    BY ZenonT(60), <1>5, ListTyping
  <2>2. \A i \in 1..Len(list) : i # src => list[i] # list[src]
    BY <1>1 DEF Distinct
  <2>3. ASSUME NEW i \in 1..Len(list)
        PROVE  new[i] \in (Range(list) \ {list[src]}) \cup {q1}
    <3>1. CASE i < src \/ i >= tgt
      BY <3>1, <2>2, <1>1, <1>3, <1>5
    <3>2. CASE i = tgt - 1
      BY <3>2, <1>5
    <3>3. CASE i \in src..(tgt - 2)
      BY <3>3, <2>2, <1>1, <1>3, <1>5
    <3> QED BY <3>1, <3>2, <3>3, <1>1
  <2>4. ASSUME NEW i \in 1..Len(list), i # src
        PROVE  \E k \in 1..Len(list) : new[k] = list[i]
    <3>1. CASE i < src \/ i >= tgt
      BY <3>1, <1>5
    <3>2. CASE i > src /\ i < tgt
      <4>1. i - 1 \in src..(tgt - 2) /\ i - 1 \in 1..Len(list) /\ (i - 1) + 1 = i
        BY <3>2, <1>1
      <4> QED BY <4>1, <1>5
    <3> QED BY <3>1, <3>2, <2>4, <1>1
  <2>5. tgt - 1 \in 1..Len(list)
    BY <1>1, <1>3
  <2>6. \A x \in Range(new) : x \in (Range(list) \ {list[src]}) \cup {q1}
    BY ZenonT(60), <2>1, <2>3
  <2>7. q1 \in Range(new)
    BY <2>1, <2>5, <1>5
  <2>8. \A x \in Range(list) \ {list[src]} : x \in Range(new)
    <3>1. \A i \in 1..Len(list) : list[i] # list[src] => i # src
      OBVIOUS
    <3> QED BY ZenonT(60), <3>1, <2>1, <2>4, <1>1
  <2> QED BY ZenonT(60), <2>6, <2>7, <2>8
<1>8. Ordered(new)
  <2> SUFFICES ASSUME NEW j \in 1..Len(list), new[j].granted, NEW i \in 1..(j - 1)
               PROVE  new[j].mode = "S" /\ new[i].mode = "S" /\ new[i].granted
    BY <1>5 DEF Ordered
  <2>1. j # tgt - 1
    BY <1>2, <1>5
  <2>2. CASE j < src
    BY <2>2, <1>1, <1>5 DEF Ordered
  <2>3. CASE j \in src..(tgt - 2)
    <3>1. list[j + 1].granted /\ new[j] = list[j + 1] /\ j + 1 \in 1..Len(list)
      BY <2>3, <1>1, <1>5
    <3>2. CASE i < src
      BY <3>1, <3>2, <2>3, <1>1, <1>5 DEF Ordered
    <3>3. CASE i >= src
      <4>1. new[i] = list[i + 1] /\ i + 1 \in 1..((j + 1) - 1)
        BY <3>3, <2>3, <1>1, <1>5
      <4> QED BY <3>1, <4>1, <1>1 DEF Ordered
    <3> QED BY <3>2, <3>3, <1>1
  <2>4. CASE j >= tgt
    <3>1. list[j].granted /\ tgt \in 1..Len(list) /\ list[tgt].mode = "X"
      BY <2>4, <1>1, <1>5 DEF UpgradeTarget
    <3>2. src \in 1..(j - 1) /\ tgt \in 1..j
      BY <2>4, <1>1, <1>3
    <3> QED BY <3>1, <3>2, <1>1 DEF Ordered
  <2> QED BY <2>1, <2>2, <2>3, <2>4, <1>1
<1> QED BY <1>5, <1>6, <1>7, <1>8

LEMMA Joined ==
    ASSUME NEW S, NEW a \in Seq(S), NEW b \in Seq(S)
    PROVE  /\ a \o b \in Seq(S) /\ Len(a \o b) = Len(a) + Len(b)
           /\ \A k \in 1..(Len(a) + Len(b)) :
                 (a \o b)[k] = IF k <= Len(a) THEN a[k] ELSE b[k - Len(a)]
<1>1. a \o b \in Seq(S)
  OBVIOUS
<1>2. Len(a \o b) = Len(a) + Len(b)
  OBVIOUS
<1>3. \A k \in 1..(Len(a) + Len(b)) : (a \o b)[k] = IF k <= Len(a) THEN a[k] ELSE b[k - Len(a)]
  OBVIOUS
<1> QED BY <1>1, <1>2, <1>3

\* Unlock erases one request.
LEMMA EraseRequest ==
    ASSUME NEW list \in Seq(Request), Ordered(list), Distinct(list),
           NEW e \in 1..Len(list)
    PROVE  LET new == EraseAt(list, e)
           IN  /\ new \in Seq(Request) /\ Ordered(new) /\ Distinct(new)
               /\ Len(new) = Len(list) - 1
               /\ \A k \in 1..(Len(list) - 1) :
                        new[k] = IF k < e THEN list[k] ELSE list[k + 1]
               /\ Range(new) = Range(list) \ {list[e]}
<1> DEFINE a == SubSeq(list, 1, e - 1)
           b == SubSeq(list, e + 1, Len(list))
           new == EraseAt(list, e)
<1>1. /\ Len(list) \in Nat
      /\ \A i \in 1..Len(list) : list[i] \in Request
      /\ Range(list) = {list[i] : i \in 1..Len(list)}
  BY ListTyping
<1>2. /\ a \in Seq(Request) /\ Len(a) = e - 1
      /\ \A k \in 1..(e - 1) : a[k] = list[k]
  BY <1>1
<1>3. /\ b \in Seq(Request) /\ Len(b) = Len(list) - e
      /\ \A k \in 1..(Len(list) - e) : b[k] = list[e + k]
  BY <1>1
<1>4. new = a \o b
  BY DEF EraseAt
<1> HIDE DEF a, b, new
<1>5. /\ new \in Seq(Request) /\ Len(new) = Len(list) - 1
      /\ \A k \in 1..(Len(list) - 1) :
            new[k] = IF k < e THEN list[k] ELSE list[k + 1]
  <2>1. /\ new \in Seq(Request) /\ Len(new) = Len(a) + Len(b)
        /\ \A k \in 1..(Len(a) + Len(b)) :
              new[k] = IF k <= Len(a) THEN a[k] ELSE b[k - Len(a)]
    BY ZenonT(60), <1>2, <1>3, <1>4, Joined
  <2>2. Len(a) + Len(b) = Len(list) - 1
    BY <1>1, <1>2, <1>3
  <2>3. ASSUME NEW k \in 1..(Len(list) - 1), k >= e
        PROVE  b[k - (e - 1)] = list[k + 1]
    <3>1. k - (e - 1) \in 1..(Len(list) - e) /\ e + (k - (e - 1)) = k + 1
      BY <2>3, <1>1
    <3> QED BY <3>1, <1>3
  <2> QED BY <2>1, <2>2, <2>3, <1>1, <1>2
<1>6. Ordered(new)
  <2> SUFFICES ASSUME NEW j \in 1..(Len(list) - 1), new[j].granted, NEW i \in 1..(j - 1)
               PROVE  new[j].mode = "S" /\ new[i].mode = "S" /\ new[i].granted
    BY <1>5 DEF Ordered
  <2>1. i \in 1..(Len(list) - 1)
    BY <1>1
  <2>2. PICK j1 \in 1..Len(list) : new[j] = list[j1] /\ j1 = IF j < e THEN j ELSE j + 1
    BY <1>1, <1>5
  <2>3. PICK i1 \in 1..Len(list) : new[i] = list[i1] /\ i1 = IF i < e THEN i ELSE i + 1
    BY <2>1, <1>1, <1>5
  <2>4. i1 \in 1..(j1 - 1)
    BY <2>2, <2>3, <1>1
  <2> QED BY <2>2, <2>3, <2>4 DEF Ordered
<1>7. Distinct(new)
  BY <1>1, <1>5 DEF Distinct
<1>8. Range(new) = Range(list) \ {list[e]}
  <2>1. Range(new) = {new[k] : k \in 1..(Len(list) - 1)}
    BY <1>5, ListTyping
  <2>2. \A i \in 1..Len(list) : i # e => list[i] # list[e]
    BY <1>1 DEF Distinct
  <2>3. ASSUME NEW k \in 1..(Len(list) - 1)
        PROVE  new[k] \in Range(list) \ {list[e]}
    <3>1. PICK i \in 1..Len(list) : i # e /\ new[k] = list[i]
      <4>1. CASE k < e
        BY <4>1, <1>1, <1>5
      <4>2. CASE ~(k < e)
        <5>1. k + 1 \in 1..Len(list) /\ k + 1 # e /\ new[k] = list[k + 1]
          BY <4>2, <1>1, <1>5
        <5> QED BY <5>1
      <4> QED BY <4>1, <4>2
    <3>2. list[i] \in Range(list)
      BY <3>1, <1>1, ListTyping
    <3>3. list[i] # list[e]
      BY <3>1, <2>2
    <3> QED BY <3>1, <3>2, <3>3
  <2>4. ASSUME NEW i \in 1..Len(list), i # e
        PROVE  \E k \in 1..(Len(list) - 1) : new[k] = list[i]
    <3>1. CASE i < e
      BY <3>1, <1>1, <1>5
    <3>2. CASE i > e
      <4>1. i - 1 \in 1..(Len(list) - 1) /\ ~(i - 1 < e) /\ (i - 1) + 1 = i
        BY <3>2, <1>1
      <4> QED BY <4>1, <1>5
    <3> QED BY <3>1, <3>2, <2>4, <1>1
  <2>5. Range(new) \subseteq Range(list) \ {list[e]}
    BY <2>1, <2>3, ZenonT(60)
  <2>6. ASSUME NEW x \in Range(list) \ {list[e]}
        PROVE  x \in Range(new)
    <3>1. Range(list) = {list[i] : i \in 1..Len(list)}
      BY <1>1, ListTyping
    <3>2. PICK i \in 1..Len(list) : x = list[i]
      BY <2>6, <3>1, ZenonT(60)
    <3>3. i # e
      BY <2>6, <3>2
    <3>4. PICK k \in 1..(Len(list) - 1) : new[k] = list[i]
      BY <2>4, <3>3, ZenonT(60)
    <3> QED BY <2>1, <3>2, <3>4, ZenonT(60)
  <2> QED BY <2>5, <2>6, ZenonT(60)
<1> QED BY <1>5, <1>6, <1>7, <1>8 DEF new

-----------------------------------------------------------------------------
(* The inductive invariant.  GrantOrder alone is not inductive: that a     *)
(* grant marks the request of the caller, and only that one, needs one     *)
(* request per transaction and rid, which needs that callers' lock sets    *)
(* and blocked calls account for every request.                            *)

IInv == TypeOK /\ GrantOrder /\ RequestsOwned /\ BlockedQueued /\ LockSetsBacked

LEMMA InitIInv == Init => IInv
<1> SUFFICES ASSUME Init PROVE IInv
  OBVIOUS
<1>1. \A r \in Rid : lock_table[r] = [exclusive_cnt |-> 0, oldest |-> NoTxn, list |-> <<>>]
  BY DEF Init
<1>2. \A r \in Rid : lock_table[r].list = <<>> /\ Requests(r) = {}
  BY <1>1 DEF Requests, Range
<1>3. TypeOK
  <2>1. [exclusive_cnt |-> 0, oldest |-> NoTxn, list |-> <<>>] \in Waiting
    BY CntModAssumption DEF Waiting
  <2> QED BY <2>1 DEF Init, TypeOK, NotBlocked
<1>4. GrantOrder /\ RequestsOwned
  BY <1>2 DEF GrantOrder, RequestsOwned, Ordered, Distinct
<1>5. BlockedQueued /\ LockSetsBacked
  BY DEF Init, BlockedQueued, LockSetsBacked
<1> QED BY <1>3, <1>4, <1>5 DEF IInv

\* A request of a list is determined by its transaction.
LEMMA DistinctRequests ==
    ASSUME NEW list \in Seq(Request), Distinct(list)
    PROVE  \A p, q \in Range(list) :
                p \in Request /\ q \in Request /\ (p.txn_id = q.txn_id => p = q)
BY ListTyping DEF Distinct

\* A step replaced the request of t on r by q (or added it, if t had none).
Replaced(t, r, q) ==
    /\ \A s \in Rid : Distinct(lock_table'[s].list)
    /\ \A s \in Rid \ {r} : Requests(s)' = Requests(s)
    /\ \A p \in Requests(r)' : p \in Request
    /\ \A p \in Request :
            p \in Requests(r)' <=> (p = q \/ (p.txn_id # t /\ p \in Requests(r)))

LEMMA ReplaceList ==
    ASSUME TypeOK, GrantOrder, RequestsOwned,
           NEW t \in Txn, NEW r \in Rid, NEW w \in Waiting, NEW q \in Request,
           Ordered(w.list), Distinct(w.list),
           lock_table' = [lock_table EXCEPT ![r] = w],
           \A p \in Request :
               p \in Range(w.list) <=> (p = q \/ (p.txn_id # t /\ p \in Requests(r)))
    PROVE  GrantOrder' /\ Replaced(t, r, q)
<1>1. lock_table'[r] = w /\ \A s \in Rid \ {r} : lock_table'[s] = lock_table[s]
  BY DEF TypeOK
<1>2. \A p \in Range(w.list) : p \in Request
  BY ListTyping DEF Waiting
<1>3. GrantOrder'
  BY <1>1 DEF GrantOrder
<1>4. \A s \in Rid : Distinct(lock_table'[s].list)
  BY <1>1 DEF RequestsOwned
<1>5. \A s \in Rid \ {r} : Requests(s)' = Requests(s)
  BY <1>1 DEF Requests
<1>6. Requests(r)' = Range(w.list)
  BY <1>1 DEF Requests
<1> QED BY <1>2, <1>3, <1>4, <1>5, <1>6 DEF Replaced

\* The locks and the blocked calls of the others do not change.
LEMMA ReplacedHolds ==
    ASSUME TypeOK, NEW t \in Txn, NEW r \in Rid, NEW q \in Request, q.txn_id = t,
           Replaced(t, r, q)
    PROVE  \A u \in Txn, s \in Rid, m \in {"S", "X"} :
                u # t \/ s # r => (Holds(u, s, m)' <=> Holds(u, s, m))
<1> SUFFICES ASSUME NEW u \in Txn, NEW s \in Rid, NEW m \in {"S", "X"}, u # t \/ s # r
             PROVE  (Holds(u, s, m)' <=> Holds(u, s, m))
  OBVIOUS
<1> DEFINE p == HeldReq(u, m)
<1>1. p \in Request /\ p.txn_id = u
  BY RequestTyping
<1> HIDE DEF p
<1>2. p \in Requests(s)' <=> p \in Requests(s)
  BY <1>1 DEF Replaced
<1> QED BY <1>2 DEF Holds, p

LEMMA ReplacedBlocked ==
    ASSUME TypeOK, BlockedQueued,
           NEW t \in Txn, NEW r \in Rid, NEW q \in Request, q.txn_id = t,
           Replaced(t, r, q),
           \A u \in Txn \ {t} : call'[u] = call[u],
           (call[t] # NotBlocked =>
                Pending(t, ModeOf(call[t].op)) \in Requests(call[t].rid))'
    PROVE  BlockedQueued'
<1> SUFFICES ASSUME NEW u \in Txn, u # t, (call[u] # NotBlocked)'
             PROVE  (Pending(u, ModeOf(call[u].op)) \in Requests(call[u].rid))'
  BY DEF BlockedQueued
<1>1. PICK c \in BlockedCall : c = call[u] /\ c = call'[u]
  BY DEF TypeOK
<1> DEFINE p == Pending(u, ModeOf(c.op))
<1>2. c.rid \in Rid /\ ModeOf(c.op) \in {"S", "X"}
  BY DEF BlockedCall, ModeOf
<1>3. p \in Request /\ p.txn_id = u
  BY <1>2, RequestTyping
<1>4. p \in Requests(c.rid)
  BY <1>1 DEF BlockedQueued
<1> HIDE DEF p
<1>5. p \in Requests(c.rid)'
  BY <1>2, <1>3, <1>4 DEF Replaced
<1> QED BY <1>1, <1>5 DEF p

\* The shared tail of the lock calls keeps the invariant when the entry it is
\* given differs from the table only in the request of the caller.
LEMMA WaitThenGrantIInv ==
    ASSUME IInv,
           NEW t \in Txn, NEW r \in Rid, NEW op \in {"S", "X", "U"}, NEW w \in Waiting,
           call[t] \in {NotBlocked, [op |-> op, rid |-> r]},
           state[t] = "GROWING" => r \notin exclusive[t] /\ (r \in shared[t] => op = "U"),
           Ordered(w.list), Distinct(w.list),
           Pending(t, ModeOf(op)) \in Range(w.list),
           \A q \in Request : q.txn_id # t => (q \in Range(w.list) <=> q \in Requests(r)),
           WaitThenGrant(t, r, op, w)
    PROVE  IInv'
<1> DEFINE m == ModeOf(op)
           q0 == Pending(t, m)
           q1 == HeldReq(t, m)
<1>1. m \in {"S", "X"} /\ (m = "S" <=> op = "S")
  BY DEF ModeOf
<1>2. q0 \in Request /\ q0.txn_id = t /\ q0.mode = m /\ ~q0.granted
  BY <1>1, RequestTyping
<1>3. q1 \in Request /\ q1.txn_id = t /\ q1.mode = m /\ q1.granted
  BY <1>1, RequestTyping
<1>4. q0 \in Range(w.list)
  OBVIOUS
<1>5. w.list \in Seq(Request)
  BY DEF Waiting
<1> HIDE DEF m, q0, q1
<1>6. \A q \in Range(w.list) : q \in Request /\ (q.txn_id = t => q = q0)
  BY <1>2, <1>4, <1>5, DistinctRequests
<1>7. TypeOK /\ GrantOrder /\ RequestsOwned /\ BlockedQueued /\ LockSetsBacked
  BY DEF IInv
<1>8. CASE Ready(w.list, op, t) /\ Granted(t, r, op, w)
  <2> DEFINE g == Grant(w.list, t)
             w1 == [w EXCEPT !.list = g]
  <2>1. g \in Seq(Request) /\ Ordered(g) /\ Distinct(g) /\ Range(g) = (Range(w.list) \ {q0}) \cup {q1}
    BY <1>5, <1>8, GrantRequest DEF q0, q1, m
  <2> HIDE DEF g
  <2>2. w1 \in Waiting /\ w1.list = g
    BY <2>1 DEF Waiting
  <2>3. lock_table' = [lock_table EXCEPT ![r] = w1]
    BY <1>8 DEF Granted, g
  <2> HIDE DEF w1
  <2>4. \A q \in Request : q \in Range(w1.list) <=> (q = q1 \/ (q.txn_id # t /\ q \in Requests(r)))
    BY <2>1, <2>2, <1>2, <1>3, <1>6
  <2>a. Ordered(w1.list) /\ Distinct(w1.list)
    BY <2>1, <2>2
  <2>5. GrantOrder' /\ Replaced(t, r, q1)
    BY ZenonT(60), <2>a, <2>2, <2>3, <2>4, <1>3, <1>7, ReplaceList
  <2>6. TypeOK'
    <3>1. /\ shared' = [shared EXCEPT ![t] = IF op = "S" THEN @ \cup {r} ELSE @ \ {r}]
          /\ exclusive' = [exclusive EXCEPT ![t] = IF op = "S" THEN @ ELSE @ \cup {r}]
          /\ call' = [call EXCEPT ![t] = NotBlocked]
          /\ notified' = (IF op = "S" THEN Sleepers ELSE notified) \ {t}
          /\ ret' = [ret EXCEPT ![t] = "true"]
          /\ state' = state
      BY <1>8 DEF Granted
    <3> QED BY <3>1, <2>2, <2>3, <1>7 DEF TypeOK, Sleepers
  <2>7. RequestsOwned'
    BY <2>5, <1>1, <1>3, <1>7, <1>8 DEF Replaced, RequestsOwned, Granted, TypeOK
  <2>8. BlockedQueued'
    BY <2>5, <1>3, <1>7, <1>8, ReplacedBlocked DEF Granted, TypeOK
  <2>9. LockSetsBacked'
    <3>1. Holds(t, r, m)'
      BY <2>5, <1>3 DEF Replaced, Holds, q1
    <3> QED BY <3>1, <2>5, <1>1, <1>3, <1>7, <1>8, ReplacedHolds
            DEF LockSetsBacked, Granted, TypeOK
  <2> QED BY <2>5, <2>6, <2>7, <2>8, <2>9 DEF IInv
<1>9. CASE ~Ready(w.list, op, t) /\ Sleep(t, r, op, w)
  <2>1. lock_table' = [lock_table EXCEPT ![r] = w]
    BY <1>9 DEF Sleep
  <2>2. \A q \in Request : q \in Range(w.list) <=> (q = q0 \/ (q.txn_id # t /\ q \in Requests(r)))
    BY <1>2, <1>4, <1>6
  <2>3. GrantOrder' /\ Replaced(t, r, q0)
    BY ZenonT(60), <2>1, <2>2, <1>2, <1>5, <1>7, ReplaceList
  <2>4. TypeOK'
    BY <2>1, <1>7, <1>9 DEF TypeOK, Sleep, BlockedCall, NotBlocked
  <2>5. RequestsOwned'
    BY <2>3, <1>2, <1>7, <1>9 DEF Replaced, RequestsOwned, Sleep, TypeOK, NotBlocked
  <2>6. BlockedQueued'
    <3>1. q0 \in Requests(r)'
      BY <2>3, <1>2 DEF Replaced
    <3>2. call' = [call EXCEPT ![t] = [op |-> op, rid |-> r]]
      BY <1>9 DEF Sleep
    <3>3. call'[t].op = op /\ call'[t].rid = r /\ \A u \in Txn \ {t} : call'[u] = call[u]
      BY <3>2, <1>7 DEF TypeOK
    <3>4. (Pending(t, ModeOf(call[t].op)) \in Requests(call[t].rid))'
      BY <3>1, <3>3 DEF q0, m
    <3> QED BY <3>3, <3>4, <2>3, <1>2, <1>7, ReplacedBlocked
  <2>7. LockSetsBacked'
    <3>1. call'[t] = [op |-> op, rid |-> r] /\ \A u \in Txn \ {t} : call'[u] = call[u]
      BY <1>7, <1>9 DEF Sleep, TypeOK
    <3>2. UNCHANGED <<state, shared, exclusive>>
      BY <1>9 DEF Sleep
    <3>3. \A u \in Txn, s \in Rid, k \in {"S", "X"} :
                u # t \/ s # r => (Holds(u, s, k)' <=> Holds(u, s, k))
      BY <2>3, <1>2, <1>7, ReplacedHolds
    <3>4. \A s \in Rid \ {r} : call[t] # [op |-> "U", rid |-> s]
      BY DEF NotBlocked
    <3>5. ASSUME NEW u \in Txn, state'[u] = "GROWING", NEW s \in exclusive'[u]
          PROVE  Holds(u, s, "X")'
      BY <3>2, <3>3, <3>5, <1>7 DEF LockSetsBacked, TypeOK
    <3>6. ASSUME NEW u \in Txn, state'[u] = "GROWING", NEW s \in shared'[u]
          PROVE  Holds(u, s, "S")' \/ call'[u] = [op |-> "U", rid |-> s]
      <4>1. CASE u = t /\ s = r
        BY <4>1, <3>1, <3>2, <3>6
      <4>2. CASE ~(u = t /\ s = r)
        BY <4>2, <3>1, <3>2, <3>3, <3>4, <3>6, <1>7 DEF LockSetsBacked, TypeOK
      <4> QED BY <4>1, <4>2
    <3> QED BY <3>5, <3>6 DEF LockSetsBacked
  <2> QED BY <2>3, <2>4, <2>5, <2>6, <2>7 DEF IInv
<1> QED BY <1>8, <1>9 DEF WaitThenGrant

\* A transaction has nothing queued on a rid it has neither locked nor waits for.
LEMMA NothingQueued ==
    ASSUME IInv, NEW t \in Txn, NEW r \in Rid,
           call[t] = NotBlocked, r \notin shared[t] \cup exclusive[t]
    PROVE  \A q \in Requests(r) : q.txn_id # t
BY DEF IInv, RequestsOwned

\* The lock sets of a growing transaction and its requests on r.
LEMMA HoldsIsRequest ==
    ASSUME IInv, NEW t \in Txn, NEW r \in Rid, NEW q \in Requests(r), q.txn_id = t,
           state[t] = "GROWING"
    PROVE  /\ r \in exclusive[t] => q.granted /\ q.mode = "X"
           /\ r \in shared[t] => (q.granted /\ q.mode = "S") \/ call[t] = [op |-> "U", rid |-> r]
<1>1. /\ lock_table[r].list \in Seq(Request)
      /\ Distinct(lock_table[r].list)
  BY DEF IInv, TypeOK, Waiting, RequestsOwned
<1>2. \A p \in Requests(r) : p.txn_id = t => p = q
  BY <1>1, DistinctRequests DEF Requests
<1>3. \A m \in {"S", "X"} : Holds(t, r, m) => q.granted /\ q.mode = m
  BY <1>2, RequestTyping DEF Holds
<1> QED BY <1>3 DEF IInv, LockSetsBacked

\* The updates of an entry keep its type.
LEMMA EntryTyping ==
    ASSUME NEW w \in Waiting, NEW t \in Txn, NEW l \in Seq(Request),
           NEW c \in 0..(CntMod - 1)
    PROVE  /\ [w EXCEPT !.oldest = IF @ = NoTxn \/ @ > t THEN t ELSE @, !.list = l] \in Waiting
           /\ [w EXCEPT !.oldest = t, !.exclusive_cnt = c, !.list = l] \in Waiting
           /\ [w EXCEPT !.exclusive_cnt = c, !.list = l] \in Waiting
<1> DEFINE o == IF w.oldest = NoTxn \/ w.oldest > t THEN t ELSE w.oldest
<1>1. o \in Txn \cup {NoTxn}
  BY DEF Waiting
<1> HIDE DEF o
<1>2. [w EXCEPT !.oldest = o, !.list = l] \in Waiting
  BY ZenonT(60), <1>1 DEF Waiting
<1>3. [w EXCEPT !.oldest = t, !.exclusive_cnt = c, !.list = l] \in Waiting
  BY ZenonT(60) DEF Waiting
<1>4. [w EXCEPT !.exclusive_cnt = c, !.list = l] \in Waiting
  BY ZenonT(60) DEF Waiting
<1> QED BY <1>2, <1>3, <1>4 DEF o

\* Calls that return false without touching the table.
LEMMA RefuseIInv ==
    ASSUME IInv, NEW t \in Txn, Refuse(t)
    PROVE  IInv'
<1>1. UNCHANGED <<lock_table, state, shared, exclusive, call, notified>>
  BY DEF Refuse
<1>2. TypeOK'
  BY <1>1 DEF IInv, TypeOK, Refuse
<1>3. GrantOrder' /\ RequestsOwned' /\ BlockedQueued' /\ LockSetsBacked'
  BY <1>1 DEF IInv, GrantOrder, RequestsOwned, BlockedQueued, LockSetsBacked, Requests, Holds
<1> QED BY <1>2, <1>3 DEF IInv

LEMMA DieIInv ==
    ASSUME IInv, NEW t \in Txn, Die(t)
    PROVE  IInv'
<1>1. UNCHANGED <<lock_table, shared, exclusive, call, notified>>
  BY DEF Die
<1>2. TypeOK'
  BY <1>1 DEF IInv, TypeOK, Die
<1>3. GrantOrder' /\ RequestsOwned' /\ BlockedQueued'
  BY <1>1 DEF IInv, GrantOrder, RequestsOwned, BlockedQueued, Requests
<1>4. LockSetsBacked'
  BY <1>1 DEF IInv, LockSetsBacked, Requests, Holds, Die, TypeOK
<1> QED BY <1>2, <1>3, <1>4 DEF IInv

\* LockShared and LockExclusive: a new request at the end of the list.
LEMMA QueueIInv ==
    ASSUME IInv, NEW t \in Txn, NEW r \in Rid, NEW op \in {"S", "X"}, NEW w \in Waiting,
           call[t] = NotBlocked, r \notin shared[t] \cup exclusive[t],
           w.list = Append(lock_table[r].list, Pending(t, op)),
           WaitThenGrant(t, r, op, w)
    PROVE  IInv'
<1> DEFINE old == lock_table[r].list
<1>1. old \in Seq(Request) /\ Ordered(old) /\ Distinct(old)
  BY DEF IInv, TypeOK, Waiting, GrantOrder, RequestsOwned
<1>2. \A q \in Range(old) : q.txn_id # t
  BY NothingQueued DEF Requests
<1>3. /\ Ordered(w.list) /\ Distinct(w.list)
      /\ Range(w.list) = Range(old) \cup {Pending(t, op)}
  BY <1>1, <1>2, AppendRequest
<1>4. \A q \in Request : q.txn_id # t => (q \in Range(w.list) <=> q \in Requests(r))
  BY <1>3, RequestTyping DEF Requests
<1>5. Pending(t, ModeOf(op)) \in Range(w.list)
  BY <1>3 DEF ModeOf
<1>6. op \in {"S", "X", "U"} /\ call[t] \in {NotBlocked, [op |-> op, rid |-> r]}
  OBVIOUS
<1>7. r \notin exclusive[t] /\ r \notin shared[t]
  OBVIOUS
<1>8. CASE op = "S"
  BY ZenonT(60), <1>3, <1>4, <1>5, <1>6, <1>7, <1>8, WaitThenGrantIInv
<1>9. CASE op = "X"
  BY ZenonT(60), <1>3, <1>4, <1>5, <1>6, <1>7, <1>9, WaitThenGrantIInv
<1> QED BY <1>8, <1>9

LEMMA LockSharedIInv ==
    ASSUME IInv, NEW t \in Txn, NEW r \in Rid, LockShared(t, r)
    PROVE  IInv'
<1> DEFINE w == [lock_table[r] EXCEPT
                    !.oldest = IF @ = NoTxn \/ @ > t THEN t ELSE @,
                    !.list = Append(@, Pending(t, "S"))]
<1>1. call[t] = NotBlocked /\ r \notin shared[t] \cup exclusive[t]
  BY DEF LockShared, Callable
<1>2. CASE Refuse(t)
  BY <1>2, RefuseIInv
<1>3. CASE Die(t)
  BY <1>3, <1>1, DieIInv
<1>4. CASE WaitThenGrant(t, r, "S", w)
  <2>1. w.list = Append(lock_table[r].list, Pending(t, "S"))
    BY DEF IInv, TypeOK, Waiting
  <2>2. Append(lock_table[r].list, Pending(t, "S")) \in Seq(Request)
    BY RequestTyping DEF IInv, TypeOK, Waiting
  <2>3. w \in Waiting
    <3>1. 0 \in 0..(CntMod - 1) /\ lock_table[r] \in Waiting
      BY CntModAssumption DEF IInv, TypeOK
    <3> QED BY ZenonT(60), <3>1, <2>2, EntryTyping
  <2> HIDE DEF w
  <2> QED BY <2>1, <2>3, <1>1, <1>4, QueueIInv
<1> QED BY <1>2, <1>3, <1>4 DEF LockShared

LEMMA LockExclusiveIInv ==
    ASSUME IInv, NEW t \in Txn, NEW r \in Rid, LockExclusive(t, r)
    PROVE  IInv'
<1> DEFINE w == [lock_table[r] EXCEPT
                    !.oldest = t,
                    !.exclusive_cnt = (@ + 1) % CntMod,
                    !.list = Append(@, Pending(t, "X"))]
<1>1. call[t] = NotBlocked /\ r \notin shared[t] \cup exclusive[t]
  BY DEF LockExclusive, Callable
<1>2. CASE Refuse(t)
  BY <1>2, RefuseIInv
<1>3. CASE Die(t)
  BY <1>3, <1>1, DieIInv
<1>4. CASE WaitThenGrant(t, r, "X", w)
  <2>1. (lock_table[r].exclusive_cnt + 1) % CntMod \in 0..(CntMod - 1)
    BY CntModAssumption DEF IInv, TypeOK, Waiting
  <2>2. w.list = Append(lock_table[r].list, Pending(t, "X"))
    BY DEF IInv, TypeOK, Waiting
  <2>3. Append(lock_table[r].list, Pending(t, "X")) \in Seq(Request)
    BY RequestTyping DEF IInv, TypeOK, Waiting
  <2>4. w \in Waiting
    BY ZenonT(60), <2>1, <2>3, EntryTyping DEF IInv, TypeOK
  <2> HIDE DEF w
  <2> QED BY <2>2, <2>4, <1>1, <1>4, QueueIInv
<1> QED BY <1>2, <1>3, <1>4 DEF LockExclusive

LEMMA LockUpgradeIInv ==
    ASSUME IInv, NEW t \in Txn, NEW r \in Rid, LockUpgrade(t, r)
    PROVE  IInv'
<1> DEFINE w == lock_table[r]
<1>1. call[t] = NotBlocked /\ r \in shared[t]
  BY DEF LockUpgrade, Callable
<1>2. CASE Refuse(t)
  BY <1>2, RefuseIInv
<1>3. ASSUME state[t] = "GROWING",
             NEW src \in Own(w.list, t), NEW tgt \in 1..(Len(w.list) + 1),
             UpgradeTarget(w.list, src, tgt),
             WaitThenGrant(t, r, "U", [w EXCEPT !.list = MoveToTarget(@, src, tgt)])
      PROVE  IInv'
  <2> DEFINE l == MoveToTarget(w.list, src, tgt)
             w1 == [w EXCEPT !.list = l]
  <2>1. w.list \in Seq(Request) /\ Ordered(w.list) /\ Distinct(w.list)
    BY DEF IInv, TypeOK, Waiting, GrantOrder, RequestsOwned
  <2>2. src \in 1..Len(w.list) /\ w.list[src].txn_id = t /\ w.list[src] \in Requests(r)
    BY <2>1, ListTyping DEF Own, Requests
  <2>3. w.list[src].mode = "S" /\ r \notin exclusive[t]
    <3>1. call[t] # [op |-> "U", rid |-> r]
      BY <1>1 DEF NotBlocked
    <3>2. "S" # "X"
      OBVIOUS
    <3> QED BY ZenonT(60), <3>1, <3>2, <1>1, <1>3, <2>2, HoldsIsRequest
  <2>4. /\ l \in Seq(Request) /\ Ordered(l) /\ Distinct(l)
        /\ Range(l) = (Range(w.list) \ {w.list[src]}) \cup {Pending(t, "X")}
    BY <1>3, <2>1, <2>2, <2>3, MoveRequest
  <2> HIDE DEF l
  <2>5. w1 \in Waiting /\ w1.list = l
    BY ZenonT(60), <2>4 DEF IInv, TypeOK, Waiting
  <2>6. \A q \in Request : q.txn_id # t => (q \in Range(w1.list) <=> q \in Requests(r))
    BY <2>2, <2>4, <2>5, RequestTyping DEF Requests
  <2>7. Pending(t, ModeOf("U")) \in Range(w1.list)
    BY <2>4, <2>5 DEF ModeOf
  <2>8. WaitThenGrant(t, r, "U", w1)
    BY <1>3 DEF l
  <2> HIDE DEF w1
  <2> QED BY <1>1, <2>3, <2>4, <2>5, <2>6, <2>7, <2>8, WaitThenGrantIInv
<1> QED BY ZenonT(60), <1>2, <1>3 DEF LockUpgrade

LEMMA WakeIInv ==
    ASSUME IInv, NEW t \in Txn, Wake(t)
    PROVE  IInv'
<1>1. PICK c \in BlockedCall : call[t] = c
  BY DEF Wake, IInv, TypeOK
<1> DEFINE r == c.rid
           op == c.op
           w == lock_table[r]
<1>2. r \in Rid /\ op \in {"S", "X", "U"} /\ c = [op |-> op, rid |-> r]
  BY DEF BlockedCall
<1>3. c # NotBlocked
  BY <1>2 DEF NotBlocked
<1> HIDE DEF r, op
<1>4. WaitThenGrant(t, r, op, w)
  BY <1>1 DEF Wake, r, op
<1>5. w \in Waiting /\ Ordered(w.list) /\ Distinct(w.list)
  BY <1>2 DEF IInv, TypeOK, GrantOrder, RequestsOwned
<1>6. Pending(t, ModeOf(op)) \in Range(w.list)
  BY <1>1, <1>3 DEF IInv, BlockedQueued, Requests, r, op
<1>7. \A q \in Request : q.txn_id # t => (q \in Range(w.list) <=> q \in Requests(r))
  BY DEF Requests
<1>8. state[t] = "GROWING" => r \notin exclusive[t] /\ (r \in shared[t] => op = "U")
  <2>1. ModeOf(op) \in {"S", "X"}
    BY DEF ModeOf
  <2>2. Pending(t, ModeOf(op)) \in Requests(r) /\ Pending(t, ModeOf(op)).txn_id = t
        /\ ~Pending(t, ModeOf(op)).granted
    BY <2>1, <1>6, RequestTyping DEF Requests
  <2>3. call[t] = [op |-> "U", rid |-> r] => op = "U"
    BY <1>1, <1>2
  <2> QED BY <2>2, <2>3, <1>2, HoldsIsRequest
<1>9. call[t] \in {NotBlocked, [op |-> op, rid |-> r]}
  BY <1>1, <1>2
<1> HIDE DEF w
<1> QED BY <1>2, <1>4, <1>5, <1>6, <1>7, <1>8, <1>9, WaitThenGrantIInv

LEMMA SpuriousWakeupIInv ==
    ASSUME IInv, NEW t \in Txn, SpuriousWakeup(t)
    PROVE  IInv'
<1>1. UNCHANGED <<lock_table, state, shared, exclusive, call, ret>>
  BY DEF SpuriousWakeup
<1>2. TypeOK'
  BY <1>1 DEF IInv, TypeOK, SpuriousWakeup
<1>3. GrantOrder' /\ RequestsOwned' /\ BlockedQueued' /\ LockSetsBacked'
  BY <1>1 DEF IInv, GrantOrder, RequestsOwned, BlockedQueued, LockSetsBacked, Requests, Holds
<1> QED BY <1>2, <1>3 DEF IInv

LEMMA EndTransactionIInv ==
    ASSUME IInv, NEW t \in Txn, NEW s \in {"COMMITTED", "ABORTED"}, EndTransaction(t, s)
    PROVE  IInv'
<1>1. UNCHANGED <<lock_table, shared, exclusive, call, notified, ret>>
  BY DEF EndTransaction
<1>2. TypeOK'
  BY <1>1 DEF IInv, TypeOK, EndTransaction
<1>3. GrantOrder' /\ RequestsOwned' /\ BlockedQueued'
  BY <1>1 DEF IInv, GrantOrder, RequestsOwned, BlockedQueued, Requests
<1>4. LockSetsBacked'
  BY <1>1 DEF IInv, LockSetsBacked, Requests, Holds, EndTransaction, TypeOK
<1> QED BY <1>2, <1>3, <1>4 DEF IInv

\* Unlock, the refusal of a strict manager included.
LEMMA UnlockIInv ==
    ASSUME IInv, NEW t \in Txn, NEW r \in Rid, Unlock(t, r)
    PROVE  IInv'
<1> DEFINE w == lock_table[r]
<1>1. /\ call[t] = NotBlocked
      /\ UNCHANGED <<shared, exclusive, call>>
      /\ state' \in [Txn -> {"GROWING", "SHRINKING", "COMMITTED", "ABORTED"}]
      /\ ret' \in [Txn -> {"none", "true", "false"}]
      /\ \A u \in Txn \ {t} : state'[u] = state[u]
      /\ state'[t] # "GROWING"
  BY StrictAssumption DEF Unlock, IInv, TypeOK
<1>2. CASE UNCHANGED <<lock_table, notified>>
  <2>1. TypeOK'
    BY <1>1, <1>2 DEF IInv, TypeOK
  <2>2. GrantOrder' /\ RequestsOwned' /\ BlockedQueued'
    BY <1>1, <1>2 DEF IInv, GrantOrder, RequestsOwned, BlockedQueued, Requests
  <2>3. LockSetsBacked'
    BY <1>1, <1>2 DEF IInv, LockSetsBacked, Requests, Holds
  <2> QED BY <2>1, <2>2, <2>3 DEF IInv
<1>3. ASSUME NEW e \in Own(w.list, t),
             lock_table' = [lock_table EXCEPT ![r] =
                    [w EXCEPT !.exclusive_cnt =
                                  IF w.list[e].mode = "X" THEN (@ - 1) % CntMod ELSE @,
                              !.list = EraseAt(@, e)]],
             notified' = IF e = 1 \/ w.list[e].mode = "X" THEN Sleepers ELSE notified
      PROVE  IInv'
  <2> DEFINE l == EraseAt(w.list, e)
             c == IF w.list[e].mode = "X" THEN (w.exclusive_cnt - 1) % CntMod ELSE w.exclusive_cnt
             w1 == [w EXCEPT !.exclusive_cnt = c, !.list = l]
  <2>1. w \in Waiting /\ w.list \in Seq(Request) /\ Ordered(w.list) /\ Distinct(w.list)
    BY DEF IInv, TypeOK, Waiting, GrantOrder, RequestsOwned
  <2>2. e \in 1..Len(w.list) /\ w.list[e].txn_id = t /\ w.list[e] \in Request /\ w.list[e] \in Range(w.list)
    BY <2>1, ListTyping DEF Own
  <2>3. l \in Seq(Request) /\ Ordered(l) /\ Distinct(l) /\ Range(l) = Range(w.list) \ {w.list[e]}
    BY <2>1, <2>2, EraseRequest
  <2>4. c \in 0..(CntMod - 1)
    BY <2>1, CntModAssumption DEF Waiting
  <2> HIDE DEF l, c
  <2>5. w1 \in Waiting /\ w1.list = l
    BY ZenonT(60), <2>1, <2>3, <2>4, EntryTyping DEF Waiting
  <2>6. lock_table' = [lock_table EXCEPT ![r] = w1]
    BY <1>3 DEF l, c
  <2> HIDE DEF w1
  <2>7. lock_table'[r] = w1 /\ \A s \in Rid \ {r} : lock_table'[s] = lock_table[s]
    BY <2>6 DEF IInv, TypeOK
  <2>8. \A s \in Rid \ {r} : Requests(s)' = Requests(s)
    BY <2>7 DEF Requests
  <2>9. \A q \in Requests(r)' : q \in Requests(r) /\ q.txn_id # t
    BY <2>1, <2>2, <2>3, <2>5, <2>7, DistinctRequests DEF Requests
  <2>10. \A q \in Requests(r) : q.txn_id # t => q \in Requests(r)'
    BY <2>2, <2>3, <2>5, <2>7 DEF Requests
  <2>11. TypeOK'
    BY <1>1, <1>3, <2>5, <2>6 DEF IInv, TypeOK, Sleepers
  <2>12. GrantOrder'
    BY <2>3, <2>5, <2>7 DEF IInv, GrantOrder
  <2>13. RequestsOwned'
    BY <1>1, <2>3, <2>5, <2>7, <2>8, <2>9 DEF IInv, RequestsOwned
  <2>14. BlockedQueued'
    <3> SUFFICES ASSUME NEW u \in Txn, call[u] # NotBlocked
                 PROVE  (Pending(u, ModeOf(call[u].op)) \in Requests(call[u].rid))'
      BY <1>1 DEF BlockedQueued
    <3>1. PICK d \in BlockedCall : d = call[u] /\ d = call'[u]
      BY <1>1 DEF IInv, TypeOK
    <3>2. u # t
      BY <1>1
    <3>3. d.rid \in Rid /\ Pending(u, ModeOf(d.op)).txn_id = u
      BY RequestTyping DEF BlockedCall, ModeOf
    <3>4. Pending(u, ModeOf(d.op)) \in Requests(d.rid)
      BY ZenonT(60), <3>1 DEF IInv, BlockedQueued
    <3>5. Pending(u, ModeOf(d.op)) \in Requests(d.rid)'
      BY <3>2, <3>3, <3>4, <2>8, <2>10
    <3> QED BY <3>1, <3>5
  <2>15. LockSetsBacked'
    <3>1. \A u \in Txn \ {t}, s \in Rid, m \in {"S", "X"} : Holds(u, s, m) => Holds(u, s, m)'
      BY <2>8, <2>10, RequestTyping DEF Holds
    <3> QED BY <3>1, <1>1 DEF IInv, LockSetsBacked, TypeOK
  <2> QED BY <2>11, <2>12, <2>13, <2>14, <2>15 DEF IInv
<1> QED BY ZenonT(60), <1>2, <1>3 DEF Unlock, Release

-----------------------------------------------------------------------------
LEMMA NextIInv == IInv /\ [Next]_vars => IInv'
<1> SUFFICES ASSUME IInv, [Next]_vars PROVE IInv'
  OBVIOUS
<1>1. ASSUME NEW t \in Txn, NEW r \in Rid, LockShared(t, r) PROVE IInv'
  BY <1>1, LockSharedIInv
<1>2. ASSUME NEW t \in Txn, NEW r \in Rid, LockExclusive(t, r) PROVE IInv'
  BY <1>2, LockExclusiveIInv
<1>3. ASSUME NEW t \in Txn, NEW r \in Rid, LockUpgrade(t, r) PROVE IInv'
  BY <1>3, LockUpgradeIInv
<1>4. ASSUME NEW t \in Txn, NEW r \in Rid, Unlock(t, r) PROVE IInv'
  BY <1>4, UnlockIInv
<1>5. ASSUME NEW t \in Txn, Wake(t) PROVE IInv'
  BY <1>5, WakeIInv
<1>6. ASSUME NEW t \in Txn, SpuriousWakeup(t) PROVE IInv'
  BY <1>6, SpuriousWakeupIInv
<1>7. ASSUME NEW t \in Txn, NEW s \in {"COMMITTED", "ABORTED"}, EndTransaction(t, s) PROVE IInv'
  BY <1>7, EndTransactionIInv
<1>8. CASE UNCHANGED vars
  <2>1. TypeOK'
    BY <1>8 DEF vars, IInv, TypeOK
  <2>2. GrantOrder' /\ RequestsOwned' /\ BlockedQueued' /\ LockSetsBacked'
    BY <1>8 DEF vars, IInv, GrantOrder, RequestsOwned, BlockedQueued, LockSetsBacked, Requests, Holds
  <2> QED BY <2>1, <2>2 DEF IInv
<1> QED BY <1>1, <1>2, <1>3, <1>4, <1>5, <1>6, <1>7, <1>8 DEF Next

\* Lock compatibility: in every reachable state an exclusive lock excludes
\* every other lock on its rid, whatever mix of LockShared, LockExclusive,
\* LockUpgrade and Unlock the transactions call.
THEOREM LockCompatibility == Spec => []GrantOrder
<1>1. IInv => GrantOrder
  BY DEF IInv
<1> QED BY <1>1, InitIInv, NextIInv, PTL DEF Spec

\* The lock table, the transactions' states and lock sets keep their types.
THEOREM TypeCorrect == Spec => []TypeOK
<1>1. IInv => TypeOK
  BY DEF IInv
<1> QED BY <1>1, InitIInv, NextIInv, PTL DEF Spec

\* The lock sets of a growing transaction tell the truth, and a blocked call
\* has its request in the queue, not granted and in its mode: LockUpgrade of
\* a rid in the shared set finds the request to move (its assertion at line
\* 125), and a call that wakes up finds its own.
THEOREM LockSetsTruthful == Spec => [](LockSetsBacked /\ BlockedQueued)
<1>1. IInv => LockSetsBacked /\ BlockedQueued
  BY DEF IInv
<1> QED BY <1>1, InitIInv, NextIInv, PTL DEF Spec

\* No request is left behind: every request in the table is the only one of
\* its transaction on the rid and is accounted for, by the lock set of its
\* mode if it is granted and by a call blocked on the rid if it is not.
THEOREM RequestsAccounted == Spec => []RequestsOwned
<1>1. IInv => RequestsOwned
  BY DEF IInv
<1> QED BY <1>1, InitIInv, NextIInv, PTL DEF Spec

-----------------------------------------------------------------------------
(* What a step does to the locks.  Users of the lock manager reason with   *)
(* these, not with the request lists.                                      *)

\* The locks are those there were, with the lock of t on r in mode m.
LocksWith(t, r, m) ==
    \A u \in Txn, s \in Rid, n \in {"S", "X"} :
        Holds(u, s, n)' <=> Holds(u, s, n) \/ (u = t /\ s = r /\ n = m)

SameLocks == \A u \in Txn, s \in Rid, n \in {"S", "X"} : Holds(u, s, n)' <=> Holds(u, s, n)

\* The call of t returned true, with the lock.
GotLock(t, r, m) ==
    /\ LocksWith(t, r, m)
    /\ shared' = [shared EXCEPT ![t] = IF m = "S" THEN @ \cup {r} ELSE @]
    /\ exclusive' = [exclusive EXCEPT ![t] = IF m = "S" THEN @ ELSE @ \cup {r}]
    /\ call' = [call EXCEPT ![t] = NotBlocked]
    /\ ret' = [ret EXCEPT ![t] = "true"]
    /\ state' = state

\* The call of t sleeps.
FellAsleep(t, r, m) ==
    /\ SameLocks
    /\ call' = [call EXCEPT ![t] = [op |-> m, rid |-> r]]
    /\ ret' = [ret EXCEPT ![t] = "none"]
    /\ UNCHANGED <<state, shared, exclusive>>

\* The call of t returned false.
WasRefused(t) ==
    /\ SameLocks
    /\ state' = [state EXCEPT ![t] = "ABORTED"]
    /\ ret' = [ret EXCEPT ![t] = "false"]
    /\ UNCHANGED <<shared, exclusive, call>>

\* No client calls LockUpgrade, and so no call sleeps in it.
NoUpgrade == "U" \notin Calls
NotUpgrading == \A t \in Txn : call[t].op # "U"

\* A list with two different granted requests has shared ones only.
LEMMA Compatible ==
    ASSUME NEW list \in Seq(Request), Ordered(list), Distinct(list),
           NEW u \in Txn, NEW v \in Txn, NEW n \in {"S", "X"}, NEW m \in {"S", "X"},
           HeldReq(u, n) \in Range(list), HeldReq(v, m) \in Range(list), u # v \/ n # m
    PROVE  n = "S" /\ m = "S"
<1>1. PICK i \in 1..Len(list) : list[i] = HeldReq(u, n)
  BY ListTyping
<1>2. PICK j \in 1..Len(list) : list[j] = HeldReq(v, m)
  BY ListTyping
<1>3. /\ list[i].txn_id = u /\ list[i].mode = n /\ list[i].granted
      /\ list[j].txn_id = v /\ list[j].mode = m /\ list[j].granted
  BY <1>1, <1>2, RequestTyping
<1>4. i < j \/ j < i
  BY <1>3
<1>5. i < j => i \in 1..(j - 1)
  OBVIOUS
<1>6. j < i => j \in 1..(i - 1)
  OBVIOUS
<1> QED BY <1>3, <1>4, <1>5, <1>6 DEF Ordered

LEMMA LocksExclude ==
    ASSUME IInv, NEW r \in Rid, NEW u \in Txn, NEW v \in Txn,
           NEW n \in {"S", "X"}, NEW m \in {"S", "X"},
           Holds(u, r, n), Holds(v, r, m), u # v \/ n # m
    PROVE  n = "S" /\ m = "S"
<1>1. /\ lock_table[r].list \in Seq(Request)
      /\ Ordered(lock_table[r].list) /\ Distinct(lock_table[r].list)
  BY DEF IInv, TypeOK, Waiting, GrantOrder, RequestsOwned
<1> QED BY <1>1, Compatible DEF Holds, Requests

LEMMA LocksExcludeNext ==
    ASSUME IInv', NEW r \in Rid, NEW u \in Txn, NEW v \in Txn,
           NEW n \in {"S", "X"}, NEW m \in {"S", "X"},
           Holds(u, r, n)', Holds(v, r, m)', u # v \/ n # m
    PROVE  n = "S" /\ m = "S"
<1>1. /\ lock_table'[r].list \in Seq(Request)
      /\ Ordered(lock_table'[r].list) /\ Distinct(lock_table'[r].list)
  BY DEF IInv, TypeOK, Waiting, GrantOrder, RequestsOwned
<1> QED BY <1>1, Compatible DEF Holds, Requests

\* A lock is in the lock set of its mode.
LEMMA HeldRecorded ==
    ASSUME IInv, NEW r \in Rid, NEW t \in Txn
    PROVE  /\ Holds(t, r, "X") => r \in exclusive[t]
           /\ Holds(t, r, "S") => r \in shared[t]
BY RequestTyping DEF IInv, RequestsOwned, Holds

LEMMA SameTable ==
    ASSUME lock_table' = lock_table
    PROVE  SameLocks
BY DEF SameLocks, Holds, Requests

\* What WaitThenGrant does to the locks, when t has no lock on r.
LEMMA WaitThenGrantLocks ==
    ASSUME IInv,
           NEW t \in Txn, NEW r \in Rid, NEW m \in {"S", "X"}, NEW w \in Waiting,
           Ordered(w.list), Distinct(w.list),
           Pending(t, m) \in Range(w.list),
           \A q \in Request : q.txn_id # t => (q \in Range(w.list) <=> q \in Requests(r)),
           \A n \in {"S", "X"} : ~Holds(t, r, n),
           r \notin shared[t],
           WaitThenGrant(t, r, m, w)
    PROVE  GotLock(t, r, m) \/ FellAsleep(t, r, m)
<1> DEFINE q0 == Pending(t, m)
           q1 == HeldReq(t, m)
<1>1. ModeOf(m) = m /\ m \in {"S", "X", "U"}
  BY DEF ModeOf
<1>2. q0 \in Request /\ q0.txn_id = t /\ q0.mode = m /\ ~q0.granted
  BY RequestTyping
<1>3. q1 \in Request /\ q1.txn_id = t /\ q1.mode = m /\ q1.granted
  BY RequestTyping
<1>4. w.list \in Seq(Request)
  BY DEF Waiting
<1> HIDE DEF q0, q1
<1>5. \A q \in Range(w.list) : q \in Request /\ (q.txn_id = t => q = q0)
  BY <1>2, <1>4, DistinctRequests DEF q0
<1>6. TypeOK /\ GrantOrder /\ RequestsOwned
  BY DEF IInv
<1>7. CASE Ready(w.list, m, t) /\ Granted(t, r, m, w)
  <2> DEFINE g == Grant(w.list, t)
             w1 == [w EXCEPT !.list = g]
  <2>1. g \in Seq(Request) /\ Ordered(g) /\ Distinct(g) /\ Range(g) = (Range(w.list) \ {q0}) \cup {q1}
    BY <1>1, <1>4, <1>7, GrantRequest DEF q0, q1
  <2> HIDE DEF g
  <2>2. w1 \in Waiting /\ w1.list = g
    BY <2>1 DEF Waiting
  <2>3. lock_table' = [lock_table EXCEPT ![r] = w1]
    BY <1>7 DEF Granted, g
  <2> HIDE DEF w1
  <2>4. \A q \in Request : q \in Range(w1.list) <=> (q = q1 \/ (q.txn_id # t /\ q \in Requests(r)))
    BY <2>1, <2>2, <1>2, <1>3, <1>5
  <2>5. Ordered(w1.list) /\ Distinct(w1.list)
    BY <2>1, <2>2
  <2>6. Replaced(t, r, q1)
    BY ZenonT(60), <2>5, <2>2, <2>3, <2>4, <1>3, <1>6, ReplaceList
  <2>7. \A u \in Txn, s \in Rid, n \in {"S", "X"} :
            u # t \/ s # r => (Holds(u, s, n)' <=> Holds(u, s, n))
    BY <2>6, <1>3, <1>6, ReplacedHolds
  <2>8. \A n \in {"S", "X"} : Holds(t, r, n)' <=> n = m
    <3> SUFFICES ASSUME NEW n \in {"S", "X"} PROVE Holds(t, r, n)' <=> n = m
      OBVIOUS
    <3> DEFINE p == HeldReq(t, n)
    <3>1. p \in Request /\ p.txn_id = t /\ p.mode = n
      BY RequestTyping
    <3> HIDE DEF p
    <3>2. p \in Requests(r)' <=> p = q1
      BY <3>1, <2>6 DEF Replaced
    <3>3. p = q1 <=> n = m
      BY <3>1, <1>3 DEF p, q1
    <3> QED BY <3>2, <3>3 DEF Holds, p
  <2>9. LocksWith(t, r, m)
    BY <2>7, <2>8 DEF LocksWith
  <2>10. shared' = [shared EXCEPT ![t] = IF m = "S" THEN @ \cup {r} ELSE @]
    BY <1>7, <1>6 DEF Granted, TypeOK
  <2> QED BY <2>9, <2>10, <1>7 DEF GotLock, Granted
<1>8. CASE ~Ready(w.list, m, t) /\ Sleep(t, r, m, w)
  <2>1. lock_table' = [lock_table EXCEPT ![r] = w]
    BY <1>8 DEF Sleep
  <2>2. \A q \in Request : q \in Range(w.list) <=> (q = q0 \/ (q.txn_id # t /\ q \in Requests(r)))
    BY <1>2, <1>5 DEF q0
  <2>3. Replaced(t, r, q0)
    BY ZenonT(60), <2>1, <2>2, <1>2, <1>6, ReplaceList
  <2>4. \A u \in Txn, s \in Rid, n \in {"S", "X"} :
            u # t \/ s # r => (Holds(u, s, n)' <=> Holds(u, s, n))
    BY <2>3, <1>2, <1>6, ReplacedHolds
  <2>5. \A n \in {"S", "X"} : ~Holds(t, r, n)'
    <3> SUFFICES ASSUME NEW n \in {"S", "X"} PROVE ~Holds(t, r, n)'
      OBVIOUS
    <3> DEFINE p == HeldReq(t, n)
    <3>1. p \in Request /\ p.txn_id = t /\ p.granted
      BY RequestTyping
    <3> HIDE DEF p
    <3>2. p \notin Requests(r)'
      BY <3>1, <2>3, <1>2 DEF Replaced
    <3> QED BY <3>2 DEF Holds, p
  <2>6. SameLocks
    BY <2>4, <2>5 DEF SameLocks
  <2> QED BY <2>6, <1>8 DEF FellAsleep, Sleep
<1> QED BY <1>7, <1>8 DEF WaitThenGrant

\* LockShared and LockExclusive: the lock, a sleep, or a refusal.
LEMMA LockCall ==
    ASSUME IInv, NEW t \in Txn, NEW r \in Rid, NEW m \in {"S", "X"},
           (m = "S" /\ LockShared(t, r)) \/ (m = "X" /\ LockExclusive(t, r))
    PROVE  /\ call[t] = NotBlocked /\ r \notin shared[t] \cup exclusive[t]
           /\ state[t] \in {"GROWING", "ABORTED"}
           /\ \/ state[t] = "GROWING" /\ (GotLock(t, r, m) \/ FellAsleep(t, r, m))
              \/ WasRefused(t)
<1> DEFINE old == lock_table[r]
           ws == [old EXCEPT !.oldest = IF @ = NoTxn \/ @ > t THEN t ELSE @,
                             !.list = Append(@, Pending(t, "S"))]
           wx == [old EXCEPT !.oldest = t,
                             !.exclusive_cnt = (@ + 1) % CntMod,
                             !.list = Append(@, Pending(t, "X"))]
<1>1. /\ call[t] = NotBlocked /\ r \notin shared[t] \cup exclusive[t]
      /\ state[t] \in {"GROWING", "ABORTED"}
  BY DEF LockShared, LockExclusive, Callable
<1>2. /\ TypeOK /\ old \in Waiting
      /\ old.list \in Seq(Request) /\ Ordered(old.list) /\ Distinct(old.list)
  BY DEF IInv, TypeOK, Waiting, GrantOrder, RequestsOwned
<1>3. CASE state[t] = "ABORTED" /\ Refuse(t)
  <2>1. SameLocks
    BY <1>3, SameTable DEF Refuse
  <2>2. state' = [state EXCEPT ![t] = "ABORTED"]
    BY <1>2, <1>3 DEF Refuse, TypeOK
  <2> QED BY <2>1, <2>2, <1>1, <1>3 DEF WasRefused, Refuse
<1>4. CASE Die(t)
  BY <1>1, <1>4, SameTable DEF WasRefused, Die
<1>5. ASSUME NEW w \in Waiting, w.list = Append(old.list, Pending(t, m)),
             state[t] = "GROWING", WaitThenGrant(t, r, m, w)
      PROVE  GotLock(t, r, m) \/ FellAsleep(t, r, m)
  <2>1. \A q \in Range(old.list) : q.txn_id # t
    BY <1>1, NothingQueued DEF Requests
  <2>2. /\ Ordered(w.list) /\ Distinct(w.list)
        /\ Range(w.list) = Range(old.list) \cup {Pending(t, m)}
    BY <1>2, <1>5, <2>1, AppendRequest
  <2>3. \A q \in Request : q.txn_id # t => (q \in Range(w.list) <=> q \in Requests(r))
    BY <2>2, RequestTyping DEF Requests
  <2>4. Pending(t, m) \in Range(w.list)
    BY <2>2
  <2>5. \A n \in {"S", "X"} : ~Holds(t, r, n)
    BY <2>1, RequestTyping DEF Holds, Requests
  <2> QED BY ZenonT(60), <1>1, <1>5, <2>2, <2>3, <2>4, <2>5, WaitThenGrantLocks
<1>6. CASE m = "S" /\ LockShared(t, r)
  <2>1. ASSUME state[t] = "GROWING", WaitThenGrant(t, r, "S", ws)
        PROVE  GotLock(t, r, m) \/ FellAsleep(t, r, m)
    <3>1. Append(old.list, Pending(t, "S")) \in Seq(Request)
      BY <1>2, RequestTyping
    <3>2. ws \in Waiting
      <4>1. 0 \in 0..(CntMod - 1)
        BY CntModAssumption
      <4> QED BY ZenonT(60), <4>1, <1>2, <3>1, EntryTyping
    <3>3. ws.list = Append(old.list, Pending(t, m))
      BY <1>2, <1>6 DEF Waiting
    <3> HIDE DEF ws
    <3> QED BY <1>5, <1>6, <2>1, <3>2, <3>3
  <2> QED BY <1>1, <1>3, <1>4, <1>6, <2>1 DEF LockShared
<1>7. CASE m = "X" /\ LockExclusive(t, r)
  <2>1. ASSUME state[t] = "GROWING", WaitThenGrant(t, r, "X", wx)
        PROVE  GotLock(t, r, m) \/ FellAsleep(t, r, m)
    <3>1. Append(old.list, Pending(t, "X")) \in Seq(Request)
      BY <1>2, RequestTyping
    <3>2. (old.exclusive_cnt + 1) % CntMod \in 0..(CntMod - 1)
      BY <1>2, CntModAssumption DEF Waiting
    <3>3. wx \in Waiting
      BY ZenonT(60), <1>2, <3>1, <3>2, EntryTyping
    <3>4. wx.list = Append(old.list, Pending(t, m))
      BY <1>2, <1>7 DEF Waiting
    <3> HIDE DEF wx
    <3> QED BY <1>5, <1>7, <2>1, <3>3, <3>4
  <2> QED BY <1>1, <1>3, <1>4, <1>7, <2>1 DEF LockExclusive
<1> QED BY <1>6, <1>7

\* A sleeping LockShared or LockExclusive: the lock, or more sleep.
LEMMA WakeCall ==
    ASSUME IInv, NEW t \in Txn, Wake(t), state[t] = "GROWING", call[t].op # "U"
    PROVE  /\ call[t] \in BlockedCall
           /\ \/ GotLock(t, call[t].rid, call[t].op)
              \/ FellAsleep(t, call[t].rid, call[t].op)
<1>1. PICK c \in BlockedCall : call[t] = c /\ c # NotBlocked
  BY DEF Wake, IInv, TypeOK
<1>2. c.rid \in Rid /\ c.op \in {"S", "X"}
  BY <1>1 DEF BlockedCall
<1>3. PICK r \in Rid, m \in {"S", "X"} : r = c.rid /\ m = c.op
  BY <1>2
<1> DEFINE w == lock_table[r]
<1>4. WaitThenGrant(t, r, m, w)
  BY <1>1, <1>3 DEF Wake
<1>5. /\ w \in Waiting /\ w.list \in Seq(Request)
      /\ Ordered(w.list) /\ Distinct(w.list)
  BY DEF IInv, TypeOK, Waiting, GrantOrder, RequestsOwned
<1>6. Pending(t, m) \in Range(w.list)
  <2>1. ModeOf(m) = m
    BY DEF ModeOf
  <2> QED BY <2>1, <1>1, <1>3 DEF IInv, BlockedQueued, Requests
<1>7. \A q \in Request : q.txn_id # t => (q \in Range(w.list) <=> q \in Requests(r))
  BY DEF Requests
<1>8. \A n \in {"S", "X"} : ~Holds(t, r, n)
  <2> SUFFICES ASSUME NEW n \in {"S", "X"}, Holds(t, r, n) PROVE FALSE
    OBVIOUS
  <2>1. HeldReq(t, n) = Pending(t, m)
    BY <1>5, <1>6, DistinctRequests, RequestTyping DEF Holds, Requests
  <2> QED BY <2>1, RequestTyping
<1>9. r \notin shared[t]
  <2>1. call[t] # [op |-> "U", rid |-> r]
    OBVIOUS
  <2> QED BY <2>1, <1>8 DEF IInv, LockSetsBacked
<1> HIDE DEF w
<1>10. GotLock(t, r, m) \/ FellAsleep(t, r, m)
  BY ZenonT(60), <1>4, <1>5, <1>6, <1>7, <1>8, <1>9, WaitThenGrantLocks
<1> QED BY <1>1, <1>3, <1>10

\* Unlock gives up the lock, or is refused and aborts the transaction.
LEMMA UnlockCall ==
    ASSUME IInv, NEW t \in Txn, NEW r \in Rid, Unlock(t, r)
    PROVE  /\ call[t] = NotBlocked
           /\ r \in shared[t] \cup exclusive[t]
           /\ UNCHANGED <<shared, exclusive, call>>
           /\ \A u \in Txn \ {t} : state'[u] = state[u]
           /\ state'[t] # "GROWING"
           /\ \A u \in Txn, s \in Rid, n \in {"S", "X"} :
                /\ Holds(u, s, n)' => Holds(u, s, n)
                /\ u # t \/ s # r => (Holds(u, s, n)' <=> Holds(u, s, n))
           /\ state[t] \in {"COMMITTED", "ABORTED"} =>
                state' = state /\ \A n \in {"S", "X"} : ~Holds(t, r, n)'
<1> DEFINE w == lock_table[r]
<1>1. /\ call[t] = NotBlocked
      /\ r \in shared[t] \cup exclusive[t]
      /\ UNCHANGED <<shared, exclusive, call>>
      /\ \A u \in Txn \ {t} : state'[u] = state[u]
      /\ state'[t] # "GROWING"
      /\ state[t] \in {"COMMITTED", "ABORTED"} => state' = state /\ Release(t, r)
  BY StrictAssumption DEF Unlock, IInv, TypeOK
<1>2. TypeOK /\ w.list \in Seq(Request) /\ Ordered(w.list) /\ Distinct(w.list)
  BY DEF IInv, TypeOK, Waiting, GrantOrder, RequestsOwned
<1>3. CASE lock_table' = lock_table
  <2>1. SameLocks
    BY <1>3, SameTable
  <2>2. ASSUME state[t] \in {"COMMITTED", "ABORTED"}, NEW n \in {"S", "X"}, Holds(t, r, n)'
        PROVE  FALSE
    <3>1. HeldReq(t, n) \in Range(w.list) /\ HeldReq(t, n).txn_id = t
      BY <2>1, <2>2, RequestTyping DEF SameLocks, Holds, Requests
    <3>2. PICK i \in 1..Len(w.list) : w.list[i].txn_id = t
      BY <3>1, <1>2, ListTyping
    <3>3. i \in Own(w.list, t)
      BY <3>2 DEF Own
    <3>4. PICK e \in Own(w.list, t) :
            lock_table' = [lock_table EXCEPT ![r] =
                    [w EXCEPT !.exclusive_cnt =
                                  IF w.list[e].mode = "X" THEN (@ - 1) % CntMod ELSE @,
                              !.list = EraseAt(@, e)]]
      BY <3>3, <2>2, <1>1 DEF Release
    <3>5. lock_table'[r].list = EraseAt(w.list, e)
      BY <3>4, <1>2 DEF TypeOK, Waiting
    <3>6. e \in 1..Len(w.list)
      BY DEF Own
    <3>7. Len(EraseAt(w.list, e)) = Len(w.list) - 1 /\ Len(w.list) \in Nat
      BY <3>6, <1>2, EraseRequest, ListTyping
    <3> QED BY <3>5, <3>7, <1>3
  <2> QED BY <2>1, <2>2, <1>1 DEF SameLocks
<1>4. ASSUME NEW e \in Own(w.list, t),
             lock_table' = [lock_table EXCEPT ![r] =
                    [w EXCEPT !.exclusive_cnt =
                                  IF w.list[e].mode = "X" THEN (@ - 1) % CntMod ELSE @,
                              !.list = EraseAt(@, e)]]
      PROVE  /\ \A u \in Txn, s \in Rid, n \in {"S", "X"} :
                    u # t \/ s # r => (Holds(u, s, n)' <=> Holds(u, s, n))
             /\ \A n \in {"S", "X"} : ~Holds(t, r, n)'
  <2> DEFINE l == EraseAt(w.list, e)
  <2>1. e \in 1..Len(w.list) /\ w.list[e].txn_id = t /\ w.list[e] \in Range(w.list)
    BY <1>2, ListTyping DEF Own
  <2>2. Range(l) = Range(w.list) \ {w.list[e]}
    BY <1>2, <2>1, EraseRequest
  <2>3. lock_table'[r].list = l /\ \A s \in Rid \ {r} : lock_table'[s] = lock_table[s]
    BY <1>2, <1>4 DEF TypeOK, Waiting
  <2> HIDE DEF l
  <2>4. \A s \in Rid \ {r} : Requests(s)' = Requests(s)
    BY <2>3 DEF Requests
  <2>5. \A q \in Requests(r)' : q \in Requests(r) /\ q.txn_id # t
    BY <1>2, <2>1, <2>2, <2>3, DistinctRequests DEF Requests
  <2>6. \A q \in Requests(r) : q.txn_id # t => q \in Requests(r)'
    BY <2>1, <2>2, <2>3 DEF Requests
  <2> QED BY <2>4, <2>5, <2>6, RequestTyping DEF Holds
<1>5. Release(t, r) \/ lock_table' = lock_table
  BY DEF Unlock
<1>6. lock_table' = lock_table
      \/ \E e \in Own(w.list, t) :
            lock_table' = [lock_table EXCEPT ![r] =
                    [w EXCEPT !.exclusive_cnt =
                                  IF w.list[e].mode = "X" THEN (@ - 1) % CntMod ELSE @,
                              !.list = EraseAt(@, e)]]
  BY ZenonT(60), <1>5 DEF Release
<1>7. ASSUME ~(lock_table' = lock_table)
      PROVE  /\ \A u \in Txn, s \in Rid, n \in {"S", "X"} :
                    u # t \/ s # r => (Holds(u, s, n)' <=> Holds(u, s, n))
             /\ \A n \in {"S", "X"} : ~Holds(t, r, n)'
  BY ZenonT(60), <1>4, <1>6, <1>7
<1> QED BY <1>1, <1>3, <1>7
==============================================================================
