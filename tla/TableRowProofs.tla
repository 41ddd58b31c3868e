---------------------------- MODULE TableRowProofs ----------------------------
(***************************************************************************)
(* The invariant Core of the table, for any sets of transactions and       *)
(* tuples and any numbers of pages and slots: it ties what is in a slot to *)
(* the write set of the transaction that has the slot locked.  The lemmas  *)
(* say what a lock call, a record in a write set and the undo of one do to *)
(* a row; TableHeapProofs has the actions and the theorems.                *)
(***************************************************************************)
EXTENDS TableHeap, LockManagerProofs

USE SMTT(20), ZenonT(20), SMTT(40)

\* What the theorems need of the clients: they never ask to upgrade a lock,
\* commit no transaction that a refused operation has aborted, and store
\* tuples of one size, so that an undo finds the space it needs.
Disciplined ==
    /\ NoUpgrade
    /\ CommitAborted = FALSE
    /\ \A a, b \in Tuple : a[1] = b[1]

Slots ==
    {s \in [st : {"unused", "empty", "live", "marked"}, tuple : Tuple \cup {NoTuple}] :
        s.tuple \in Tuple <=> s.st \in {"live", "marked"}}
Ops ==
    {o \in [op : {"none", "walk", "get", "mark", "update", "insert"},
            page : 0..MaxPages, tuple : Tuple \cup {NoTuple}] :
        /\ o.op = "walk" => o.page # 0
        /\ o.op \in {"walk", "update"} => o.tuple \in Tuple}
Writes ==
    {w \in [rid : Rid, wtype : {"INSERT", "UPDATE", "DELETE"}, tuple : Tuple \cup {NoTuple}] :
        w.wtype = "UPDATE" => w.tuple \in Tuple}

HeapTyped ==
    /\ slot \in [Rid -> Slots]
    /\ free_space \in [1..MaxPages -> Nat]
    /\ last_page \in 1..MaxPages
    /\ \A r \in Rid : r[1] > last_page => slot[r].st = "unused"
    /\ pending \in [Txn -> Ops]
    /\ write_set \in [Txn -> Seq(Writes)]
    /\ phase \in [Txn -> {"run", "commit", "abort", "ended"}]
    /\ todo \in [Txn -> SUBSET Rid]
    /\ log \in Seq(Txn) /\ persistent \in 0..Len(log)
    /\ db \in [Rid -> Tuple \cup {NoTuple}]
    /\ writer \in [Rid -> Txn \cup {NoTxnYet}]

Blocked(t) == call[t] # NotBlocked

\* The phase and the state of a transaction.
Phases ==
    \A t \in Txn :
        /\ phase[t] = "run" => state[t] \in {"GROWING", "ABORTED"}
        /\ phase[t] = "commit" => state[t] = "COMMITTED"
        /\ phase[t] = "abort" => state[t] = "ABORTED"
        /\ phase[t] = "ended" => state[t] \in {"COMMITTED", "ABORTED"}
        /\ phase[t] # "run" => pending[t].op # "walk"

\* The tuple a sleeping operation is about, and its latch.
Sleeping ==
    \A t \in Txn :
        /\ ~Blocked(t) => pending[t].op \in {"none", "walk"}
        /\ Blocked(t) =>
            /\ phase[t] = "run" /\ state[t] = "GROWING"
            /\ pending[t].op \in {"get", "mark", "update", "insert"}
            /\ call[t].op = (IF pending[t].op = "get" THEN "S" ELSE "X")
            /\ slot[call[t].rid].st \in
                    (IF pending[t].op = "mark" THEN {"live", "empty"} ELSE {"live"})

Latched ==
    \A t, u \in Txn : t # u /\ Blocked(t) /\ Blocked(u) /\ call[t].rid[1] = call[u].rid[1] =>
        pending[t].op = "get" /\ pending[u].op = "get"

LocksKept ==
    \A t \in Txn :
        /\ phase[t] = "run" => \A r \in exclusive[t] : Holds(t, r, "X")
        /\ phase[t] # "ended" => \A r \in shared[t] : Holds(t, r, "S")

\* The records on r in a write set.
On(ws, r) == {i \in 1..Len(ws) : ws[i].rid = r}

\* The records on a rid are an INSERT, UPDATEs and DELETEs, in this order.
Shaped(ws) ==
    \A i, j \in 1..Len(ws) : i < j /\ ws[i].rid = ws[j].rid =>
        ws[j].wtype # "INSERT" /\ (ws[i].wtype = "DELETE" => ws[j].wtype = "DELETE")

\* Which records still have their lock.
Covered(t, i) ==
    LET w == write_set[t][i]
    IN  /\ phase[t] \in {"run", "abort"} /\ (w.wtype # "DELETE" \/ w.rid \in exclusive[t])
                => Holds(t, w.rid, "X")
        /\ phase[t] = "run" /\ ~Holds(t, w.rid, "X") => state[t] = "ABORTED"
        /\ phase[t] = "commit" /\ w.wtype = "DELETE" => Holds(t, w.rid, "X")

Records ==
    \A t \in Txn : Shaped(write_set[t]) /\ \A i \in 1..Len(write_set[t]) : Covered(t, i)

\* t sleeps in an insertion into r.
Inserts(t, r) == Blocked(t) /\ call[t].rid = r /\ pending[t].op = "insert"
Inserting(r) == \E t \in Txn : Inserts(t, r)

\* What was there before the first record w on a rid, whose slot is s now.
Origin(w, s) ==
    IF w.wtype = "INSERT" THEN NoTuple
    ELSE IF w.wtype = "UPDATE" THEN w.tuple
    ELSE s.tuple

\* A transaction with write set ws, in phase ph and state st, that has r
\* locked: its slot is s, and the committed transactions left d there.
Owner(ws, r, ph, st, s, d) ==
    /\ ph = "run" => On(ws, r) # {}
    /\ (\E i \in On(ws, r) : ws[i].wtype # "DELETE") => s.st \in {"live", "marked"}
    /\ On(ws, r) # {} /\ (\A i \in On(ws, r) : ws[i].wtype # "DELETE") => s.st = "live"
    /\ ph \in {"run", "commit"} /\ (\E i \in On(ws, r) : ws[i].wtype = "DELETE") =>
            s.st \in {"marked", "empty"}
    /\ (ph = "commit" \/ st = "GROWING") /\ s.st = "marked" =>
            \A i, j \in On(ws, r) : ws[i].wtype = "DELETE" /\ ws[j].wtype = "DELETE" => i = j
    /\ IF ph \in {"run", "abort"} /\ On(ws, r) # {}
       THEN \E i \in On(ws, r) : (\A j \in On(ws, r) : i <= j) /\ d = Origin(ws[i], s)
       ELSE Visible(s) = d

\* The same while the slot is being inserted into: nothing but deletions of
\* the empty slot, which stay there because the inserter has the latch.
Stuck(ws, r, ph) ==
    /\ ph = "run" => On(ws, r) # {}
    /\ \A i \in On(ws, r) : ws[i].wtype = "DELETE"

Owned(t, r) ==
    IF Inserting(r) THEN Stuck(write_set[t], r, phase[t])
    ELSE Owner(write_set[t], r, phase[t], state[t], slot[r], db[r])

Owners == \A t \in Txn, r \in Rid : Holds(t, r, "X") => Owned(t, r)

\* A slot nobody has locked to write, and one that is being inserted into.
XLocked(r) == \E t \in Txn : Holds(t, r, "X")
Settled == \A r \in Rid : ~XLocked(r) /\ ~Inserting(r) => Visible(slot[r]) = db[r]
StuckCommit(t, r) == Holds(t, r, "X") /\ phase[t] = "commit" /\ On(write_set[t], r) # {}
Fresh == \A r \in Rid : Inserting(r) => db[r] = NoTuple \/ \E t \in Txn : StuckCommit(t, r)

SharedReads ==
    \A t \in Txn : phase[t] # "ended" =>
        \A r \in shared[t] : slot[r].st = "live" /\ slot[r].tuple = db[r]

Durable ==
    \A r \in Rid : writer[r] # NoTxnYet /\ db[r] # NoTuple =>
        Persisted(writer[r]) \/ Holds(writer[r], r, "X")

Core ==
    /\ HeapTyped /\ Phases /\ Sleeping /\ Latched /\ LocksKept /\ Records
    /\ Owners /\ Settled /\ Fresh /\ SharedReads /\ Durable

-----------------------------------------------------------------------------
(* Write sets.                                                             *)

LEMMA NoTupleIsNone == NoTuple \notin Tuple
BY TupleAssumption DEF NoTuple

\* The records on s are the same in both write sets.
SameOn(ws, ws2, s) == On(ws2, s) = On(ws, s) /\ \A i \in On(ws, s) : ws2[i] = ws[i]

LEMMA WritesTyping ==
    ASSUME NEW r \in Rid, NEW k \in {"INSERT", "UPDATE", "DELETE"}, NEW tu \in Tuple \cup {NoTuple},
           k = "UPDATE" => tu \in Tuple
    PROVE  /\ WriteRecord(r, k, tu) \in Writes
           /\ WriteRecord(r, k, tu).rid = r /\ WriteRecord(r, k, tu).wtype = k
           /\ WriteRecord(r, k, tu).tuple = tu
BY DEF WriteRecord, Writes

LEMMA AppendOn ==
    ASSUME NEW ws \in Seq(Writes), NEW w \in Writes
    PROVE  LET ws2 == Append(ws, w)
           IN  /\ ws2 \in Seq(Writes)
               /\ Len(ws) \in Nat /\ Len(ws2) = Len(ws) + 1
               /\ \A i \in 1..Len(ws) : ws2[i] = ws[i]
               /\ ws2[Len(ws) + 1] = w
               /\ On(ws2, w.rid) = On(ws, w.rid) \cup {Len(ws) + 1}
               /\ \A s \in Rid \ {w.rid} : SameOn(ws, ws2, s)
<1> DEFINE ws2 == Append(ws, w)
<1>1. /\ ws2 \in Seq(Writes)
      /\ Len(ws) \in Nat /\ Len(ws2) = Len(ws) + 1
      /\ \A i \in 1..Len(ws) : ws2[i] = ws[i]
      /\ ws2[Len(ws) + 1] = w
  OBVIOUS
<1> HIDE DEF ws2
<1>2. \A i \in 1..Len(ws2) : i \in 1..Len(ws) \/ i = Len(ws) + 1
  BY <1>1
<1>3. 1..Len(ws) \subseteq 1..Len(ws2) /\ Len(ws) + 1 \in 1..Len(ws2)
  BY <1>1
<1>4. On(ws2, w.rid) = On(ws, w.rid) \cup {Len(ws) + 1}
  BY <1>1, <1>2, <1>3 DEF On
<1>5. \A s \in Rid \ {w.rid} : SameOn(ws, ws2, s)
  BY <1>1, <1>2, <1>3 DEF On, SameOn
<1> QED BY <1>1, <1>4, <1>5 DEF ws2

\* The write set without its last record.
Popped(ws) == EraseAt(ws, Len(ws))

LEMMA PopOn ==
    ASSUME NEW ws \in Seq(Writes), ws # <<>>
    PROVE  LET ws2 == Popped(ws)
           IN  /\ ws2 \in Seq(Writes)
               /\ Len(ws) \in Nat \ {0} /\ Len(ws2) = Len(ws) - 1
               /\ ws[Len(ws)] \in Writes
               /\ \A i \in 1..Len(ws2) : i \in 1..Len(ws) /\ ws2[i] = ws[i]
               /\ \A s \in Rid : On(ws2, s) = On(ws, s) \ {Len(ws)}
               /\ \A s \in Rid \ {ws[Len(ws)].rid} : SameOn(ws, ws2, s)
<1> DEFINE ws2 == Popped(ws)
           n == Len(ws)
<1>1. n \in Nat \ {0} /\ ws[n] \in Writes /\ \A i \in 1..n : ws[i] \in Writes
  OBVIOUS
<1> DEFINE a == SubSeq(ws, 1, n - 1)
           b == SubSeq(ws, n + 1, n)
<1>2. a \in Seq(Writes) /\ Len(a) = n - 1 /\ \A i \in 1..(n - 1) : a[i] = ws[i]
  <2>1. Len(a) = n - 1
    BY <1>1
  <2>2. \A i \in 1..(n - 1) : a[i] = ws[i]
    BY <1>1
  <2>3. a \in Seq(Writes)
    BY <1>1
  <2> QED BY <2>1, <2>2, <2>3
<1>3. b \in Seq(Writes) /\ Len(b) = 0
  BY <1>1
<1>4. ws2 = a \o b
  BY DEF Popped, EraseAt
<1> HIDE DEF ws2, a, b
<1>5. ws2 \in Seq(Writes) /\ Len(ws2) = n - 1 /\ \A i \in 1..(n - 1) : ws2[i] = ws[i]
  <2>1. /\ ws2 \in Seq(Writes) /\ Len(ws2) = Len(a) + Len(b)
        /\ \A k \in 1..(Len(a) + Len(b)) :
              ws2[k] = IF k <= Len(a) THEN a[k] ELSE b[k - Len(a)]
    BY ZenonT(60), <1>2, <1>3, <1>4, Joined
  <2> HIDE DEF n
  <2> QED BY <2>1, <1>1, <1>2, <1>3
<1>6. \A i \in 1..n : i \in 1..(n - 1) <=> i # n
  BY <1>1
<1>7. 1..(n - 1) \subseteq 1..n
  BY <1>1
<1> HIDE DEF n
<1>8. \A s \in Rid : On(ws2, s) = On(ws, s) \ {n}
  BY <1>5, <1>6, <1>7 DEF On, n
<1>9. \A s \in Rid \ {ws[n].rid} : SameOn(ws, ws2, s)
  BY <1>5, <1>6, <1>8 DEF On, SameOn, n
<1> QED BY <1>1, <1>5, <1>7, <1>8, <1>9 DEF ws2, n

LEMMA PopShaped ==
    ASSUME NEW ws \in Seq(Writes), ws # <<>>, Shaped(ws)
    PROVE  Shaped(Popped(ws))
<1>1. \A i \in 1..Len(Popped(ws)) : i \in 1..Len(ws) /\ Popped(ws)[i] = ws[i]
  BY PopOn
<1> QED BY <1>1 DEF Shaped

LEMMA OwnerSame ==
    ASSUME NEW ws, NEW ws2, NEW r, NEW ph, NEW st, NEW s, NEW d, SameOn(ws, ws2, r)
    PROVE  /\ Owner(ws, r, ph, st, s, d) => Owner(ws2, r, ph, st, s, d)
           /\ Stuck(ws, r, ph) => Stuck(ws2, r, ph)
<1>1. On(ws2, r) = On(ws, r) /\ \A i \in On(ws, r) : ws2[i] = ws[i]
  BY DEF SameOn
<1>2. Stuck(ws, r, ph) => Stuck(ws2, r, ph)
  BY <1>1 DEF Stuck
<1>3. ASSUME Owner(ws, r, ph, st, s, d) PROVE Owner(ws2, r, ph, st, s, d)
  <2>1. /\ ph = "run" => On(ws2, r) # {}
        /\ (\E i \in On(ws2, r) : ws2[i].wtype # "DELETE") => s.st \in {"live", "marked"}
        /\ On(ws2, r) # {} /\ (\A i \in On(ws2, r) : ws2[i].wtype # "DELETE") => s.st = "live"
        /\ ph \in {"run", "commit"} /\ (\E i \in On(ws2, r) : ws2[i].wtype = "DELETE") =>
                s.st \in {"marked", "empty"}
    BY <1>1, <1>3 DEF Owner
  <2>2. (ph = "commit" \/ st = "GROWING") /\ s.st = "marked" =>
            \A i, j \in On(ws2, r) : ws2[i].wtype = "DELETE" /\ ws2[j].wtype = "DELETE" => i = j
    BY <1>1, <1>3 DEF Owner
  <2>3. IF ph \in {"run", "abort"} /\ On(ws2, r) # {}
        THEN \E i \in On(ws2, r) : (\A j \in On(ws2, r) : i <= j) /\ d = Origin(ws2[i], s)
        ELSE Visible(s) = d
    BY <1>1, <1>3 DEF Owner
  <2> QED BY <2>1, <2>2, <2>3 DEF Owner
<1> QED BY <1>2, <1>3

-----------------------------------------------------------------------------
(* What the steps of a transaction do to a row it has locked.              *)

\* r is t's already, or nobody's, and nothing of t is on it.
Mine(ws, r, st, s, d) ==
    Owner(ws, r, "run", st, s, d) \/ (On(ws, r) = {} /\ Visible(s) = d)

\* Owner, for a running transaction with a record on r.
LEMMA OwnerRuns ==
    ASSUME NEW ws, NEW r, NEW st, NEW s, NEW d
    PROVE  Owner(ws, r, "run", st, s, d) <=>
            /\ (\E i \in On(ws, r) : ws[i].wtype # "DELETE") => s.st \in {"live", "marked"}
            /\ (\A i \in On(ws, r) : ws[i].wtype # "DELETE") => s.st = "live"
            /\ (\E i \in On(ws, r) : ws[i].wtype = "DELETE") => s.st \in {"marked", "empty"}
            /\ st = "GROWING" /\ s.st = "marked" =>
                \A i, j \in On(ws, r) : ws[i].wtype = "DELETE" /\ ws[j].wtype = "DELETE" => i = j
            /\ \E i \in On(ws, r) : (\A j \in On(ws, r) : i <= j) /\ d = Origin(ws[i], s)
BY DEF Owner

\* MarkDelete.
LEMMA OwnerMark ==
    ASSUME NEW ws \in Seq(Writes), NEW r \in Rid, NEW st, NEW s \in Slots, NEW d,
           s.st \in {"live", "empty"}, Mine(ws, r, st, s, d)
    PROVE  LET w == WriteRecord(r, "DELETE", NoTuple)
               s2 == [s EXCEPT !.st = IF @ = "live" THEN "marked" ELSE @]
           IN  s2 \in Slots /\ Owner(Append(ws, w), r, "run", st, s2, d)
<1> DEFINE w == WriteRecord(r, "DELETE", NoTuple)
           s2 == [s EXCEPT !.st = IF @ = "live" THEN "marked" ELSE @]
           ws2 == Append(ws, w)
           n == Len(ws) + 1
<1>1. w \in Writes /\ w.rid = r /\ w.wtype = "DELETE"
  BY WritesTyping
<1>2. /\ s2 \in Slots /\ s2.tuple = s.tuple
      /\ s.st = "live" => s2.st = "marked"
      /\ s.st = "empty" => s2.st = "empty"
  BY DEF Slots
<1> HIDE DEF w, s2
<1>3. /\ On(ws2, r) = On(ws, r) \cup {n} /\ ws2[n].wtype = "DELETE"
      /\ \A i \in On(ws, r) : ws2[i] = ws[i] /\ i < n
  BY <1>1, AppendOn DEF On
<1> HIDE DEF ws2, n
<1>4. Visible(s) = s.tuple
  BY DEF Visible, Slots
<1>5. ASSUME Owner(ws, r, "run", st, s, d) PROVE Owner(ws2, r, "run", st, s2, d)
  <2>1. \A i \in On(ws, r) : s.st = "live" => ws[i].wtype # "DELETE"
    BY <1>5 DEF Owner
  <2>2. PICK i \in On(ws, r) : (\A j \in On(ws, r) : i <= j) /\ d = Origin(ws[i], s)
    BY <1>5 DEF Owner
  <2>3. i \in On(ws2, r) /\ (\A j \in On(ws2, r) : i <= j) /\ d = Origin(ws2[i], s2)
    BY <1>2, <1>3, <2>2 DEF Origin, On, n
  <2>4. /\ (\E k \in On(ws2, r) : ws2[k].wtype # "DELETE") => s2.st \in {"live", "marked"}
        /\ s2.st \in {"marked", "empty"}
    BY <1>2, <1>3, <1>5, OwnerRuns
  <2>5. s2.st = "marked" =>
            \A k, j \in On(ws2, r) : ws2[k].wtype = "DELETE" /\ ws2[j].wtype = "DELETE" => k = j
    BY <1>2, <1>3, <2>1
  <2>6. On(ws2, r) # {} /\ ~(\A k \in On(ws2, r) : ws2[k].wtype # "DELETE")
    BY <1>3
  <2> QED BY <1>2, <2>3, <2>4, <2>5, <2>6, OwnerRuns
<1>6. ASSUME On(ws, r) = {}, Visible(s) = d PROVE Owner(ws2, r, "run", st, s2, d)
  <2>1. On(ws2, r) = {n} /\ n <= n
    BY <1>3, <1>6, AppendOn, <1>1 DEF n
  <2>2. d = Origin(ws2[n], s2)
    BY <1>2, <1>3, <1>4, <1>6 DEF Origin
  <2>3. s2.st \in {"marked", "empty"} /\ ws2[n].wtype = "DELETE"
    BY <1>2, <1>3
  <2> QED BY <1>2, <2>1, <2>2, <2>3, OwnerRuns
<1> QED BY <1>2, <1>5, <1>6 DEF Mine, w, s2, ws2

\* UpdateTuple.
LEMMA OwnerUpdate ==
    ASSUME NEW ws \in Seq(Writes), NEW r \in Rid, NEW st, NEW s \in Slots, NEW d, NEW tu \in Tuple,
           s.st = "live", Mine(ws, r, st, s, d)
    PROVE  LET w == WriteRecord(r, "UPDATE", s.tuple)
               s2 == [s EXCEPT !.tuple = tu]
           IN  /\ w \in Writes /\ s2 \in Slots
               /\ Owner(Append(ws, w), r, "run", st, s2, d)
               /\ Owner(ws, r, "run", st, s, d) => Owner(ws, r, "run", st, s2, d)
               /\ Shaped(ws) => Shaped(Append(ws, w))
<1> DEFINE w == WriteRecord(r, "UPDATE", s.tuple)
           s2 == [s EXCEPT !.tuple = tu]
           ws2 == Append(ws, w)
           n == Len(ws) + 1
<1>1. w \in Writes /\ w.rid = r /\ w.wtype = "UPDATE" /\ w.tuple = s.tuple
  BY WritesTyping DEF Slots
<1>2. s2 \in Slots /\ s2.tuple = tu /\ s2.st = "live"
  BY DEF Slots
<1> HIDE DEF w, s2
<1>3. /\ On(ws2, r) = On(ws, r) \cup {n} /\ ws2[n] = w
      /\ \A i \in On(ws, r) : ws2[i] = ws[i] /\ i < n
  BY <1>1, AppendOn DEF On
<1>4. Visible(s) = s.tuple
  BY DEF Visible
<1>5. \A i \in On(ws, r) : ws[i].wtype # "DELETE"
  BY DEF Mine, Owner
<1>6. Shaped(ws) => Shaped(ws2)
  <2>1. /\ Len(ws) \in Nat /\ Len(ws2) = n
        /\ \A i \in 1..Len(ws) : ws2[i] = ws[i]
    BY <1>1, AppendOn
  <2>2. \A i \in 1..n : i \in 1..Len(ws) \/ i = n
    BY <2>1
  <2> SUFFICES ASSUME Shaped(ws), NEW i \in 1..n, NEW j \in 1..n, i < j, ws2[i].rid = ws2[j].rid
               PROVE  ws2[j].wtype # "INSERT" /\ (ws2[i].wtype = "DELETE" => ws2[j].wtype = "DELETE")
    BY <2>1 DEF Shaped
  <2> HIDE DEF ws2
  <2>3. i \in 1..Len(ws)
    BY <2>1, <2>2
  <2>4. CASE j \in 1..Len(ws)
    BY <2>1, <2>3, <2>4 DEF Shaped
  <2>5. CASE j = n
    <3>1. i \in On(ws, r)
      BY <1>1, <1>3, <2>1, <2>3, <2>5 DEF On
    <3> QED BY <1>1, <1>3, <1>5, <2>5, <3>1
  <2> QED BY <2>2, <2>4, <2>5
<1> HIDE DEF ws2, n
<1>7. ASSUME Owner(ws, r, "run", st, s, d) PROVE Owner(ws, r, "run", st, s2, d)
  <2>1. PICK i \in On(ws, r) : (\A j \in On(ws, r) : i <= j) /\ d = Origin(ws[i], s)
    BY <1>7, OwnerRuns
  <2>2. ws[i].wtype \in {"INSERT", "UPDATE"}
    <3>1. i \in 1..Len(ws)
      BY DEF On
    <3>2. ws[i] \in Writes
      BY <3>1
    <3> QED BY <1>5, <3>2 DEF Writes
  <2>3. d = Origin(ws[i], s2)
    BY <2>1, <2>2 DEF Origin
  <2> QED BY <1>2, <1>5, <2>1, <2>3, OwnerRuns
<1>8. Owner(ws2, r, "run", st, s2, d)
  <2>1. \A i \in On(ws2, r) : ws2[i].wtype # "DELETE"
    BY <1>1, <1>3, <1>5
  <2>2. \E i \in On(ws2, r) : (\A j \in On(ws2, r) : i <= j) /\ d = Origin(ws2[i], s2)
    <3>1. CASE Owner(ws, r, "run", st, s, d)
      <4>1. PICK i \in On(ws, r) : (\A j \in On(ws, r) : i <= j) /\ d = Origin(ws[i], s)
        BY <3>1, OwnerRuns
      <4>2. ws[i].wtype \in {"INSERT", "UPDATE"}
        <5>1. i \in 1..Len(ws)
          BY DEF On
        <5>2. ws[i] \in Writes
          BY <5>1
        <5> QED BY <1>5, <5>2 DEF Writes
      <4>3. i \in On(ws2, r) /\ d = Origin(ws2[i], s2)
        BY <1>3, <4>1, <4>2 DEF Origin
      <4>4. \A j \in On(ws2, r) : i <= j
        BY <1>3, <4>1 DEF On, n
      <4> QED BY <4>3, <4>4
    <3>2. CASE On(ws, r) = {} /\ Visible(s) = d
      <4>1. On(ws2, r) = {n} /\ n <= n
        BY <1>3, <3>2, AppendOn, <1>1 DEF n
      <4> QED BY <1>1, <1>3, <1>4, <3>2, <4>1 DEF Origin
    <3> QED BY <3>1, <3>2 DEF Mine
  <2> QED BY <1>2, <2>1, <2>2, OwnerRuns
<1> QED BY <1>1, <1>2, <1>6, <1>7, <1>8 DEF w, s2, ws2

\* A record on a row the transaction has no record on.
LEMMA OwnerInsert ==
    ASSUME NEW ws \in Seq(Writes), NEW r \in Rid, NEW st, NEW s \in Slots,
           s.st = "live", On(ws, r) = {}
    PROVE  LET w == WriteRecord(r, "INSERT", NoTuple)
           IN  /\ w \in Writes
               /\ Owner(Append(ws, w), r, "run", st, s, NoTuple)
               /\ Shaped(ws) => Shaped(Append(ws, w))
<1> DEFINE w == WriteRecord(r, "INSERT", NoTuple)
           ws2 == Append(ws, w)
           n == Len(ws) + 1
<1>1. w \in Writes /\ w.rid = r /\ w.wtype = "INSERT"
  BY WritesTyping
<1> HIDE DEF w
<1>2. On(ws2, r) = {n} /\ ws2[n] = w /\ n <= n
  BY <1>1, AppendOn
<1>3. Shaped(ws) => Shaped(ws2)
  <2>1. /\ Len(ws) \in Nat /\ Len(ws2) = n
        /\ \A i \in 1..Len(ws) : ws2[i] = ws[i] /\ ws[i].rid # r
    BY <1>1, AppendOn DEF On
  <2>2. \A i \in 1..n : i \in 1..Len(ws) \/ i = n
    BY <2>1
  <2> HIDE DEF ws2
  <2> QED BY <1>1, <1>2, <2>1, <2>2 DEF Shaped
<1> HIDE DEF ws2, n
<1>4. NoTuple = Origin(ws2[n], s)
  BY <1>1, <1>2 DEF Origin
<1>5. Owner(ws2, r, "run", st, s, NoTuple)
  BY <1>1, <1>2, <1>4, OwnerRuns
<1> QED BY <1>1, <1>3, <1>5 DEF w, ws2

\* An operation on a row of t is refused, or fails: the record of a
\* MarkDelete is there all the same.
LEMMA OwnerDoomed ==
    ASSUME NEW ws \in Seq(Writes), NEW r \in Rid, NEW st, NEW s \in Slots, NEW d,
           s.st = "unused" \/ s.st = "marked", Owner(ws, r, "run", st, s, d)
    PROVE  Owner(Append(ws, WriteRecord(r, "DELETE", NoTuple)), r, "run", "ABORTED", s, d)
<1> DEFINE w == WriteRecord(r, "DELETE", NoTuple)
           ws2 == Append(ws, w)
           n == Len(ws) + 1
<1>1. w \in Writes /\ w.rid = r /\ w.wtype = "DELETE"
  BY WritesTyping
<1> HIDE DEF w
<1>2. /\ On(ws2, r) = On(ws, r) \cup {n} /\ ws2[n].wtype = "DELETE"
      /\ \A i \in On(ws, r) : ws2[i] = ws[i] /\ i < n
  BY <1>1, AppendOn DEF On
<1> HIDE DEF ws2, n
<1>3. PICK i \in On(ws, r) : (\A j \in On(ws, r) : i <= j) /\ d = Origin(ws[i], s)
  BY OwnerRuns
<1>4. s.st = "marked"
  BY <1>3, OwnerRuns
<1>5. i \in On(ws2, r) /\ d = Origin(ws2[i], s)
  BY <1>2, <1>3
<1>6. \A j \in On(ws2, r) : i <= j
  BY <1>2, <1>3 DEF On, n
<1>7. Owner(ws2, r, "run", "ABORTED", s, d)
  BY <1>2, <1>4, <1>5, <1>6, OwnerRuns
<1> QED BY <1>7 DEF w, ws2

LEMMA OwnerEnds ==
    ASSUME NEW ws, NEW r, NEW st, NEW s, NEW d, Owner(ws, r, "run", st, s, d)
    PROVE  /\ Owner(ws, r, "run", "ABORTED", s, d)
           /\ Owner(ws, r, "abort", "ABORTED", s, d)
           /\ st = "GROWING" => Owner(ws, r, "commit", "COMMITTED", s, Visible(s))
<1>1. Owner(ws, r, "run", "ABORTED", s, d)
  BY OwnerRuns
<1>2. Owner(ws, r, "abort", "ABORTED", s, d)
  BY DEF Owner
<1>3. st = "GROWING" => Owner(ws, r, "commit", "COMMITTED", s, Visible(s))
  BY DEF Owner
<1> QED BY <1>1, <1>2, <1>3

\* Commit: a record that is no DELETE is dropped, a DELETE applied.
LEMMA OwnerCommits ==
    ASSUME NEW ws \in Seq(Writes), ws # <<>>, NEW r \in Rid, NEW s \in Slots, NEW d,
           Owner(ws, r, "commit", "COMMITTED", s, d), ws[Len(ws)].rid = r
    PROVE  /\ ws[Len(ws)].wtype # "DELETE" => Owner(Popped(ws), r, "commit", "COMMITTED", s, d)
           /\ ws[Len(ws)].wtype = "DELETE" /\ s.st \in {"live", "marked"} =>
                /\ d = NoTuple
                /\ \A i \in On(Popped(ws), r) : Popped(ws)[i].wtype # "DELETE"
<1> DEFINE ws2 == Popped(ws)
           n == Len(ws)
<1>1. /\ n \in On(ws, r) /\ On(ws2, r) = On(ws, r) \ {n}
      /\ \A i \in On(ws2, r) : ws2[i] = ws[i]
  BY PopOn DEF On
<1> HIDE DEF ws2, n
<1>2. ASSUME ws[n].wtype # "DELETE" PROVE Owner(ws2, r, "commit", "COMMITTED", s, d)
  BY <1>1, <1>2 DEF Owner
<1>3. ASSUME ws[n].wtype = "DELETE", s.st \in {"live", "marked"}
      PROVE  d = NoTuple /\ \A i \in On(ws2, r) : ws2[i].wtype # "DELETE"
  <2>1. s.st = "marked" /\ Visible(s) = d
    BY <1>1, <1>3 DEF Owner
  <2>2. \A i, j \in On(ws, r) : ws[i].wtype = "DELETE" /\ ws[j].wtype = "DELETE" => i = j
    BY <2>1 DEF Owner
  <2> QED BY <1>1, <1>3, <2>1, <2>2 DEF Visible
<1> QED BY <1>2, <1>3 DEF ws2, n

\* Abort: the last record is undone.
LEMMA OwnerUndoes ==
    ASSUME NEW ws \in Seq(Writes), ws # <<>>, NEW r \in Rid, NEW s \in Slots, NEW d, Shaped(ws),
           Owner(ws, r, "abort", "ABORTED", s, d), ws[Len(ws)].rid = r
    PROVE  LET w == ws[Len(ws)]
               ws2 == Popped(ws)
               s2 == [s EXCEPT !.st = IF @ = "marked" THEN "live" ELSE @]
               s3 == [s EXCEPT !.tuple = w.tuple]
           IN  /\ w.wtype = "DELETE" /\ s.st \in {"empty", "marked"} =>
                    s2 \in Slots /\ Owner(ws2, r, "abort", "ABORTED", s2, d)
               /\ w.wtype = "UPDATE" =>
                    s.st = "live" /\ s3 \in Slots /\ Owner(ws2, r, "abort", "ABORTED", s3, d)
               /\ w.wtype = "INSERT" => d = NoTuple /\ On(ws2, r) = {}
<1> DEFINE ws2 == Popped(ws)
           n == Len(ws)
           w == ws[n]
           s2 == [s EXCEPT !.st = IF @ = "marked" THEN "live" ELSE @]
           s3 == [s EXCEPT !.tuple = w.tuple]
<1>1. /\ n \in On(ws, r) /\ On(ws2, r) = On(ws, r) \ {n}
      /\ \A i \in On(ws2, r) : ws2[i] = ws[i]
      /\ \A i \in On(ws, r) : i < n \/ i = n
      /\ w \in Writes
      /\ \A i \in On(ws, r) : ws[i] \in Writes
  BY PopOn DEF On
<1>2. PICK f \in On(ws, r) : (\A j \in On(ws, r) : f <= j) /\ d = Origin(ws[f], s)
  BY <1>1 DEF Owner
<1>3. \A i \in On(ws, r) : i < n =>
            w.wtype # "INSERT" /\ (ws[i].wtype = "DELETE" => w.wtype = "DELETE")
  BY DEF Shaped, On
<1>4. f \in On(ws2, r) \/ (On(ws2, r) = {} /\ f = n)
  BY <1>1, <1>2 DEF On
<1>5. \A j \in On(ws2, r) : f <= j
  BY <1>1, <1>2
<1> HIDE DEF ws2, n, w
<1>6. ASSUME w.wtype = "DELETE", s.st \in {"empty", "marked"}
      PROVE  s2 \in Slots /\ Owner(ws2, r, "abort", "ABORTED", s2, d)
  <2>1. /\ s2 \in Slots /\ s2.tuple = s.tuple
        /\ s.st = "marked" => s2.st = "live"
        /\ s.st = "empty" => s2.st = "empty"
    BY <1>6 DEF Slots
  <2> HIDE DEF s2
  <2>2. (\E i \in On(ws2, r) : ws2[i].wtype # "DELETE") => s2.st = "live"
    BY <1>1, <1>6, <2>1 DEF Owner
  <2>3. d = Origin(ws[f], s2)
    BY <1>2, <2>1 DEF Origin
  <2>4. IF On(ws2, r) # {}
        THEN \E i \in On(ws2, r) : (\A j \in On(ws2, r) : i <= j) /\ d = Origin(ws2[i], s2)
        ELSE Visible(s2) = d
    <3>1. CASE f \in On(ws2, r)
      BY <1>1, <1>5, <2>3, <3>1
    <3>2. CASE On(ws2, r) = {} /\ f = n
      <4>1. d = s2.tuple
        BY <1>6, <2>3, <3>2 DEF Origin, w
      <4> QED BY <1>6, <2>1, <3>2, <4>1 DEF Visible, Slots
    <3> QED BY <1>4, <3>1, <3>2
  <2> QED BY <2>1, <2>2, <2>4 DEF Owner
<1>7. ASSUME w.wtype = "UPDATE"
      PROVE  s.st = "live" /\ s3 \in Slots /\ Owner(ws2, r, "abort", "ABORTED", s3, d)
  <2>1. \A i \in On(ws, r) : ws[i].wtype # "DELETE"
    BY <1>1, <1>3, <1>7 DEF w
  <2>2. s.st = "live"
    BY <1>1, <2>1 DEF Owner
  <2>3. s3 \in Slots /\ s3.st = "live" /\ s3.tuple = w.tuple
    BY <1>1, <1>7, <2>2 DEF Slots, Writes
  <2> HIDE DEF s3
  <2>4. IF On(ws2, r) # {}
        THEN \E i \in On(ws2, r) : (\A j \in On(ws2, r) : i <= j) /\ d = Origin(ws2[i], s3)
        ELSE Visible(s3) = d
    <3>1. CASE f \in On(ws2, r)
      <4>1. ws[f].wtype \in {"INSERT", "UPDATE"}
        BY <1>1, <2>1 DEF Writes
      <4>2. d = Origin(ws[f], s3)
        BY <1>2, <4>1 DEF Origin
      <4> QED BY <1>1, <1>5, <3>1, <4>2
    <3>2. CASE On(ws2, r) = {} /\ f = n
      <4>1. d = w.tuple
        BY <1>2, <1>7, <3>2 DEF Origin, w
      <4> QED BY <2>3, <3>2, <4>1 DEF Visible
    <3> QED BY <1>4, <3>1, <3>2
  <2>5. \A i \in On(ws2, r) : ws2[i].wtype # "DELETE"
    BY <1>1, <2>1
  <2> QED BY <2>2, <2>3, <2>4, <2>5 DEF Owner
<1>8. ASSUME w.wtype = "INSERT" PROVE d = NoTuple /\ On(ws2, r) = {}
  <2>1. \A i \in On(ws, r) : i = n
    BY <1>1, <1>3, <1>8
  <2> QED BY <1>1, <1>2, <1>8, <2>1 DEF Origin, w
<1> QED BY <1>6, <1>7, <1>8 DEF ws2, w, n, s2, s3
-----------------------------------------------------------------------------
(* Steps, by what they do to the state.                                    *)

\* Core without the types.
Rest ==
    /\ Phases /\ Sleeping /\ Latched /\ LocksKept /\ Records
    /\ Owners /\ Settled /\ Fresh /\ SharedReads /\ Durable

LEMMA RecordTyping ==
    ASSUME HeapTyped, NEW t \in Txn
    PROVE  /\ write_set[t] \in Seq(Writes) /\ Len(write_set[t]) \in Nat
           /\ \A i \in 1..Len(write_set[t]) : write_set[t][i] \in Writes /\ write_set[t][i].rid \in Rid
<1>1. write_set[t] \in Seq(Writes)
  BY DEF HeapTyped
<1>2. \A i \in 1..Len(write_set[t]) : write_set[t][i] \in Writes
  BY <1>1
<1>3. \A w \in Writes : w.rid \in Rid
  BY DEF Writes
<1> QED BY <1>1, <1>2, <1>3

LEMMA CoreIsRest == Core <=> HeapTyped /\ Rest
BY DEF Core, Rest

\* The step leaves u alone.
Idle(u) ==
    /\ state'[u] = state[u] /\ call'[u] = call[u] /\ pending'[u] = pending[u]
    /\ write_set'[u] = write_set[u] /\ phase'[u] = phase[u]
    /\ shared'[u] = shared[u] /\ exclusive'[u] = exclusive[u]

\* u changes its own records, state or phase, and no lock.
Moves(u) ==
    /\ call'[u] = NotBlocked /\ ~Blocked(u)
    /\ shared'[u] = shared[u] /\ exclusive'[u] = exclusive[u]
    /\ pending'[u].op \in {"none", "walk"}
    /\ phase'[u] = "run" => phase[u] = "run" /\ state'[u] \in {"GROWING", "ABORTED"}
    /\ phase'[u] = "abort" => state'[u] = "ABORTED"
    /\ phase'[u] = "commit" => state'[u] = "COMMITTED"
    /\ phase'[u] = "ended" => state'[u] \in {"COMMITTED", "ABORTED"}
    /\ phase'[u] # "run" => pending'[u].op # "walk"
    /\ phase'[u] # "ended" => phase[u] # "ended"
    /\ Shaped(write_set'[u]) /\ \A i \in 1..Len(write_set'[u]) : Covered(u, i)'
    /\ \A r \in Rid : Holds(u, r, "X") =>
        /\ Inserting(r) => Stuck(write_set'[u], r, phase'[u])
        /\ ~Inserting(r) => Owner(write_set'[u], r, phase'[u], state'[u], slot[r], db[r])
        /\ Inserting(r) /\ StuckCommit(u, r) => StuckCommit(u, r)'

\* Who sleeps slept before and has not moved.
LEMMA LatchedKept ==
    ASSUME Latched, \A u \in Txn : Blocked(u)' => Blocked(u) /\ Idle(u)
    PROVE  Latched'
<1> SUFFICES ASSUME NEW u \in Txn, NEW v \in Txn, u # v, Blocked(u)', Blocked(v)',
                    call'[u].rid[1] = call'[v].rid[1]
             PROVE  pending'[u].op = "get" /\ pending'[v].op = "get"
  BY ZenonT(60) DEF Latched
<1>1. Blocked(u) /\ Blocked(v) /\ call'[u] = call[u] /\ call'[v] = call[v]
      /\ pending'[u] = pending[u] /\ pending'[v] = pending[v]
  BY ZenonT(60) DEF Idle
<1> QED BY ZenonT(60), <1>1 DEF Latched

LEMMA SleepingKept ==
    ASSUME Sleeping, slot' = slot,
           \A u \in Txn : IF Blocked(u)' THEN Blocked(u) /\ Idle(u)
                          ELSE pending'[u].op \in {"none", "walk"}
    PROVE  Sleeping'
<1>1. ASSUME NEW u \in Txn, Blocked(u)'
      PROVE  /\ phase'[u] = "run" /\ state'[u] = "GROWING"
             /\ pending'[u].op \in {"get", "mark", "update", "insert"}
             /\ call'[u].op = (IF pending'[u].op = "get" THEN "S" ELSE "X")
             /\ slot'[call'[u].rid].st \in
                    (IF pending'[u].op = "mark" THEN {"live", "empty"} ELSE {"live"})
  <2>1. Blocked(u) /\ phase'[u] = phase[u] /\ state'[u] = state[u] /\ pending'[u] = pending[u]
        /\ call'[u] = call[u]
    BY ZenonT(60), <1>1 DEF Idle
  <2> QED BY ZenonT(60), <2>1 DEF Sleeping
<1> QED BY ZenonT(60), <1>1 DEF Sleeping

\* The call of an insertion.
LEMMA CallOf == \A r : [op |-> "X", rid |-> r].rid = r /\ [op |-> "X", rid |-> r].op = "X"
OBVIOUS

LEMMA MoveStep ==
    ASSUME IInv, Core, SameLocks, UNCHANGED <<slot, db, writer>>,
           \A u \in Txn : Idle(u) \/ Moves(u),
           \A u \in Txn : Persisted(u) => Persisted(u)'
    PROVE  Rest'
<1> USE DEF Rest
<1>1. HeapTyped /\ Rest
  BY CoreIsRest
<1>2. \A u \in Txn : Blocked(u)' = Blocked(u) /\ (Blocked(u) => Idle(u))
  BY DEF Idle, Moves, Blocked
<1>3. \A r \in Rid : Inserting(r)' <=> Inserting(r)
  BY <1>2 DEF Inserting, Inserts, Idle
<1>4. \A r \in Rid : XLocked(r)' <=> XLocked(r)
  BY DEF XLocked, SameLocks
<1>5. Phases'
  BY <1>1 DEF Phases, Idle, Moves
<1>6. Sleeping'
  <2>1. ASSUME NEW u \in Txn
        PROVE  IF Blocked(u)' THEN Blocked(u) /\ Idle(u) ELSE pending'[u].op \in {"none", "walk"}
    <3>1. CASE Blocked(u)
      BY ZenonT(60), <1>2, <3>1
    <3>2. CASE ~Blocked(u) /\ Idle(u)
      BY ZenonT(60), <1>1, <1>2, <3>2 DEF Sleeping, Idle
    <3>3. CASE ~Blocked(u) /\ Moves(u)
      BY ZenonT(60), <1>2, <3>3 DEF Moves
    <3> QED BY ZenonT(60), <3>1, <3>2, <3>3
  <2> QED BY ZenonT(60), <1>1, <2>1, SleepingKept
<1>7. Latched'
  BY ZenonT(60), <1>1, <1>2, LatchedKept
<1>8. LocksKept'
  <2>1. \A u \in Txn : /\ phase'[u] = "run" => phase[u] = "run"
                       /\ phase'[u] # "ended" => phase[u] # "ended"
                       /\ shared'[u] = shared[u] /\ exclusive'[u] = exclusive[u]
    BY ZenonT(60) DEF Idle, Moves
  <2>2. \A u \in Txn : shared[u] \subseteq Rid /\ exclusive[u] \subseteq Rid
    BY DEF IInv, TypeOK
  <2> QED BY <1>1, <2>1, <2>2 DEF LocksKept, SameLocks
<1>9. Records'
  <2> SUFFICES ASSUME NEW u \in Txn
               PROVE  Shaped(write_set'[u]) /\ \A i \in 1..Len(write_set'[u]) : Covered(u, i)'
    BY DEF Records
  <2>1. CASE Idle(u)
    <3>1. \A i \in 1..Len(write_set[u]) : write_set[u][i].rid \in Rid
      BY <1>1, RecordTyping
    <3> QED BY <1>1, <2>1, <3>1 DEF Records, Covered, Idle, SameLocks
  <2> QED BY ZenonT(60), <2>1 DEF Moves
<1>10. Owners'
  <2> SUFFICES ASSUME NEW u \in Txn, NEW r \in Rid, Holds(u, r, "X")' PROVE Owned(u, r)'
    BY DEF Owners
  <2>1. Holds(u, r, "X") /\ Owned(u, r)
    BY <1>1 DEF SameLocks, Owners
  <2>2. CASE Idle(u)
    BY <1>3, <2>1, <2>2 DEF Owned, Idle
  <2>3. CASE Moves(u)
    BY ZenonT(60), <1>3, <2>1, <2>3 DEF Owned, Moves
  <2> QED BY <2>2, <2>3
<1>11. Settled'
  BY <1>1, <1>3, <1>4 DEF Settled
<1>12. Fresh'
  <2> SUFFICES ASSUME NEW r \in Rid, Inserting(r), NEW u \in Txn, StuckCommit(u, r)
               PROVE  StuckCommit(u, r)'
    BY <1>1, <1>3 DEF Fresh
  <2>1. CASE Idle(u)
    BY <2>1 DEF StuckCommit, SameLocks, Idle
  <2>2. CASE Moves(u)
    BY ZenonT(60), <2>2 DEF StuckCommit, Moves
  <2> QED BY <2>1, <2>2
<1>13. SharedReads'
  BY ZenonT(60), <1>1 DEF SharedReads, Idle, Moves
<1>14. Durable'
  BY <1>1 DEF Durable, SameLocks, HeapTyped
<1> QED BY <1>5, <1>6, <1>7, <1>8, <1>9, <1>10, <1>11, <1>12, <1>13, <1>14

\* t has r locked, before or after the step at least; the step changes the
\* slot of r, t's records on it and t's lock on it.
LEMMA RowStep ==
    ASSUME IInv, IInv', Core, NEW t \in Txn, NEW r \in Rid, NEW ws2 \in Seq(Writes), NEW s2,
           phase[t] # "ended",
           Holds(t, r, "X") \/ Holds(t, r, "X")',
           \A u \in Txn, s \in Rid, n \in {"S", "X"} :
                u # t \/ s # r \/ n # "X" => (Holds(u, s, n)' <=> Holds(u, s, n)),
           \A u \in Txn \ {t} : Idle(u) /\ (Blocked(u) => call[u].rid[1] # r[1]),
           Blocked(t) => call[t].rid = r,
           shared'[t] = shared[t], exclusive'[t] \subseteq exclusive[t] \cup {r},
           state'[t] = state[t], call'[t] = NotBlocked, pending'[t].op = "none",
           slot' = [slot EXCEPT ![r] = s2], write_set'[t] = ws2,
           Shaped(ws2), \A s \in Rid \ {r} : SameOn(write_set[t], ws2, s),
           \A i \in On(ws2, r) :
                phase[t] # "commit" \/ ws2[i].wtype = "DELETE" => Holds(t, r, "X")',
           Holds(t, r, "X")' => Owner(ws2, r, phase[t], state[t], s2, db[r]),
           ~Holds(t, r, "X")' => phase[t] # "run" /\ Visible(s2) = NoTuple /\ db[r] = NoTuple,
           UNCHANGED <<phase, db, writer, log, persistent>>
    PROVE  Rest'
<1> USE DEF Rest
<1>1. HeapTyped /\ Rest
  BY ZenonT(60), CoreIsRest
<1>2. \A u \in Txn : Blocked(u)' => u # t /\ Blocked(u) /\ call[u].rid[1] # r[1]
  BY DEF Idle, Blocked
<1>3. ~Inserting(r)' /\ \A s \in Rid \ {r} : Inserting(s)' <=> Inserting(s)
  <2>1. ~Inserting(r)'
    BY ZenonT(60), <1>2 DEF Inserting, Inserts, Idle
  <2>2. ASSUME NEW s \in Rid \ {r}, NEW u \in Txn PROVE Inserts(u, s)' <=> Inserts(u, s)
    <3>1. CASE u = t
      BY ZenonT(60), <3>1 DEF Inserts, Blocked
    <3>2. CASE u # t
      BY ZenonT(60), <3>2 DEF Inserts, Blocked, Idle
    <3> QED BY ZenonT(60), <3>1, <3>2
  <2> QED BY ZenonT(60), <2>1, <2>2 DEF Inserting
<1>4. slot'[r] = s2 /\ \A s \in Rid \ {r} : slot'[s] = slot[s]
  BY ZenonT(60), <1>1 DEF HeapTyped
<1>5. \A u \in Txn : ~Holds(u, r, "S") /\ (u # t => ~Holds(u, r, "X") /\ ~Holds(u, r, "X")')
  <2> SUFFICES ASSUME NEW u \in Txn, NEW n \in {"S", "X"}, n = "X" => u # t, Holds(u, r, n)
               PROVE  FALSE
    BY ZenonT(60)
  <2>1. Holds(u, r, n)'
    BY ZenonT(60)
  <2>2. CASE Holds(t, r, "X")
    BY ZenonT(60), <2>2, LocksExclude
  <2>3. CASE Holds(t, r, "X")'
    BY ZenonT(60), <2>1, <2>3, LocksExcludeNext
  <2> QED BY ZenonT(60), <2>2, <2>3
<1>6. Phases'
  <2> SUFFICES ASSUME NEW u \in Txn PROVE phase'[u] = phase[u] /\ state'[u] = state[u]
                                          /\ (pending'[u] = pending[u] \/ pending'[u].op = "none")
    BY ZenonT(60), <1>1 DEF Phases
  <2> QED BY ZenonT(60) DEF Idle
<1>7. Sleeping'
  <2> SUFFICES ASSUME NEW u \in Txn
               PROVE  IF Blocked(u)' THEN Idle(u) /\ phase'[u] = phase[u] /\ call[u].rid # r
                      ELSE pending'[u].op \in {"none", "walk"}
    <3>1. \A u \in Txn : Blocked(u) => call[u].rid \in Rid
      BY ZenonT(60) DEF Blocked, IInv, TypeOK, BlockedCall
    <3>2. \A s \in Rid : s # r => slot'[s] = slot[s]
      BY ZenonT(60), <1>1 DEF HeapTyped
    <3>3. HeapTyped /\ Sleeping
      BY ZenonT(60), <1>1
    <3>4. ASSUME NEW u \in Txn, Blocked(u)', Idle(u), phase'[u] = phase[u], call[u].rid # r
          PROVE  /\ phase'[u] = "run" /\ state'[u] = "GROWING"
                 /\ pending'[u].op \in {"get", "mark", "update", "insert"}
                 /\ call'[u].op = (IF pending'[u].op = "get" THEN "S" ELSE "X")
                 /\ slot'[call'[u].rid].st \in
                        (IF pending'[u].op = "mark" THEN {"live", "empty"} ELSE {"live"})
      <4>1. /\ Blocked(u) /\ state'[u] = state[u] /\ call'[u] = call[u] /\ pending'[u] = pending[u]
        BY ZenonT(60), <3>4 DEF Idle, Blocked
      <4>2. slot'[call[u].rid] = slot[call[u].rid]
        BY ZenonT(60), <3>1, <3>2, <3>4, <4>1
      <4> QED BY ZenonT(60), <3>3, <3>4, <4>1, <4>2 DEF Sleeping
    <3> QED BY ZenonT(60), <3>4 DEF Sleeping
  <2>1. CASE u = t
    BY ZenonT(60), <2>1, <1>2
  <2>2. CASE u # t
    BY ZenonT(60), <2>2, <1>1, <1>2 DEF Idle, Blocked, Sleeping
  <2> QED BY ZenonT(60), <2>1, <2>2
<1>8. Latched'
  <2>1. ASSUME NEW u \in Txn, Blocked(u)' PROVE Blocked(u) /\ Idle(u)
    BY ZenonT(60), <1>2, <2>1 DEF Idle, Blocked
  <2> QED BY ZenonT(60), <1>1, <2>1, LatchedKept
<1>9. LocksKept'
  <2>1. \A u \in Txn : shared[u] \subseteq Rid /\ exclusive[u] \subseteq Rid
    BY ZenonT(60) DEF IInv, TypeOK
  <2>2. \A u \in Txn : shared'[u] = shared[u] /\ (u # t => exclusive'[u] = exclusive[u])
    BY ZenonT(60) DEF Idle
  <2> QED BY ZenonT(60), <1>1, <2>1, <2>2 DEF LocksKept
<1>10. Records'
  <2> SUFFICES ASSUME NEW u \in Txn, NEW i \in 1..Len(write_set'[u])
               PROVE  Covered(u, i)'
    BY ZenonT(60), <1>1 DEF Records, Idle
  <2>1. CASE u # t
    <3>1. i \in 1..Len(write_set[u]) /\ write_set'[u] = write_set[u]
      BY <2>1 DEF Idle
    <3>2. write_set[u][i].rid \in Rid /\ Covered(u, i)
      BY ZenonT(60), <1>1, <3>1, RecordTyping DEF Records
    <3> QED BY ZenonT(60), <2>1, <3>1, <3>2 DEF Covered, Idle
  <2>2. CASE u = t
    <3>1. ws2[i] \in Writes /\ ws2[i].rid \in Rid
      BY <2>2 DEF Writes
    <3>2. CASE ws2[i].rid = r
      <4>1. i \in On(ws2, r)
        BY ZenonT(60), <2>2, <3>2 DEF On
      <4> QED BY ZenonT(60), <2>2, <3>2, <4>1 DEF Covered
    <3>3. CASE ws2[i].rid # r
      <4>1. i \in On(ws2, ws2[i].rid)
        BY <2>2 DEF On
      <4>2. i \in On(write_set[t], ws2[i].rid) /\ ws2[i] = write_set[t][i]
        BY ZenonT(60), <3>1, <3>3, <4>1 DEF SameOn
      <4>3. Covered(t, i)
        BY ZenonT(60), <1>1, <4>2 DEF On, Records
      <4> QED BY ZenonT(60), <2>2, <3>1, <3>3, <4>2, <4>3 DEF Covered
    <3> QED BY ZenonT(60), <3>2, <3>3
  <2> QED BY ZenonT(60), <2>1, <2>2
<1>11. Owners'
  <2> SUFFICES ASSUME NEW u \in Txn, NEW s \in Rid, Holds(u, s, "X")' PROVE Owned(u, s)'
    BY ZenonT(60) DEF Owners
  <2>1. CASE s = r
    <3>1. u = t
      BY ZenonT(60), <2>1, <1>5
    <3> QED BY ZenonT(60), <2>1, <3>1, <1>3, <1>4 DEF Owned
  <2>2. CASE s # r
    <3>1. Owned(u, s)
      BY ZenonT(60), <1>1, <2>2 DEF Owners
    <3>2. CASE u # t
      BY ZenonT(60), <1>3, <1>4, <2>2, <3>1, <3>2 DEF Owned, Idle
    <3>3. CASE u = t
      <4>1. SameOn(write_set[t], ws2, s)
        BY <2>2
      <4> QED BY ZenonT(60), <1>3, <1>4, <2>2, <3>1, <3>3, <4>1, OwnerSame DEF Owned
    <3> QED BY ZenonT(60), <3>2, <3>3
  <2> QED BY ZenonT(60), <2>1, <2>2
<1>12. Settled'
  <2>1. \A s \in Rid \ {r} : XLocked(s)' <=> XLocked(s)
    BY ZenonT(60) DEF XLocked
  <2>2. ~XLocked(r)' => ~Holds(t, r, "X")'
    BY DEF XLocked
  <2> QED BY ZenonT(60), <1>1, <1>3, <1>4, <2>1, <2>2 DEF Settled
<1>13. Fresh'
  <2> SUFFICES ASSUME NEW s \in Rid \ {r}, NEW u \in Txn, StuckCommit(u, s) PROVE StuckCommit(u, s)'
    BY ZenonT(60), <1>1, <1>3 DEF Fresh
  <2>1. CASE u # t
    BY ZenonT(60), <2>1 DEF StuckCommit, Idle
  <2>2. CASE u = t
    BY ZenonT(60), <2>2 DEF StuckCommit, SameOn
  <2> QED BY ZenonT(60), <2>1, <2>2
<1>14. SharedReads'
  <2>1. \A u \in Txn : shared[u] \subseteq Rid /\ shared'[u] = shared[u]
    BY ZenonT(60) DEF IInv, TypeOK, Idle
  <2>2. \A u \in Txn : phase[u] # "ended" => r \notin shared[u]
    BY ZenonT(60), <1>1, <1>5 DEF LocksKept
  <2> QED BY ZenonT(60), <1>1, <1>4, <2>1, <2>2 DEF SharedReads
<1>15. Durable'
  <2>1. \A u \in Txn : Persisted(u)' <=> Persisted(u)
    BY ZenonT(60) DEF Persisted
  <2>2. \A s \in Rid : writer[s] # NoTxnYet => writer[s] \in Txn
    BY ZenonT(60), <1>1 DEF HeapTyped
  <2> QED BY ZenonT(60), <1>1, <2>1, <2>2 DEF Durable
<1> QED BY ZenonT(60), <1>6, <1>7, <1>8, <1>9, <1>10, <1>11, <1>12, <1>13, <1>14, <1>15

\* An operation of t falls asleep in its lock call for r.
LEMMA SleepStep ==
    ASSUME IInv, Core, NEW t \in Txn, NEW r \in Rid, NEW m, NEW o \in {"get", "mark", "update"},
           SameLocks, phase[t] = "run", state[t] = "GROWING", ~Blocked(t),
           call'[t] = [op |-> m, rid |-> r], pending'[t].op = o,
           m = IF o = "get" THEN "S" ELSE "X",
           slot[r].st \in (IF o = "mark" THEN {"live", "empty"} ELSE {"live"}),
           \A u \in Txn \ {t} :
                /\ Idle(u)
                /\ Blocked(u) /\ call[u].rid[1] = r[1] => o = "get" /\ pending[u].op = "get",
           UNCHANGED <<state, shared, exclusive, slot, write_set, phase, db, writer, log, persistent>>
    PROVE  Rest'
<1> USE DEF Rest
<1>1. HeapTyped /\ Rest
  BY ZenonT(60), CoreIsRest
<1>2. Blocked(t)' /\ \A u \in Txn \ {t} : Blocked(u)' <=> Blocked(u)
  BY DEF Blocked, NotBlocked, Idle
<1>3. \A s \in Rid : Inserting(s)' <=> Inserting(s)
  <2> SUFFICES ASSUME NEW u \in Txn, NEW s \in Rid PROVE Inserts(u, s)' <=> Inserts(u, s)
    BY ZenonT(60) DEF Inserting
  <2>1. CASE u = t
    BY ZenonT(60), <2>1 DEF Inserts
  <2>2. CASE u # t
    BY ZenonT(60), <2>2, <1>2 DEF Inserts, Idle
  <2> QED BY ZenonT(60), <2>1, <2>2
<1>4. Phases'
  BY <1>1 DEF Phases, Idle
<1>5. Sleeping'
  <2> SUFFICES ASSUME NEW u \in Txn
               PROVE  /\ ~Blocked(u)' => pending'[u].op \in {"none", "walk"}
                      /\ Blocked(u)' =>
                        /\ phase[u] = "run" /\ state[u] = "GROWING"
                        /\ pending'[u].op \in {"get", "mark", "update", "insert"}
                        /\ call'[u].op = (IF pending'[u].op = "get" THEN "S" ELSE "X")
                        /\ slot[call'[u].rid].st \in
                                (IF pending'[u].op = "mark" THEN {"live", "empty"} ELSE {"live"})
    BY DEF Sleeping
  <2>1. CASE u = t
    BY <2>1, <1>2
  <2>2. CASE u # t
    BY <2>2, <1>1, <1>2 DEF Sleeping, Idle
  <2> QED BY <2>1, <2>2
<1>6. Latched'
  <2> SUFFICES ASSUME NEW u \in Txn, NEW v \in Txn, u # v, Blocked(u)', Blocked(v)',
                      call'[u].rid[1] = call'[v].rid[1]
               PROVE  pending'[u].op = "get" /\ pending'[v].op = "get"
    BY DEF Latched
  <2>1. CASE u = t
    BY <2>1, <1>2 DEF Idle
  <2>2. CASE v = t
    BY <2>2, <1>2 DEF Idle
  <2>3. CASE u # t /\ v # t
    BY <2>3, <1>1, <1>2 DEF Latched, Idle
  <2> QED BY <2>1, <2>2, <2>3
<1>7. LocksKept'
  <2>1. \A u \in Txn : shared[u] \subseteq Rid /\ exclusive[u] \subseteq Rid
    BY DEF IInv, TypeOK
  <2> QED BY <1>1, <2>1 DEF LocksKept, SameLocks
<1>8. Records'
  <2>1. \A u \in Txn : \A i \in 1..Len(write_set[u]) : write_set[u][i].rid \in Rid
    BY <1>1, RecordTyping
  <2> QED BY ZenonT(60), <1>1, <2>1 DEF Records, Covered, SameLocks
<1>9. Owners'
  BY ZenonT(60), <1>1, <1>3 DEF Owners, Owned, SameLocks
<1>10. Settled'
  BY <1>1, <1>3 DEF Settled, XLocked, SameLocks
<1>11. Fresh'
  BY <1>1, <1>3 DEF Fresh, StuckCommit, SameLocks
<1>12. SharedReads'
  BY <1>1 DEF SharedReads
<1>13. Durable'
  <2>1. \A s \in Rid : writer[s] # NoTxnYet => writer[s] \in Txn
    BY <1>1 DEF HeapTyped
  <2> QED BY <1>1, <2>1 DEF Durable, SameLocks, Persisted
<1> QED BY ZenonT(60), <1>4, <1>5, <1>6, <1>7, <1>8, <1>9, <1>10, <1>11, <1>12, <1>13

\* An insertion into r falls asleep with the tuple on the page.
LEMMA InsertSleepStep ==
    ASSUME IInv, Core, NEW t \in Txn, NEW r \in Rid, NEW s2, s2.st = "live",
           SameLocks, phase[t] = "run", state[t] = "GROWING", ~Blocked(t),
           call'[t] = [op |-> "X", rid |-> r], pending'[t].op = "insert",
           slot[r].st \in {"empty", "unused"}, slot' = [slot EXCEPT ![r] = s2],
           \A u \in Txn \ {t} : Idle(u) /\ (Blocked(u) => call[u].rid[1] # r[1]),
           UNCHANGED <<state, shared, exclusive, write_set, phase, db, writer, log, persistent>>
    PROVE  Rest'
<1> USE DEF Rest
<1>1. HeapTyped /\ Rest
  BY CoreIsRest
<1>2. Blocked(t)' /\ \A u \in Txn \ {t} : Blocked(u)' <=> Blocked(u)
  BY DEF Blocked, NotBlocked, Idle
<1>3. /\ Inserting(r)' /\ ~Inserting(r)
      /\ \A s \in Rid \ {r} : Inserting(s)' <=> Inserting(s)
  <2>1. Inserts(t, r)' /\ \A u \in Txn : ~Inserts(u, r)
    <3>1. Inserts(t, r)' /\ ~Inserts(t, r)
      <4>1. call'[t].rid = r
        BY ZenonT(60), CallOf
      <4> QED BY ZenonT(60), <1>2, <4>1 DEF Inserts
    <3>2. ASSUME NEW u \in Txn, u # t PROVE ~Inserts(u, r)
      <4>1. Blocked(u) => call[u].rid[1] # r[1]
        BY ZenonT(60), <3>2
      <4> QED BY ZenonT(60), <4>1 DEF Inserts
    <3> QED BY ZenonT(60), <3>1, <3>2
  <2>2. ASSUME NEW u \in Txn, NEW s \in Rid \ {r} PROVE Inserts(u, s)' <=> Inserts(u, s)
    <3>1. CASE u = t
      BY <3>1 DEF Inserts
    <3>2. CASE u # t
      BY <3>2, <1>2 DEF Inserts, Idle
    <3> QED BY <3>1, <3>2
  <2> QED BY <2>1, <2>2 DEF Inserting
<1>4. slot'[r] = s2 /\ \A s \in Rid \ {r} : slot'[s] = slot[s]
  BY <1>1 DEF HeapTyped
<1>5. slot[r].tuple = NoTuple /\ Visible(slot[r]) = NoTuple
  <2>1. slot[r] \in Slots
    BY <1>1 DEF HeapTyped
  <2> QED BY <2>1 DEF Slots, Visible
<1>6. ASSUME NEW u \in Txn, Holds(u, r, "X")
      PROVE  Stuck(write_set[u], r, phase[u]) /\ db[r] = NoTuple
  <2> DEFINE ws == write_set[u]
  <2>1. Owner(ws, r, phase[u], state[u], slot[r], db[r])
    BY ZenonT(60), <1>1, <1>3, <1>6 DEF Owners, Owned
  <2> HIDE DEF ws
  <2>2. \A i \in On(ws, r) : ws[i].wtype = "DELETE"
    BY <2>1 DEF Owner
  <2>3. phase[u] = "run" => On(ws, r) # {}
    BY <2>1 DEF Owner
  <2>4. db[r] = NoTuple
    BY <1>5, <2>1, <2>2 DEF Owner, Origin
  <2> QED BY <2>2, <2>3, <2>4 DEF Stuck, ws
<1>7. db[r] = NoTuple
  BY <1>1, <1>3, <1>5, <1>6 DEF Settled, XLocked
<1>8. Phases'
  BY <1>1 DEF Phases, Idle
<1>9. Sleeping'
  <2> SUFFICES ASSUME NEW u \in Txn
               PROVE  /\ ~Blocked(u)' => pending'[u].op \in {"none", "walk"}
                      /\ Blocked(u)' =>
                        /\ phase[u] = "run" /\ state[u] = "GROWING"
                        /\ pending'[u].op \in {"get", "mark", "update", "insert"}
                        /\ call'[u].op = (IF pending'[u].op = "get" THEN "S" ELSE "X")
                        /\ slot'[call'[u].rid].st \in
                                (IF pending'[u].op = "mark" THEN {"live", "empty"} ELSE {"live"})
    BY DEF Sleeping
  <2>1. CASE u = t
    BY <2>1, <1>2, <1>4
  <2>2. CASE u # t
    <3>1. Blocked(u) => call[u].rid \in Rid
      BY DEF Blocked, IInv, TypeOK, BlockedCall
    <3> QED BY <2>2, <3>1, <1>1, <1>2, <1>4 DEF Sleeping, Idle
  <2> QED BY <2>1, <2>2
<1>10. Latched'
  <2> SUFFICES ASSUME NEW u \in Txn, NEW v \in Txn, u # v, Blocked(u)', Blocked(v)',
                      call'[u].rid[1] = call'[v].rid[1]
               PROVE  pending'[u].op = "get" /\ pending'[v].op = "get"
    BY ZenonT(60) DEF Latched
  <2>1. call'[t].rid = r
    BY ZenonT(60), CallOf
  <2>2. CASE u # t /\ v # t
    BY ZenonT(60), <1>1, <1>2, <2>2 DEF Latched, Idle
  <2>3. CASE u = t \/ v = t
    <3>1. ASSUME NEW x \in Txn, x # t, Blocked(x)' PROVE call'[x].rid[1] # r[1]
      <4>1. Blocked(x) /\ call'[x] = call[x] /\ (Blocked(x) => call[x].rid[1] # r[1])
        BY ZenonT(60), <1>2, <3>1 DEF Idle
      <4> QED BY ZenonT(60), <4>1
    <3> QED BY ZenonT(60), <2>1, <2>3, <3>1
  <2> QED BY ZenonT(60), <2>2, <2>3
<1>11. LocksKept'
  <2>1. \A u \in Txn : shared[u] \subseteq Rid /\ exclusive[u] \subseteq Rid
    BY ZenonT(60) DEF IInv, TypeOK
  <2> QED BY ZenonT(60), <1>1, <2>1 DEF LocksKept, SameLocks
<1>12. Records'
  <2>1. \A u \in Txn : \A i \in 1..Len(write_set[u]) : write_set[u][i].rid \in Rid
    BY ZenonT(60), <1>1, RecordTyping
  <2> QED BY ZenonT(60), <1>1, <2>1 DEF Records, Covered, SameLocks
<1>13. Owners'
  BY ZenonT(60), <1>1, <1>3, <1>4, <1>6 DEF Owners, Owned, SameLocks
<1>14. Settled'
  BY ZenonT(60), <1>1, <1>3, <1>4 DEF Settled, XLocked, SameLocks
<1>15. Fresh'
  BY ZenonT(60), <1>1, <1>3, <1>7 DEF Fresh, StuckCommit, SameLocks
<1>16. SharedReads'
  <2>1. \A u \in Txn : shared[u] \subseteq Rid
    BY ZenonT(60) DEF IInv, TypeOK
  <2> QED BY ZenonT(60), <1>1, <1>4, <2>1 DEF SharedReads
<1>17. Durable'
  <2>1. \A s \in Rid : writer[s] # NoTxnYet => writer[s] \in Txn
    BY <1>1 DEF HeapTyped
  <2> QED BY <1>1, <2>1 DEF Durable, SameLocks, Persisted
<1> QED BY <1>8, <1>9, <1>10, <1>11, <1>12, <1>13, <1>14, <1>15, <1>16, <1>17

\* t gets the shared lock of r.
LEMMA ReadStep ==
    ASSUME IInv, IInv', Core, NEW t \in Txn, NEW r \in Rid,
           GotLock(t, r, "S"), phase[t] = "run", slot[r].st = "live", ~Inserting(r),
           pending'[t].op = "none", Blocked(t) => pending[t].op = "get",
           \A u \in Txn \ {t} : Idle(u),
           UNCHANGED <<slot, write_set, phase, db, writer, log, persistent>>
    PROVE  Rest'
<1> USE DEF Rest
<1>1. HeapTyped /\ Rest
  BY CoreIsRest
<1>2. /\ shared'[t] = shared[t] \cup {r} /\ exclusive' = exclusive /\ state' = state
      /\ call'[t] = NotBlocked /\ ~Blocked(t)'
      /\ \A u \in Txn \ {t} : shared'[u] = shared[u] /\ (Blocked(u)' <=> Blocked(u))
      /\ \A u \in Txn, s \in Rid : Holds(u, s, "X")' <=> Holds(u, s, "X")
      /\ \A u \in Txn, s \in Rid : Holds(u, s, "S")' <=> Holds(u, s, "S") \/ (u = t /\ s = r)
  <2>1. shared \in [Txn -> SUBSET Rid] /\ exclusive \in [Txn -> SUBSET Rid]
        /\ call \in [Txn -> BlockedCall \cup {NotBlocked}]
    BY ZenonT(60) DEF IInv, TypeOK
  <2>2. /\ shared' = [shared EXCEPT ![t] = shared[t] \cup {r}]
        /\ exclusive' = [exclusive EXCEPT ![t] = exclusive[t]]
        /\ call' = [call EXCEPT ![t] = NotBlocked] /\ state' = state
    BY ZenonT(60), <2>1 DEF GotLock
  <2>3. /\ shared'[t] = shared[t] \cup {r} /\ exclusive' = exclusive /\ call'[t] = NotBlocked
        /\ \A u \in Txn \ {t} : shared'[u] = shared[u] /\ call'[u] = call[u]
    BY ZenonT(60), <2>1, <2>2
  <2>4. /\ \A u \in Txn, s \in Rid : Holds(u, s, "X")' <=> Holds(u, s, "X")
        /\ \A u \in Txn, s \in Rid : Holds(u, s, "S")' <=> Holds(u, s, "S") \/ (u = t /\ s = r)
    BY ZenonT(60) DEF GotLock, LocksWith
  <2> QED BY ZenonT(60), <2>2, <2>3, <2>4 DEF Blocked
<1>3. \A s \in Rid : Inserting(s)' <=> Inserting(s)
  <2> SUFFICES ASSUME NEW u \in Txn, NEW s \in Rid PROVE Inserts(u, s)' <=> Inserts(u, s)
    BY ZenonT(60) DEF Inserting
  <2>1. CASE u = t
    BY ZenonT(60), <1>2, <2>1 DEF Inserts
  <2>2. CASE u # t
    BY ZenonT(60), <2>2, <1>2 DEF Inserts, Idle
  <2> QED BY ZenonT(60), <2>1, <2>2
<1>4. Phases'
  BY ZenonT(60), <1>1, <1>2 DEF Phases, Idle
<1>5. Sleeping'
  <2>1. ASSUME NEW u \in Txn
        PROVE  IF Blocked(u)' THEN Blocked(u) /\ Idle(u) ELSE pending'[u].op \in {"none", "walk"}
    <3>1. CASE u = t
      BY ZenonT(60), <1>2, <3>1
    <3>2. CASE u # t
      BY ZenonT(60), <1>1, <1>2, <3>2 DEF Sleeping, Idle
    <3> QED BY ZenonT(60), <3>1, <3>2
  <2> QED BY ZenonT(60), <1>1, <2>1, SleepingKept
<1>6. Latched'
  <2>1. ASSUME NEW u \in Txn, Blocked(u)' PROVE Blocked(u) /\ Idle(u)
    BY ZenonT(60), <1>2, <2>1 DEF Idle, Blocked
  <2> QED BY ZenonT(60), <1>1, <2>1, LatchedKept
<1>7. LocksKept'
  <2>1. \A u \in Txn : shared[u] \subseteq Rid /\ exclusive[u] \subseteq Rid
    BY ZenonT(60) DEF IInv, TypeOK
  <2> QED BY ZenonT(60), <1>1, <1>2, <2>1 DEF LocksKept
<1>8. Records'
  <2>1. \A u \in Txn : \A i \in 1..Len(write_set[u]) : write_set[u][i].rid \in Rid
    BY ZenonT(60), <1>1, RecordTyping
  <2> QED BY ZenonT(60), <1>1, <1>2, <2>1 DEF Records, Covered
<1>9. Owners'
  BY ZenonT(60), <1>1, <1>2, <1>3 DEF Owners, Owned
<1>10. Settled'
  BY ZenonT(60), <1>1, <1>2, <1>3 DEF Settled, XLocked
<1>11. Fresh'
  BY ZenonT(60), <1>1, <1>2, <1>3 DEF Fresh, StuckCommit
<1>12. SharedReads'
  <2>1. \A u \in Txn : ~Holds(u, r, "X")
    <3> SUFFICES ASSUME NEW u \in Txn, Holds(u, r, "X") PROVE FALSE
      BY ZenonT(60)
    <3>1. Holds(u, r, "X")' /\ Holds(t, r, "S")'
      BY ZenonT(60), <1>2
    <3> QED BY ZenonT(60), <3>1, LocksExcludeNext
  <2>2. slot[r].tuple = db[r]
    BY <1>1, <2>1 DEF Settled, XLocked, Visible
  <2> QED BY ZenonT(60), <1>1, <1>2, <2>2 DEF SharedReads
<1>13. Durable'
  <2>1. \A s \in Rid : writer[s] # NoTxnYet => writer[s] \in Txn
    BY ZenonT(60), <1>1 DEF HeapTyped
  <2> QED BY ZenonT(60), <1>1, <1>2, <2>1 DEF Durable, Persisted
<1> QED BY <1>4, <1>5, <1>6, <1>7, <1>8, <1>9, <1>10, <1>11, <1>12, <1>13

\* Commit: what t has locked for writing becomes the committed content.
LEMMA CommitStep ==
    ASSUME IInv, Core, NEW t \in Txn, SameLocks, phase[t] = "run", state[t] = "GROWING",
           ~Blocked(t), pending[t].op # "walk",
           state' = [state EXCEPT ![t] = "COMMITTED"],
           phase' = [phase EXCEPT ![t] = "commit"],
           db' = [r \in Rid |-> IF r \in exclusive[t] THEN Visible(slot[r]) ELSE db[r]],
           writer' = [r \in Rid |-> IF r \in exclusive[t] THEN t ELSE writer[r]],
           UNCHANGED <<call, pending, shared, exclusive, slot, write_set, log, persistent>>
    PROVE  Rest'
<1> USE DEF Rest
<1>1. HeapTyped /\ Rest
  BY ZenonT(60), CoreIsRest
<1>2. /\ state'[t] = "COMMITTED" /\ phase'[t] = "commit"
      /\ \A u \in Txn \ {t} : state'[u] = state[u] /\ phase'[u] = phase[u]
  BY <1>1 DEF IInv, TypeOK, HeapTyped
<1>3. \A u \in Txn : Blocked(u)' <=> Blocked(u)
  BY ZenonT(60) DEF Blocked
<1>4. \A s \in Rid : Inserting(s)' <=> Inserting(s)
  BY ZenonT(60), <1>3 DEF Inserting, Inserts
<1>5. \A r \in Rid : r \in exclusive[t] <=> Holds(t, r, "X")
  BY ZenonT(60), <1>1, HeldRecorded DEF LocksKept
<1>6. \A r \in Rid : IF Holds(t, r, "X") THEN db'[r] = Visible(slot[r]) /\ writer'[r] = t
                     ELSE db'[r] = db[r] /\ writer'[r] = writer[r]
  BY ZenonT(60), <1>5
<1>7. \A r \in Rid, u \in Txn, n \in {"S", "X"} :
        Holds(t, r, "X") /\ Holds(u, r, n) => u = t /\ n = "X"
  BY ZenonT(60), LocksExclude
<1>8. Phases'
  BY ZenonT(60), <1>1, <1>2 DEF Phases
<1>9. Sleeping'
  <2> SUFFICES ASSUME NEW u \in Txn, Blocked(u) PROVE u # t
    BY ZenonT(60), <1>1, <1>2, <1>3 DEF Sleeping
  <2> QED OBVIOUS
<1>10. Latched'
  BY ZenonT(60), <1>1, <1>3 DEF Latched
<1>11. LocksKept'
  <2>1. \A u \in Txn : shared[u] \subseteq Rid /\ exclusive[u] \subseteq Rid
    BY DEF IInv, TypeOK
  <2> QED BY ZenonT(60), <1>1, <1>2, <2>1 DEF LocksKept, SameLocks
<1>12. Records'
  <2>1. \A u \in Txn : \A i \in 1..Len(write_set[u]) : write_set[u][i].rid \in Rid
    BY ZenonT(60), <1>1, RecordTyping
  <2> SUFFICES ASSUME NEW u \in Txn, NEW i \in 1..Len(write_set[u]) PROVE Covered(u, i)'
    BY ZenonT(60), <1>1 DEF Records
  <2>2. Covered(u, i)
    BY ZenonT(60), <1>1 DEF Records
  <2>3. CASE u = t
    BY ZenonT(60), <1>2, <2>1, <2>2, <2>3 DEF Covered, SameLocks
  <2>4. CASE u # t
    BY ZenonT(60), <1>2, <2>1, <2>2, <2>4 DEF Covered, SameLocks
  <2> QED BY <2>3, <2>4
<1>13. Owners'
  <2> SUFFICES ASSUME NEW u \in Txn, NEW r \in Rid, Holds(u, r, "X") PROVE Owned(u, r)'
    BY DEF Owners, SameLocks
  <2>1. Owned(u, r)
    BY <1>1 DEF Owners
  <2>2. CASE u = t
    <3>1. CASE Inserting(r)
      BY ZenonT(60), <1>2, <1>4, <2>1, <2>2, <3>1 DEF Owned, Stuck
    <3>2. CASE ~Inserting(r)
      <4>1. Owner(write_set[t], r, "run", "GROWING", slot[r], db[r])
        BY <2>1, <2>2, <3>2 DEF Owned
      <4>2. Owner(write_set[t], r, "commit", "COMMITTED", slot[r], Visible(slot[r]))
        BY <4>1, OwnerEnds
      <4> QED BY ZenonT(60), <1>2, <1>4, <1>6, <2>2, <3>2, <4>2 DEF Owned
    <3> QED BY <3>1, <3>2
  <2>3. CASE u # t
    BY ZenonT(60), <1>2, <1>4, <1>6, <1>7, <2>1, <2>3 DEF Owned
  <2> QED BY ZenonT(60), <2>2, <2>3
<1>14. Settled'
  BY ZenonT(60), <1>1, <1>4, <1>6 DEF Settled, XLocked, SameLocks
<1>15. Fresh'
  <2> SUFFICES ASSUME NEW r \in Rid, Inserting(r)
               PROVE  db'[r] = NoTuple \/ \E u \in Txn : StuckCommit(u, r)'
    BY <1>4 DEF Fresh
  <2>1. CASE Holds(t, r, "X")
    <3>1. Stuck(write_set[t], r, "run")
      BY <1>1, <2>1 DEF Owners, Owned
    <3>2. StuckCommit(t, r)'
      BY ZenonT(60), <1>2, <2>1, <3>1 DEF StuckCommit, SameLocks, Stuck
    <3> QED BY <3>2
  <2>2. CASE ~Holds(t, r, "X")
    <3>1. \A u \in Txn : StuckCommit(u, r) => StuckCommit(u, r)'
      BY ZenonT(60), <1>2, <2>2 DEF StuckCommit, SameLocks
    <3> QED BY <1>1, <1>6, <2>2, <3>1 DEF Fresh
  <2> QED BY <2>1, <2>2
<1>16. SharedReads'
  <2>1. \A u \in Txn : shared[u] \subseteq Rid
    BY DEF IInv, TypeOK
  <2>2. \A u \in Txn : phase[u] # "ended" => \A r \in shared[u] : ~Holds(t, r, "X")
    BY <1>1, <1>7, <2>1 DEF LocksKept
  <2>3. \A u \in Txn : phase'[u] # "ended" => phase[u] # "ended"
    BY <1>2
  <2> QED BY <1>1, <1>6, <2>1, <2>2, <2>3 DEF SharedReads
<1>17. Durable'
  <2>1. \A s \in Rid : writer[s] # NoTxnYet => writer[s] \in Txn
    BY <1>1 DEF HeapTyped
  <2>2. \A u : Persisted(u)' <=> Persisted(u)
    BY DEF Persisted
  <2> QED BY ZenonT(60), <1>1, <1>6, <2>1, <2>2 DEF Durable, SameLocks
<1> QED BY ZenonT(60), <1>8, <1>9, <1>10, <1>11, <1>12, <1>13, <1>14, <1>15, <1>16, <1>17

\* A transaction that has ended, and is on disk, releases a lock.
LEMMA ReleaseStep ==
    ASSUME IInv, Core, NEW t \in Txn, NEW r \in Rid, phase[t] = "ended", Persisted(t),
           \A u \in Txn, s \in Rid, n \in {"S", "X"} :
             /\ Holds(u, s, n)' => Holds(u, s, n)
             /\ u # t \/ s # r => (Holds(u, s, n)' <=> Holds(u, s, n)),
           UNCHANGED <<state, call, pending, shared, exclusive, slot, write_set, phase,
                       db, writer, log, persistent>>
    PROVE  Rest'
<1> USE DEF Rest
<1>1. HeapTyped /\ Rest
  BY CoreIsRest
<1>2. \A u \in Txn : Blocked(u)' <=> Blocked(u)
  BY DEF Blocked
<1>3. \A s \in Rid : Inserting(s)' <=> Inserting(s)
  BY <1>2 DEF Inserting, Inserts
<1>4. Phases' /\ Sleeping' /\ Latched' /\ SharedReads'
  BY ZenonT(60), <1>1, <1>2 DEF Phases, Sleeping, Latched, SharedReads
<1>5. LocksKept'
  <2>1. \A u \in Txn : shared[u] \subseteq Rid /\ exclusive[u] \subseteq Rid
    BY DEF IInv, TypeOK
  <2> QED BY ZenonT(60), <1>1, <2>1 DEF LocksKept
<1>6. Records'
  <2>1. \A u \in Txn : \A i \in 1..Len(write_set[u]) : write_set[u][i].rid \in Rid
    BY ZenonT(60), <1>1, RecordTyping
  <2> QED BY ZenonT(60), <1>1, <2>1 DEF Records, Covered
<1>7. Owners'
  BY ZenonT(60), <1>1, <1>3 DEF Owners, Owned
<1>8. Settled'
  <2> SUFFICES ASSUME NEW s \in Rid, ~XLocked(s)', ~Inserting(s) PROVE Visible(slot[s]) = db[s]
    BY ZenonT(60), <1>3 DEF Settled
  <2>1. CASE ~XLocked(s)
    BY ZenonT(60), <1>1, <2>1 DEF Settled
  <2>2. CASE XLocked(s)
    <3>1. Holds(t, s, "X")
      BY <2>2 DEF XLocked
    <3>2. Owner(write_set[t], s, "ended", state[t], slot[s], db[s])
      BY ZenonT(60), <1>1, <3>1 DEF Owners, Owned
    <3> QED BY ZenonT(60), <3>2 DEF Owner
  <2> QED BY ZenonT(60), <2>1, <2>2
<1>9. Fresh'
  BY ZenonT(60), <1>1, <1>3 DEF Fresh, StuckCommit
<1>10. Durable'
  <2>1. \A s \in Rid : writer[s] # NoTxnYet => writer[s] \in Txn
    BY <1>1 DEF HeapTyped
  <2>2. \A u : Persisted(u)' <=> Persisted(u)
    BY DEF Persisted
  <2> QED BY ZenonT(60), <1>1, <2>1, <2>2 DEF Durable
<1> QED BY <1>4, <1>5, <1>6, <1>7, <1>8, <1>9, <1>10

-----------------------------------------------------------------------------
(* The lock calls of an operation.                                         *)

Alone(t) == \A u \in Txn \ {t} : Idle(u)

\* Nobody else sleeps with the latch of r's page.
LatchFree(t, r) == \A u \in Txn \ {t} : Blocked(u) => call[u].rid[1] # r[1]

LEMMA QuietIInv ==
    ASSUME IInv, NEW t \in Txn, ret' = [ret EXCEPT ![t] = "true"],
           UNCHANGED <<lock_table, state, shared, exclusive, call, notified>>
    PROVE  IInv'
<1>1. TypeOK'
  BY DEF IInv, TypeOK
<1>2. GrantOrder' /\ RequestsOwned' /\ BlockedQueued' /\ LockSetsBacked'
  BY ZenonT(60) DEF IInv, GrantOrder, RequestsOwned, BlockedQueued, LockSetsBacked, Requests, Holds
<1> QED BY <1>1, <1>2 DEF IInv

\* SetState without a lock call.
LEMMA SetStateIInv ==
    ASSUME IInv, NEW t \in Txn, NEW s \in {"COMMITTED", "ABORTED"},
           state' = [state EXCEPT ![t] = s],
           UNCHANGED <<lock_table, shared, exclusive, call, notified, ret>>
    PROVE  IInv' /\ SameLocks
<1>1. TypeOK'
  BY DEF IInv, TypeOK
<1>2. GrantOrder' /\ RequestsOwned' /\ BlockedQueued'
  BY ZenonT(60) DEF IInv, GrantOrder, RequestsOwned, BlockedQueued, Requests
<1>3. LockSetsBacked'
  BY DEF IInv, LockSetsBacked, Requests, Holds, TypeOK
<1> QED BY <1>1, <1>2, <1>3, SameTable DEF IInv

LEMMA SameIInv ==
    ASSUME IInv, UNCHANGED vars
    PROVE  IInv' /\ SameLocks
BY NextIInv, SameTable DEF vars

\* The lock was there already.
HadLock(t, r, m) ==
    /\ Held(t, r, m) /\ ret'[t] = "true" /\ SameLocks
    /\ UNCHANGED <<state, shared, exclusive, call>>

LEMMA AskCall ==
    ASSUME IInv, NoUpgrade, NEW t \in Txn, NEW r \in Rid, NEW m \in {"S", "X"}, AskFor(t, r, m)
    PROVE  /\ IInv'
           /\ \/ HadLock(t, r, m)
              \/ r \notin shared[t] \cup exclusive[t] /\ state[t] = "GROWING" /\ GotLock(t, r, m)
              \/ state[t] = "GROWING" /\ FellAsleep(t, r, m)
              \/ r \notin shared[t] \cup exclusive[t] /\ WasRefused(t)
<1>1. ret \in [Txn -> {"none", "true", "false"}]
  BY DEF IInv, TypeOK
<1>2. CASE /\ Held(t, r, m)
           /\ ret' = [ret EXCEPT ![t] = "true"]
           /\ UNCHANGED <<lock_table, state, shared, exclusive, call, notified>>
  <2>1. IInv' /\ SameLocks
    BY ZenonT(60), <1>2, QuietIInv, SameTable
  <2> QED BY ZenonT(60), <1>1, <1>2, <2>1 DEF HadLock
<1>3. ~LockUpgrade(t, r)
  BY DEF LockUpgrade, Callable, NoUpgrade
<1>4. CASE (m = "S" /\ LockShared(t, r)) \/ (m = "X" /\ LockExclusive(t, r))
  <2>1. IInv'
    BY <1>4, LockSharedIInv, LockExclusiveIInv
  <2>2. /\ r \notin shared[t] \cup exclusive[t]
        /\ \/ state[t] = "GROWING" /\ (GotLock(t, r, m) \/ FellAsleep(t, r, m))
           \/ WasRefused(t)
    BY <1>4, LockCall
  <2> QED BY <2>1, <2>2
<1> QED BY ZenonT(60), <1>2, <1>3, <1>4 DEF AskFor

\* What the call tells its caller.
LEMMA CallReturns ==
    ASSUME IInv, NEW t \in Txn, NEW r \in Rid, NEW m \in {"S", "X"}
    PROVE  /\ GotLock(t, r, m) => ret'[t] = "true" /\ call'[t] = NotBlocked
           /\ FellAsleep(t, r, m) => ret'[t] = "none" /\ call'[t] = [op |-> m, rid |-> r]
           /\ WasRefused(t) => ret'[t] = "false" /\ call'[t] = call[t] /\ state'[t] = "ABORTED"
BY DEF IInv, TypeOK, GotLock, FellAsleep, WasRefused

\* Of the others nothing changes.
LEMMA OthersIdle ==
    ASSUME IInv, HeapTyped, NEW t \in Txn, NEW r \in Rid, NEW m \in {"S", "X"},
           \/ HadLock(t, r, m) \/ GotLock(t, r, m) \/ FellAsleep(t, r, m) \/ WasRefused(t)
           \/ UNCHANGED <<state, call, shared, exclusive>>
           \/ SetAborted(t),
           \A u \in Txn \ {t} : /\ pending'[u] = pending[u] /\ write_set'[u] = write_set[u]
                                /\ phase'[u] = phase[u]
    PROVE  Alone(t)
<1>1. \A u \in Txn \ {t} : state'[u] = state[u] /\ call'[u] = call[u]
                           /\ shared'[u] = shared[u] /\ exclusive'[u] = exclusive[u]
  BY ZenonT(60) DEF IInv, TypeOK, HadLock, GotLock, FellAsleep, WasRefused, SetAborted
<1> QED BY ZenonT(60), <1>1 DEF Alone, Idle

\* A client that runs.
Running(t) == phase[t] = "run" /\ ~Blocked(t) /\ pending[t].op \in {"none", "walk"}

LEMMA ClientRuns ==
    ASSUME Core, NEW t \in Txn, Client(t)
    PROVE  Running(t) /\ pending[t].op = "none" /\ state[t] \in {"GROWING", "ABORTED"}
BY DEF Client, Running, Core, Phases, Blocked, NoOp

LEMMA WalkerRuns ==
    ASSUME Core, NEW t \in Txn, pending[t].op = "walk"
    PROVE  /\ Running(t) /\ state[t] \in {"GROWING", "ABORTED"}
           /\ pending[t].page \in 1..MaxPages /\ pending[t].tuple \in Tuple
<1>1. pending[t] \in Ops /\ phase[t] \in {"run", "commit", "abort", "ended"}
  BY DEF Core, HeapTyped
<1>2. phase[t] = "run" /\ ~Blocked(t)
  BY <1>1 DEF Core, Phases, Sleeping
<1>3. pending[t].page \in 1..MaxPages /\ pending[t].tuple \in Tuple
  BY <1>1, SpaceAssumption DEF Ops
<1>4. state[t] \in {"GROWING", "ABORTED"}
  BY <1>2 DEF Core, Phases
<1> QED BY <1>2, <1>3, <1>4 DEF Running

-----------------------------------------------------------------------------
(* Steps of a running transaction.                                         *)

\* An operation ends, or goes on, with no effect but perhaps on the state,
\* or the client aborts.
LEMMA QuietMove ==
    ASSUME IInv, Core, NEW t \in Txn, Running(t), SameLocks, Alone(t),
           UNCHANGED <<slot, db, writer, log, persistent, write_set>>,
           call'[t] = call[t], shared'[t] = shared[t], exclusive'[t] = exclusive[t],
           state'[t] \in {state[t], "ABORTED"},
           pending'[t].op \in {"none", "walk"},
           \/ phase'[t] = "run"
           \/ phase'[t] = "abort" /\ state'[t] = "ABORTED" /\ pending'[t].op = "none"
    PROVE  Rest'
<1>1. HeapTyped /\ Rest
  BY CoreIsRest
<1>2. phase[t] = "run" /\ state[t] \in {"GROWING", "ABORTED"}
  BY <1>1 DEF Rest, Phases, Running
<1>3. Shaped(write_set[t]) /\ \A i \in 1..Len(write_set[t]) : Covered(t, i) /\ write_set[t][i].rid \in Rid
  BY ZenonT(60), <1>1, RecordTyping DEF Rest, Records
<1>4. \A i \in 1..Len(write_set[t]) : Covered(t, i)'
  BY ZenonT(60), <1>2, <1>3 DEF Covered, SameLocks
<1>5. ASSUME NEW r \in Rid, Holds(t, r, "X")
      PROVE  /\ Inserting(r) => Stuck(write_set'[t], r, phase'[t])
             /\ ~Inserting(r) => Owner(write_set'[t], r, phase'[t], state'[t], slot[r], db[r])
             /\ Inserting(r) /\ StuckCommit(t, r) => StuckCommit(t, r)'
  <2>1. Owned(t, r)
    BY <1>1, <1>5 DEF Rest, Owners
  <2>2. Inserting(r) => Stuck(write_set[t], r, phase'[t])
    BY <1>2, <2>1 DEF Owned, Stuck
  <2>3. ~Inserting(r) => Owner(write_set[t], r, phase'[t], state'[t], slot[r], db[r])
    BY ZenonT(60), <1>2, <2>1, OwnerEnds DEF Owned
  <2> QED BY ZenonT(60), <1>2, <2>2, <2>3 DEF StuckCommit
<1>6. call'[t] = NotBlocked
  BY DEF Running, Blocked
<1>7. Moves(t)
  BY ZenonT(60), <1>2, <1>3, <1>4, <1>5, <1>6 DEF Moves, Running
<1>8. \A u \in Txn : Idle(u) \/ Moves(u)
  BY ZenonT(60), <1>7 DEF Alone
<1>9. \A u \in Txn : Persisted(u) => Persisted(u)'
  BY ZenonT(60) DEF Persisted
<1> QED BY ZenonT(60), <1>8, <1>9, MoveStep

\* A DELETE at the end of a write set.
LEMMA DeleteShaped ==
    ASSUME NEW ws \in Seq(Writes), NEW r \in Rid, Shaped(ws)
    PROVE  Shaped(Append(ws, WriteRecord(r, "DELETE", NoTuple)))
<1> DEFINE w == WriteRecord(r, "DELETE", NoTuple)
           ws2 == Append(ws, w)
<1>1. w \in Writes /\ w.wtype = "DELETE"
  BY WritesTyping
<1> HIDE DEF w
<1>2. /\ Len(ws) \in Nat /\ Len(ws2) = Len(ws) + 1
      /\ \A i \in 1..Len(ws) : ws2[i] = ws[i]
      /\ ws2[Len(ws) + 1] = w
  BY <1>1, AppendOn
<1> HIDE DEF ws2
<1>3. Shaped(ws2)
  <2> SUFFICES ASSUME NEW i \in 1..Len(ws2), NEW j \in 1..Len(ws2), i < j, ws2[i].rid = ws2[j].rid
               PROVE  ws2[j].wtype # "INSERT" /\ (ws2[i].wtype = "DELETE" => ws2[j].wtype = "DELETE")
    BY DEF Shaped
  <2>1. CASE j = Len(ws) + 1
    BY <1>1, <1>2, <2>1
  <2>2. CASE j # Len(ws) + 1
    <3>1. i \in 1..Len(ws) /\ j \in 1..Len(ws)
      BY <1>2, <2>2
    <3> QED BY <1>2, <3>1 DEF Shaped
  <2> QED BY <2>1, <2>2
<1> QED BY <1>3 DEF ws2, w

\* MarkDelete of a row that is gone, or whose lock is refused.
LEMMA DoomStep ==
    ASSUME IInv, Core, NEW t \in Txn, NEW r \in Rid, Running(t), SameLocks, Alone(t),
           Holds(t, r, "X") => slot[r].st \in {"unused", "marked"}, LatchFree(t, r),
           write_set'[t] = Append(write_set[t], WriteRecord(r, "DELETE", NoTuple)),
           UNCHANGED <<slot, db, writer, log, persistent, phase>>,
           call'[t] = call[t], shared'[t] = shared[t], exclusive'[t] = exclusive[t],
           state'[t] = "ABORTED", pending'[t].op = "none"
    PROVE  Rest'
<1> DEFINE ws == write_set[t]
           w == WriteRecord(r, "DELETE", NoTuple)
           ws2 == Append(ws, w)
<1>1. HeapTyped /\ Rest
  BY CoreIsRest
<1>2. phase[t] = "run" /\ state[t] \in {"GROWING", "ABORTED"}
  BY <1>1 DEF Rest, Phases, Running
<1>3. ws \in Seq(Writes) /\ Shaped(ws)
      /\ \A i \in 1..Len(ws) : Covered(t, i) /\ ws[i].rid \in Rid
  BY ZenonT(60), <1>1, RecordTyping DEF Rest, Records
<1>4. w \in Writes /\ w.rid = r /\ w.wtype = "DELETE"
  <2>1. NoTuple \in Tuple \cup {NoTuple} /\ "DELETE" \in {"INSERT", "UPDATE", "DELETE"}
        /\ ("DELETE" = "UPDATE" => NoTuple \in Tuple)
    BY ZenonT(60)
  <2> QED BY ZenonT(60), <2>1, WritesTyping
<1> HIDE DEF ws, w
<1>5. Shaped(ws2)
  BY ZenonT(60), <1>3, DeleteShaped DEF w
<1>6. /\ Len(ws) \in Nat /\ Len(ws2) = Len(ws) + 1
      /\ \A i \in 1..Len(ws) : ws2[i] = ws[i]
      /\ ws2[Len(ws) + 1] = w
      /\ \A s \in Rid \ {r} : SameOn(ws, ws2, s)
  BY ZenonT(60), <1>3, <1>4, AppendOn
<1>7. write_set'[t] = ws2
  BY ZenonT(60) DEF ws, w
<1> HIDE DEF ws2
<1>8. \A i \in 1..Len(ws2) : Covered(t, i)'
  <2> SUFFICES ASSUME NEW i \in 1..Len(ws2) PROVE Covered(t, i)'
    BY ZenonT(60)
  <2>1. CASE i = Len(ws) + 1
    <3>1. r \in exclusive[t] => Holds(t, r, "X")
      BY ZenonT(60), <1>1, <1>2 DEF Rest, LocksKept
    <3> QED BY ZenonT(60), <1>2, <1>4, <1>6, <1>7, <2>1, <3>1 DEF Covered, SameLocks
  <2>2. CASE i # Len(ws) + 1
    <3>1. i \in 1..Len(ws) /\ ws2[i] = ws[i]
      BY <1>6, <2>2
    <3>2. Covered(t, i) /\ ws[i].rid \in Rid
      BY <1>3, <3>1
    <3> QED BY ZenonT(60), <1>2, <1>7, <3>1, <3>2 DEF Covered, SameLocks, ws
  <2> QED BY ZenonT(60), <2>1, <2>2
<1>9. ~Inserting(r)
  BY ZenonT(60) DEF LatchFree, Inserting, Inserts, Running
<1>10. ASSUME NEW s \in Rid, Holds(t, s, "X")
       PROVE  /\ Inserting(s) => Stuck(ws2, s, "run")
              /\ ~Inserting(s) => Owner(ws2, s, "run", "ABORTED", slot[s], db[s])
  <2>1. Owned(t, s)
    BY ZenonT(60), <1>1, <1>10 DEF Rest, Owners
  <2>2. CASE s = r
    <3>1. Owner(ws, r, "run", state[t], slot[r], db[r])
      BY ZenonT(60), <1>2, <1>9, <2>1, <2>2 DEF Owned, ws
    <3>2. slot[r] \in Slots
      BY ZenonT(60), <1>1 DEF HeapTyped
    <3>3. Owner(ws2, r, "run", "ABORTED", slot[r], db[r])
      <4>1. slot[r].st \in {"unused", "marked"}
        BY ZenonT(60), <1>10, <2>2
      <4>2. PICK st, sl, d, x, y : /\ sl = slot[r] /\ d = db[r] /\ x = ws
                                   /\ y = WriteRecord(r, "DELETE", NoTuple)
                                   /\ Owner(x, r, "run", st, sl, d)
        BY ZenonT(60), <3>1
      <4>3. x \in Seq(Writes) /\ sl \in Slots /\ (sl.st = "unused" \/ sl.st = "marked")
        BY ZenonT(60), <1>3, <3>2, <4>1, <4>2
      <4>4. Owner(Append(x, y), r, "run", "ABORTED", sl, d)
        BY ZenonT(60), <4>2, <4>3, OwnerDoomed
      <4> QED BY ZenonT(60), <4>2, <4>4 DEF ws2, w
    <3> QED BY ZenonT(60), <1>9, <2>2, <3>3
  <2>3. CASE s # r
    <3>1. SameOn(ws, ws2, s)
      BY ZenonT(60), <1>6, <2>3
    <3>2. /\ Inserting(s) => Stuck(ws, s, "run")
          /\ ~Inserting(s) => Owner(ws, s, "run", "ABORTED", slot[s], db[s])
      BY ZenonT(60), <1>2, <2>1, OwnerEnds DEF Owned, ws
    <3> QED BY ZenonT(60), <3>1, <3>2, OwnerSame
  <2> QED BY ZenonT(60), <2>2, <2>3
<1>11. call'[t] = NotBlocked
  BY ZenonT(60) DEF Running, Blocked
<1>12. Moves(t)
  BY ZenonT(60), <1>2, <1>5, <1>7, <1>8, <1>10, <1>11 DEF Moves, Running, StuckCommit
<1>13. \A u \in Txn : Idle(u) \/ Moves(u)
  BY ZenonT(60), <1>12 DEF Alone
<1>14. \A u \in Txn : Persisted(u) => Persisted(u)'
  BY DEF Persisted
<1> QED BY ZenonT(60), <1>13, <1>14, MoveStep

-----------------------------------------------------------------------------
(* Writing a row.                                                          *)

\* t has r locked to write, from now on or already, and the latch.
RowLocked(t, r) ==
    /\ phase[t] = "run" /\ (Holds(t, r, "X") \/ state[t] = "GROWING")
    /\ LocksWith(t, r, "X")
    /\ Alone(t) /\ LatchFree(t, r)
    /\ Blocked(t) => call[t].rid = r
    /\ shared'[t] = shared[t] /\ exclusive'[t] \subseteq exclusive[t] \cup {r}
    /\ state'[t] = state[t] /\ call'[t] = NotBlocked /\ pending'[t].op = "none"
    /\ UNCHANGED <<phase, db, writer, log, persistent>>

LEMMA WriteRow ==
    ASSUME IInv, IInv', Core, NEW t \in Txn, NEW r \in Rid, RowLocked(t, r),
           NEW ws2 \in Seq(Writes), NEW s2,
           slot' = [slot EXCEPT ![r] = s2], write_set'[t] = ws2,
           Shaped(ws2), \A s \in Rid \ {r} : SameOn(write_set[t], ws2, s),
           Owner(ws2, r, "run", state[t], s2, db[r])
    PROVE  Rest'
<1>1. Holds(t, r, "X")'
  BY ZenonT(60) DEF RowLocked, LocksWith
<1>2. \A u \in Txn, s \in Rid, n \in {"S", "X"} :
            u # t \/ s # r \/ n # "X" => (Holds(u, s, n)' <=> Holds(u, s, n))
  BY ZenonT(60) DEF RowLocked, LocksWith
<1>3. \A u \in Txn \ {t} : Idle(u) /\ (Blocked(u) => call[u].rid[1] # r[1])
  BY ZenonT(60) DEF RowLocked, Alone, LatchFree
<1>4. /\ phase[t] # "ended" /\ (Blocked(t) => call[t].rid = r)
      /\ shared'[t] = shared[t] /\ exclusive'[t] \subseteq exclusive[t] \cup {r}
      /\ state'[t] = state[t] /\ call'[t] = NotBlocked /\ pending'[t].op = "none"
      /\ UNCHANGED <<phase, db, writer, log, persistent>>
      /\ Owner(ws2, r, phase[t], state[t], s2, db[r])
  BY ZenonT(60) DEF RowLocked
<1> QED BY ZenonT(60), <1>1, <1>2, <1>3, <1>4, RowStep

\* The row is t's, or nobody has it.
LEMMA GotRow ==
    ASSUME IInv, IInv', Core, NEW t \in Txn, NEW r \in Rid, RowLocked(t, r)
    PROVE  /\ ~Holds(t, r, "X") => On(write_set[t], r) = {}
           /\ ~Inserting(r) => Mine(write_set[t], r, state[t], slot[r], db[r])
           /\ ~Inserting(r) /\ Holds(t, r, "X") =>
                Owner(write_set[t], r, "run", state[t], slot[r], db[r])
           /\ \A u \in Txn : Holds(u, r, "X") => u = t
<1>1. HeapTyped /\ Rest /\ phase[t] = "run"
  BY ZenonT(60), CoreIsRest DEF RowLocked
<1>2. ~Holds(t, r, "X") => On(write_set[t], r) = {}
  <2>1. \A i \in On(write_set[t], r) : i \in 1..Len(write_set[t]) /\ write_set[t][i].rid = r
    BY DEF On
  <2>2. \A i \in On(write_set[t], r) : Holds(t, r, "X") \/ state[t] = "ABORTED"
    BY ZenonT(60), <1>1, <2>1 DEF Rest, Records, Covered
  <2> QED BY ZenonT(60), <2>2 DEF RowLocked
<1>3. \A u \in Txn : Holds(u, r, "X") => u = t
  <2> SUFFICES ASSUME NEW u \in Txn, Holds(u, r, "X"), u # t PROVE FALSE
    OBVIOUS
  <2>1. Holds(u, r, "X")' /\ Holds(t, r, "X")'
    BY DEF RowLocked, LocksWith
  <2> QED BY <2>1, LocksExcludeNext
<1>4. ASSUME ~Inserting(r), Holds(t, r, "X")
      PROVE  Owner(write_set[t], r, "run", state[t], slot[r], db[r])
  BY ZenonT(60), <1>1, <1>4 DEF Rest, Owners, Owned
<1>5. ASSUME ~Inserting(r), ~Holds(t, r, "X") PROVE Visible(slot[r]) = db[r]
  BY ZenonT(60), <1>1, <1>3, <1>5 DEF Rest, Settled, XLocked
<1> QED BY ZenonT(60), <1>2, <1>3, <1>4, <1>5 DEF Mine

LEMMA MarkRow ==
    ASSUME IInv, IInv', Core, NEW t \in Txn, NEW r \in Rid, RowLocked(t, r), ~Inserting(r),
           slot[r].st \in {"live", "empty"},
           slot' = [slot EXCEPT ![r].st = IF @ = "live" THEN "marked" ELSE @],
           write_set'[t] = Append(write_set[t], WriteRecord(r, "DELETE", NoTuple))
    PROVE  Rest' /\ slot' \in [Rid -> Slots] /\ write_set'[t] \in Seq(Writes)
<1> DEFINE ws == write_set[t]
           w == WriteRecord(r, "DELETE", NoTuple)
           ws2 == Append(ws, w)
           s == slot[r]
           s2 == [s EXCEPT !.st = IF @ = "live" THEN "marked" ELSE @]
<1>1. /\ HeapTyped /\ slot \in [Rid -> Slots] /\ s \in Slots /\ ws \in Seq(Writes) /\ Shaped(ws)
      /\ write_set'[t] = ws2
  BY RecordTyping DEF Core, HeapTyped, Records
<1>2. slot' = [slot EXCEPT ![r] = s2]
  OBVIOUS
<1>3. Mine(ws, r, state[t], s, db[r])
  BY GotRow
<1>4. w \in Writes /\ w.rid = r
  BY WritesTyping
<1> HIDE DEF ws, s
<1>5. s.st \in {"live", "empty"}
  BY DEF s
<1>6. s2 \in Slots /\ Owner(ws2, r, "run", state[t], s2, db[r])
  BY <1>1, <1>3, <1>5, OwnerMark
<1>7. Shaped(ws2)
  BY <1>1, DeleteShaped
<1>8. ws2 \in Seq(Writes) /\ \A v \in Rid \ {r} : SameOn(ws, ws2, v)
  BY <1>1, <1>4, AppendOn
<1> HIDE DEF w, ws2, s2
<1>9. Rest'
  BY ZenonT(60), <1>1, <1>2, <1>6, <1>7, <1>8, WriteRow DEF ws
<1>10. slot' \in [Rid -> Slots]
  BY <1>1, <1>2, <1>6
<1> QED BY ZenonT(60), <1>1, <1>8, <1>9, <1>10

LEMMA UpdateRow ==
    ASSUME IInv, IInv', Core, NEW t \in Txn, NEW r \in Rid, RowLocked(t, r), ~Inserting(r),
           NEW tu \in Tuple, slot[r].st = "live",
           slot' = [slot EXCEPT ![r].tuple = tu],
           IF state[t] # "ABORTED"
           THEN write_set'[t] = Append(write_set[t], WriteRecord(r, "UPDATE", slot[r].tuple))
           ELSE write_set'[t] = write_set[t]
    PROVE  Rest' /\ slot' \in [Rid -> Slots] /\ write_set'[t] \in Seq(Writes)
<1> DEFINE ws == write_set[t]
           s == slot[r]
           w == WriteRecord(r, "UPDATE", s.tuple)
           ws2 == IF state[t] # "ABORTED" THEN Append(ws, w) ELSE ws
           s2 == [s EXCEPT !.tuple = tu]
<1>1. /\ HeapTyped /\ slot \in [Rid -> Slots] /\ s \in Slots /\ ws \in Seq(Writes) /\ Shaped(ws)
      /\ write_set'[t] = ws2
  BY ZenonT(60), RecordTyping DEF Core, HeapTyped, Records
<1>2. slot' = [slot EXCEPT ![r] = s2]
  OBVIOUS
<1>3. /\ Mine(ws, r, state[t], s, db[r])
      /\ state[t] = "ABORTED" => Owner(ws, r, "run", state[t], s, db[r])
  BY GotRow DEF RowLocked
<1>4. s.tuple \in Tuple
  BY <1>1 DEF Slots
<1>5. w \in Writes /\ w.rid = r
  BY <1>4, WritesTyping
<1>6. s.st = "live"
  OBVIOUS
<1> HIDE DEF ws, s
<1>7. /\ s2 \in Slots /\ Owner(Append(ws, w), r, "run", state[t], s2, db[r])
      /\ Owner(ws, r, "run", state[t], s, db[r]) => Owner(ws, r, "run", state[t], s2, db[r])
      /\ Shaped(Append(ws, w))
  BY ZenonT(60), <1>1, <1>3, <1>6, OwnerUpdate
<1>8. Append(ws, w) \in Seq(Writes) /\ \A v \in Rid \ {r} : SameOn(ws, Append(ws, w), v)
  BY <1>1, <1>5, AppendOn
<1>9. \A v \in Rid : SameOn(ws, ws, v)
  BY DEF SameOn
<1>10. /\ ws2 \in Seq(Writes) /\ \A v \in Rid \ {r} : SameOn(ws, ws2, v)
       /\ Shaped(ws2) /\ Owner(ws2, r, "run", state[t], s2, db[r])
  BY <1>1, <1>3, <1>7, <1>8, <1>9
<1> HIDE DEF w, ws2, s2
<1>11. Rest'
  BY ZenonT(60), <1>1, <1>2, <1>10, WriteRow DEF ws
<1>12. slot' \in [Rid -> Slots]
  BY <1>1, <1>2, <1>7
<1> QED BY <1>1, <1>10, <1>11, <1>12

\* s2 is the new tuple, put there in this step or before the lock call slept.
LEMMA InsertRow ==
    ASSUME IInv, IInv', Core, NEW t \in Txn, NEW r \in Rid, RowLocked(t, r), ~Holds(t, r, "X"),
           \/ ~Inserting(r) /\ slot[r].st \in {"empty", "unused"}
           \/ Inserting(r),
           NEW s2 \in Slots, s2.st = "live", slot' = [slot EXCEPT ![r] = s2],
           write_set'[t] = Append(write_set[t], WriteRecord(r, "INSERT", NoTuple))
    PROVE  Rest' /\ write_set'[t] \in Seq(Writes)
<1> DEFINE ws == write_set[t]
           w == WriteRecord(r, "INSERT", NoTuple)
           ws2 == Append(ws, w)
<1>1. HeapTyped /\ ws \in Seq(Writes) /\ Shaped(ws) /\ write_set'[t] = ws2
  BY ZenonT(60), RecordTyping DEF Core, HeapTyped, Records
<1>2. On(ws, r) = {} /\ \A u \in Txn : ~Holds(u, r, "X")
  BY ZenonT(60), GotRow
<1>3. db[r] = NoTuple
  <2>1. CASE ~Inserting(r) /\ slot[r].st \in {"empty", "unused"}
    <3>1. Visible(slot[r]) = db[r]
      BY <1>2, <2>1 DEF Core, Settled, XLocked
    <3> QED BY <2>1, <3>1 DEF Visible
  <2>2. CASE Inserting(r)
    BY ZenonT(60), <1>2, <2>2 DEF Core, Fresh, StuckCommit
  <2> QED BY <2>1, <2>2
<1>4. w \in Writes /\ w.rid = r
  BY WritesTyping
<1> HIDE DEF ws
<1>5. Owner(ws2, r, "run", state[t], s2, NoTuple) /\ Shaped(ws2)
  BY ZenonT(60), <1>1, <1>2, OwnerInsert
<1>6. ws2 \in Seq(Writes) /\ \A v \in Rid \ {r} : SameOn(ws, ws2, v)
  BY ZenonT(60), <1>1, <1>4, AppendOn
<1> HIDE DEF w, ws2
<1>7. Rest'
  BY ZenonT(60), <1>1, <1>3, <1>5, <1>6, WriteRow DEF ws
<1> QED BY ZenonT(60), <1>1, <1>6, <1>7

-----------------------------------------------------------------------------
(* The operations.                                                         *)

LEMMA OpTyped ==
    ASSUME HeapTyped, NEW t \in Txn, UNCHANGED endVars,
           slot' \in [Rid -> Slots], free_space' \in [1..MaxPages -> Nat],
           last_page' \in 1..MaxPages,
           \A s \in Rid : s[1] > last_page' => slot'[s].st = "unused",
           pending' = pending \/ \E o \in Ops : pending' = [pending EXCEPT ![t] = o],
           write_set' = write_set \/ \E ws \in Seq(Writes) : write_set' = [write_set EXCEPT ![t] = ws]
    PROVE  HeapTyped'
<1>1. pending' \in [Txn -> Ops]
  BY ZenonT(60) DEF HeapTyped
<1>2. write_set' \in [Txn -> Seq(Writes)]
  BY ZenonT(60) DEF HeapTyped
<1> QED BY <1>1, <1>2 DEF HeapTyped, endVars

\* Nothing but the slot r, which is in use, changes in the table.
LEMMA SlotsTyped ==
    ASSUME HeapTyped, NEW r \in Rid, slot' \in [Rid -> Slots],
           slot[r].st # "unused", \A s \in Rid \ {r} : slot'[s] = slot[s], UNCHANGED last_page
    PROVE  /\ last_page' \in 1..MaxPages
           /\ \A s \in Rid : s[1] > last_page' => slot'[s].st = "unused"
BY ZenonT(60) DEF HeapTyped

LEMMA SameTyped ==
    ASSUME HeapTyped, UNCHANGED tableVars
    PROVE  /\ slot' \in [Rid -> Slots] /\ free_space' \in [1..MaxPages -> Nat]
           /\ last_page' \in 1..MaxPages
           /\ \A s \in Rid : s[1] > last_page' => slot'[s].st = "unused"
BY DEF HeapTyped, tableVars, slotVars

LEMMA NoOpTyped == NoOp \in Ops /\ NoOp.op = "none"
BY SpaceAssumption DEF NoOp, Ops

LEMMA WriteLatch ==
    ASSUME NEW t \in Txn, NEW r \in Rid, CanWLatch(r[1])
    PROVE  LatchFree(t, r) /\ ~Inserting(r)
BY DEF CanWLatch, Latching, LatchFree, Inserting, Inserts, Blocked

\* What Done does, by operation.
LEMMA DoneGet ==
    ASSUME NEW t, NEW r, NEW o, o.op = "get", NEW ok, Done(t, r, o, ok)
    PROVE  UNCHANGED <<slotVars, write_set>>
BY DEF Done

LEMMA DoneInsert ==
    ASSUME NEW t, NEW r, NEW o, o.op = "insert", NEW ok, Done(t, r, o, ok)
    PROVE  UNCHANGED slotVars /\ Record(t, r, "INSERT", NoTuple)
BY DEF Done

LEMMA DoneMark ==
    ASSUME NEW t, NEW r, NEW o, o.op = "mark", NEW ok \in BOOLEAN, Done(t, r, o, ok)
    PROVE  /\ slot' = [slot EXCEPT ![r].st = IF ok /\ @ = "live" THEN "marked" ELSE @]
           /\ UNCHANGED free_space
           /\ Record(t, r, "DELETE", NoTuple)
BY DEF Done

LEMMA DoneUpdate ==
    ASSUME NEW t, NEW r, NEW o, o.op = "update", NEW ok \in BOOLEAN, Done(t, r, o, ok)
    PROVE  /\ IF ok THEN PutInPlace(r, o.tuple) ELSE UNCHANGED slotVars
           /\ IF ok /\ state'[t] # "ABORTED" THEN Record(t, r, "UPDATE", slot[r].tuple)
                                             ELSE UNCHANGED write_set
BY DEF Done

LEMMA DoneOthers ==
    ASSUME HeapTyped, NEW t \in Txn, NEW r \in Rid, NEW o, NEW ok \in BOOLEAN, Done(t, r, o, ok),
           o.op \in {"get", "mark", "update", "insert"}
    PROVE  \A u \in Txn \ {t} : write_set'[u] = write_set[u]
<1>1. write_set' = write_set \/ \E k, tu : Record(t, r, k, tu)
  <2>1. CASE o.op = "get"
    BY <2>1, DoneGet
  <2>2. CASE o.op = "mark"
    BY ZenonT(60), <2>2, DoneMark
  <2>3. CASE o.op = "update"
    BY ZenonT(60), <2>3, DoneUpdate
  <2>4. CASE o.op = "insert"
    BY ZenonT(60), <2>4, DoneInsert
  <2> QED BY <2>1, <2>2, <2>3, <2>4
<1> QED BY <1>1 DEF Record, HeapTyped

\* An operation up to its sleep or its end.
LEMMA OperateCases ==
    ASSUME IInv, HeapTyped, NoUpgrade, NEW t \in Txn, NEW r \in Rid, NEW m \in {"S", "X"},
           NEW o \in Ops, o.op \in {"get", "mark", "update"},
           Operate(t, r, o, m), UNCHANGED <<last_page, endVars, crashed>>
    PROVE  /\ IInv' /\ Alone(t)
           /\ \/ HadLock(t, r, m) /\ pending' = pending /\ Done(t, r, o, TRUE)
              \/ /\ r \notin shared[t] \cup exclusive[t] /\ state[t] = "GROWING"
                 /\ GotLock(t, r, m) /\ pending' = pending /\ Done(t, r, o, TRUE)
              \/ /\ state[t] = "GROWING" /\ FellAsleep(t, r, m)
                 /\ pending' = [pending EXCEPT ![t] = o] /\ UNCHANGED <<slotVars, write_set>>
              \/ /\ r \notin shared[t] \cup exclusive[t]
                 /\ WasRefused(t) /\ pending' = pending /\ Done(t, r, o, FALSE)
<1>1. AskFor(t, r, m)
  BY DEF Operate
<1>2. /\ ret'[t] = "none" => pending' = [pending EXCEPT ![t] = o] /\ UNCHANGED <<slotVars, write_set>>
      /\ ret'[t] = "true" => pending' = pending /\ Done(t, r, o, TRUE)
      /\ ret'[t] = "false" => pending' = pending /\ Done(t, r, o, FALSE)
  BY ZenonT(60) DEF Operate
<1>3. /\ IInv'
      /\ \/ HadLock(t, r, m)
         \/ r \notin shared[t] \cup exclusive[t] /\ state[t] = "GROWING" /\ GotLock(t, r, m)
         \/ state[t] = "GROWING" /\ FellAsleep(t, r, m)
         \/ r \notin shared[t] \cup exclusive[t] /\ WasRefused(t)
  BY ZenonT(60), <1>1, AskCall
<1>4. /\ HadLock(t, r, m) => ret'[t] = "true"
      /\ GotLock(t, r, m) => ret'[t] = "true"
      /\ FellAsleep(t, r, m) => ret'[t] = "none"
      /\ WasRefused(t) => ret'[t] = "false"
  BY ZenonT(60), CallReturns DEF HadLock
<1>5. \A u \in Txn \ {t} : pending'[u] = pending[u] /\ write_set'[u] = write_set[u]
                           /\ phase'[u] = phase[u]
  <2>1. \A u \in Txn \ {t} : pending'[u] = pending[u] /\ phase'[u] = phase[u]
    BY ZenonT(60), <1>2, <1>3, <1>4 DEF HeapTyped, endVars
  <2>2. ASSUME NEW ok \in BOOLEAN, Done(t, r, o, ok)
        PROVE  \A u \in Txn \ {t} : write_set'[u] = write_set[u]
    BY ZenonT(60), <2>2, DoneOthers
  <2>3. write_set' = write_set \/ Done(t, r, o, TRUE) \/ Done(t, r, o, FALSE)
    BY ZenonT(60), <1>2, <1>3, <1>4
  <2> QED BY ZenonT(60), <2>1, <2>2, <2>3
<1>6. Alone(t)
  BY ZenonT(60), <1>3, <1>5, OthersIdle
<1> QED BY ZenonT(60), <1>2, <1>3, <1>4, <1>6

\* GetTuple.
LEMMA GetTupleStep ==
    ASSUME IInv, Core, Disciplined, NEW t \in Txn, NEW r \in Rid, GetTuple(t, r)
    PROVE  IInv' /\ Core'
<1> DEFINE o == [NoOp EXCEPT !.op = "get"]
<1>1. HeapTyped /\ NoUpgrade /\ Client(t)
  BY CoreIsRest DEF Disciplined, GetTuple
<1>2. Running(t) /\ phase[t] = "run" /\ ~Blocked(t) /\ pending[t].op = "none" /\ state[t] \in {"GROWING", "ABORTED"}
  BY ZenonT(60), <1>1, ClientRuns DEF Running
<1>3. o \in Ops /\ o.op = "get"
  BY SpaceAssumption DEF NoOp, Ops
<1> HIDE DEF o
<1>4. \A u \in Txn \ {t} : Blocked(u) /\ call[u].rid[1] = r[1] => pending[u].op = "get"
  BY DEF GetTuple, CanRLatch, Latching, Blocked
<1>5. ~Inserting(r)
  BY <1>2, <1>4 DEF Inserting, Inserts
<1>6. UNCHANGED <<last_page, endVars, crashed>> /\ UNCHANGED <<phase, db, writer, log, persistent>>
  BY DEF GetTuple, endVars
<1>7. CASE SetAborted(t) /\ UNCHANGED <<slotVars, pending, write_set>>
  <2>1. IInv' /\ SameLocks
    BY ZenonT(60), <1>7, SetStateIInv DEF SetAborted
  <2>2. Alone(t)
    BY ZenonT(60), <1>1, <1>6, <1>7, OthersIdle
  <2>3. /\ state'[t] = "ABORTED" /\ call'[t] = call[t] /\ shared'[t] = shared[t]
        /\ exclusive'[t] = exclusive[t] /\ pending'[t].op = "none" /\ phase'[t] = "run"
        /\ UNCHANGED <<slot, write_set>>
    BY ZenonT(60), <1>2, <1>6, <1>7 DEF SetAborted, IInv, TypeOK, slotVars
  <2>4. Rest'
    BY ZenonT(60), <1>2, <1>6, <2>1, <2>2, <2>3, QuietMove
  <2>5. HeapTyped'
    BY <1>1, <1>6, <1>7, SameTyped, OpTyped DEF tableVars
  <2> QED BY <2>1, <2>4, <2>5 DEF Core, Rest
<1>8. CASE slot[r].st = "live" /\ Operate(t, r, o, "S")
  <2>1. /\ IInv' /\ Alone(t)
        /\ \/ HadLock(t, r, "S") /\ pending' = pending /\ Done(t, r, o, TRUE)
           \/ /\ r \notin shared[t] \cup exclusive[t] /\ state[t] = "GROWING"
              /\ GotLock(t, r, "S") /\ pending' = pending /\ Done(t, r, o, TRUE)
           \/ /\ state[t] = "GROWING" /\ FellAsleep(t, r, "S")
              /\ pending' = [pending EXCEPT ![t] = o] /\ UNCHANGED <<slotVars, write_set>>
           \/ /\ r \notin shared[t] \cup exclusive[t]
              /\ WasRefused(t) /\ pending' = pending /\ Done(t, r, o, FALSE)
    BY ZenonT(60), <1>1, <1>3, <1>6, <1>8, OperateCases
  <2>2. UNCHANGED <<slotVars, write_set>> /\ UNCHANGED slot
    BY ZenonT(60), <1>3, <2>1, DoneGet DEF slotVars
  <2>a. /\ UNCHANGED <<slot, db, writer, log, persistent, write_set>>
        /\ UNCHANGED <<slot, write_set, phase, db, writer, log, persistent>>
        /\ \A u \in Txn \ {t} : Idle(u)
    BY ZenonT(60), <1>6, <2>1, <2>2 DEF Alone
  <2>3. HeapTyped'
    BY ZenonT(60), <1>1, <1>3, <1>6, <2>1, <2>2, SameTyped, OpTyped DEF tableVars
  <2>4. ASSUME HadLock(t, r, "S") /\ pending' = pending
        PROVE  Rest'
    <3>1. /\ SameLocks /\ state'[t] \in {state[t], "ABORTED"} /\ call'[t] = call[t]
          /\ shared'[t] = shared[t] /\ exclusive'[t] = exclusive[t]
          /\ pending'[t].op \in {"none", "walk"} /\ phase'[t] = "run"
      BY ZenonT(60), <1>2, <1>6, <2>4 DEF HadLock
    <3> QED BY ZenonT(60), <1>2, <2>1, <2>a, <3>1, QuietMove
  <2>5. ASSUME GotLock(t, r, "S") /\ pending' = pending
        PROVE  Rest'
    <3>1. pending'[t].op = "none" /\ (Blocked(t) => pending[t].op = "get")
      BY ZenonT(60), <1>2, <2>5
    <3> QED BY ZenonT(60), <1>2, <1>5, <1>8, <2>1, <2>a, <2>5, <3>1, ReadStep
  <2>6. ASSUME state[t] = "GROWING" /\ FellAsleep(t, r, "S") /\ pending' = [pending EXCEPT ![t] = o]
        PROVE  Rest'
    <3>0. /\ "get" \in {"get", "mark", "update"} /\ "S" = IF "get" = "get" THEN "S" ELSE "X"
          /\ slot[r].st \in (IF "get" = "mark" THEN {"live", "empty"} ELSE {"live"})
      BY ZenonT(60), <1>8
    <3>1. SameLocks /\ UNCHANGED <<state, shared, exclusive>> /\ call'[t] = [op |-> "S", rid |-> r]
      BY ZenonT(60), <2>6, CallReturns DEF FellAsleep
    <3>2. pending'[t].op = "get"
      BY <1>1, <1>3, <2>6 DEF HeapTyped
    <3>3. \A u \in Txn \ {t} : /\ Idle(u)
                               /\ Blocked(u) /\ call[u].rid[1] = r[1] =>
                                    "get" = "get" /\ pending[u].op = "get"
      BY ZenonT(60), <1>4, <2>1 DEF Alone
    <3>4. UNCHANGED <<state, shared, exclusive, slot, write_set, phase, db, writer, log, persistent>>
      BY ZenonT(60), <2>a, <3>1
    <3> QED BY ZenonT(60), <1>2, <2>6, <3>0, <3>1, <3>2, <3>3, <3>4, SleepStep
  <2>7. ASSUME WasRefused(t) /\ pending' = pending
        PROVE  Rest'
    <3>1. /\ SameLocks /\ state'[t] = "ABORTED" /\ call'[t] = call[t] /\ shared'[t] = shared[t]
          /\ exclusive'[t] = exclusive[t]
      BY ZenonT(60), <2>7, CallReturns DEF WasRefused
    <3>2. state'[t] \in {state[t], "ABORTED"} /\ pending'[t].op \in {"none", "walk"} /\ phase'[t] = "run"
      BY ZenonT(60), <1>2, <1>6, <2>7, <3>1
    <3> QED BY ZenonT(60), <1>2, <2>1, <2>a, <3>1, <3>2, QuietMove
  <2> QED BY ZenonT(60), <2>1, <2>3, <2>4, <2>5, <2>6, <2>7 DEF Core, Rest
<1> QED BY <1>7, <1>8 DEF GetTuple, o

LEMMA PutTyped ==
    ASSUME HeapTyped, Disciplined, NEW r \in Rid, NEW tu \in Tuple, slot[r].tuple \in Tuple,
           PutInPlace(r, tu)
    PROVE  /\ slot' = [slot EXCEPT ![r].tuple = tu]
           /\ free_space' \in [1..MaxPages -> Nat]
<1>1. r[1] \in 1..MaxPages
  BY ZenonT(60), RidAssumption
<1>2. tu[1] \in Nat /\ slot[r].tuple[1] = tu[1]
  BY ZenonT(60), TupleAssumption DEF Disciplined
<1>3. free_space \in [1..MaxPages -> Nat]
  BY DEF HeapTyped
<1> QED BY <1>1, <1>2, <1>3 DEF PutInPlace, SetFreeSpace

\* The lock call of an operation has returned true.
LEMMA RowLockedNow ==
    ASSUME IInv, Core, NEW t \in Txn, NEW r \in Rid, Running(t), LatchFree(t, r), Alone(t),
           HadLock(t, r, "X") \/ (state[t] = "GROWING" /\ GotLock(t, r, "X")),
           pending'[t].op = "none", UNCHANGED <<phase, db, writer, log, persistent>>
    PROVE  RowLocked(t, r)
<1>1. phase[t] = "run" /\ ~Blocked(t) /\ call[t] = NotBlocked
  BY ZenonT(60) DEF Running, Blocked
<1>2. CASE HadLock(t, r, "X")
  <2>1. Holds(t, r, "X")
    BY ZenonT(60), <1>1, <1>2 DEF HadLock, Held, Core, LocksKept
  <2>2. LocksWith(t, r, "X")
    BY ZenonT(60), <1>2, <2>1 DEF HadLock, SameLocks, LocksWith
  <2> QED BY ZenonT(60), <1>1, <1>2, <2>1, <2>2 DEF HadLock, RowLocked
<1>3. CASE state[t] = "GROWING" /\ GotLock(t, r, "X")
  <2>1. /\ LocksWith(t, r, "X") /\ shared'[t] = shared[t] /\ exclusive'[t] = exclusive[t] \cup {r}
        /\ state'[t] = state[t] /\ call'[t] = NotBlocked
    BY ZenonT(60), <1>3 DEF GotLock, IInv, TypeOK
  <2> QED BY ZenonT(60), <1>1, <1>3, <2>1 DEF RowLocked
<1> QED BY <1>2, <1>3

\* t does not have the lock it is refused.
LEMMA RefusedNotHeld ==
    ASSUME IInv, NEW t \in Txn, NEW r \in Rid, r \notin shared[t] \cup exclusive[t]
    PROVE  ~Holds(t, r, "X")
BY HeldRecorded

\* An operation that wants to write falls asleep.
LEMMA WriterSleeps ==
    ASSUME IInv, Core, NEW t \in Txn, NEW r \in Rid, NEW o \in Ops, o.op \in {"mark", "update"},
           Running(t), LatchFree(t, r), Alone(t), state[t] = "GROWING", FellAsleep(t, r, "X"),
           pending' = [pending EXCEPT ![t] = o],
           slot[r].st \in (IF o.op = "mark" THEN {"live", "empty"} ELSE {"live"}),
           UNCHANGED <<slot, write_set, phase, db, writer, log, persistent>>
    PROVE  Rest'
<1>1. PICK k \in {"get", "mark", "update"} : k = o.op /\ k # "get"
  BY ZenonT(60)
<1>2. /\ "X" = IF k = "get" THEN "S" ELSE "X"
      /\ slot[r].st \in (IF k = "mark" THEN {"live", "empty"} ELSE {"live"})
      /\ pending'[t].op = k /\ phase[t] = "run" /\ ~Blocked(t)
  BY <1>1 DEF Core, HeapTyped, Running
<1>3. SameLocks /\ UNCHANGED <<state, shared, exclusive>> /\ call'[t] = [op |-> "X", rid |-> r]
  BY ZenonT(60), CallReturns DEF FellAsleep
<1>4. \A u \in Txn \ {t} : /\ Idle(u)
                           /\ Blocked(u) /\ call[u].rid[1] = r[1] =>
                                k = "get" /\ pending[u].op = "get"
  BY ZenonT(60) DEF Alone, LatchFree
<1>5. UNCHANGED <<state, shared, exclusive, slot, write_set, phase, db, writer, log, persistent>>
  BY ZenonT(60), <1>3
<1> QED BY ZenonT(60), <1>2, <1>3, <1>4, <1>5, SleepStep

\* MarkDelete.
LEMMA MarkDeleteStep ==
    ASSUME IInv, Core, Disciplined, NEW t \in Txn, NEW r \in Rid, MarkDelete(t, r)
    PROVE  IInv' /\ Core'
<1> DEFINE o == [NoOp EXCEPT !.op = "mark"]
           ws2 == Append(write_set[t], WriteRecord(r, "DELETE", NoTuple))
<1>1. HeapTyped /\ NoUpgrade /\ Client(t) /\ LatchFree(t, r) /\ ~Inserting(r)
  BY CoreIsRest, WriteLatch DEF Disciplined, MarkDelete
<1>2. Running(t) /\ phase[t] = "run" /\ ~Blocked(t) /\ pending[t].op = "none" /\ state[t] \in {"GROWING", "ABORTED"}
  BY ZenonT(60), <1>1, ClientRuns DEF Running
<1>3. o \in Ops /\ o.op = "mark"
  BY SpaceAssumption DEF NoOp, Ops
<1>4. WriteRecord(r, "DELETE", NoTuple) \in Writes
  BY WritesTyping
<1>5. ws2 \in Seq(Writes)
  BY <1>1, <1>4, RecordTyping, AppendOn
<1>6. /\ UNCHANGED <<last_page, endVars, crashed>>
      /\ UNCHANGED <<phase, db, writer, log, persistent>>
  BY DEF MarkDelete, endVars
<1>7. Record(t, r, "DELETE", NoTuple) =>
            write_set' = [write_set EXCEPT ![t] = ws2] /\ write_set'[t] = ws2
  BY <1>1 DEF Record, HeapTyped
<1>8. slot \in [Rid -> Slots]
  BY <1>1 DEF HeapTyped
<1> HIDE DEF o
<1>9. CASE /\ slot[r].st \in {"unused", "marked"} /\ SetAborted(t)
           /\ Record(t, r, "DELETE", NoTuple) /\ UNCHANGED <<slotVars, pending>>
  <2>1. IInv' /\ SameLocks
    BY ZenonT(60), <1>9, SetStateIInv DEF SetAborted
  <2>2. \A u \in Txn \ {t} : pending'[u] = pending[u] /\ write_set'[u] = write_set[u]
                             /\ phase'[u] = phase[u]
    BY <1>1, <1>6, <1>7, <1>9 DEF HeapTyped
  <2>3. Alone(t)
    BY ZenonT(60), <1>1, <1>9, <2>2, OthersIdle
  <2>4. /\ state'[t] = "ABORTED" /\ call'[t] = call[t] /\ shared'[t] = shared[t]
        /\ exclusive'[t] = exclusive[t] /\ pending'[t].op = "none"
        /\ UNCHANGED <<slot, db, writer, log, persistent, phase>>
    BY ZenonT(60), <1>2, <1>6, <1>9 DEF SetAborted, IInv, TypeOK, slotVars
  <2>5. Rest'
    BY ZenonT(60), <1>1, <1>2, <1>7, <1>9, <2>1, <2>3, <2>4, DoomStep
  <2>6. HeapTyped'
    BY ZenonT(60), <1>1, <1>5, <1>6, <1>7, <1>9, SameTyped, OpTyped DEF tableVars
  <2> QED BY <2>1, <2>5, <2>6, CoreIsRest DEF Core, Rest
<1>10. CASE slot[r].st \in {"empty", "live"} /\ Operate(t, r, o, "X")
  <2>1. /\ IInv' /\ Alone(t)
        /\ \/ HadLock(t, r, "X") /\ pending' = pending /\ Done(t, r, o, TRUE)
           \/ /\ r \notin shared[t] \cup exclusive[t] /\ state[t] = "GROWING"
              /\ GotLock(t, r, "X") /\ pending' = pending /\ Done(t, r, o, TRUE)
           \/ /\ state[t] = "GROWING" /\ FellAsleep(t, r, "X")
              /\ pending' = [pending EXCEPT ![t] = o] /\ UNCHANGED <<slotVars, write_set>>
           \/ /\ r \notin shared[t] \cup exclusive[t]
              /\ WasRefused(t) /\ pending' = pending /\ Done(t, r, o, FALSE)
    BY ZenonT(60), <1>1, <1>3, <1>6, <1>10, OperateCases
  <2>2. ASSUME HadLock(t, r, "X") \/ (state[t] = "GROWING" /\ GotLock(t, r, "X")),
               pending' = pending, Done(t, r, o, TRUE)
        PROVE  Rest' /\ HeapTyped'
    <3>1. /\ slot' = [slot EXCEPT ![r].st = IF @ = "live" THEN "marked" ELSE @]
          /\ UNCHANGED free_space /\ Record(t, r, "DELETE", NoTuple)
      BY ZenonT(60), <1>3, <2>2, DoneMark
    <3>2. RowLocked(t, r)
      BY ZenonT(60), <1>1, <1>2, <1>6, <2>1, <2>2, RowLockedNow
    <3>3. Rest' /\ slot' \in [Rid -> Slots]
      BY ZenonT(60), <1>1, <1>7, <1>10, <2>1, <3>1, <3>2, MarkRow
    <3>4. slot[r].st # "unused" /\ \A s \in Rid \ {r} : slot'[s] = slot[s]
      BY <1>8, <1>10, <3>1
    <3>5. last_page' \in 1..MaxPages /\ \A s \in Rid : s[1] > last_page' => slot'[s].st = "unused"
      BY ZenonT(60), <1>1, <1>6, <3>3, <3>4, SlotsTyped
    <3>6. free_space' \in [1..MaxPages -> Nat]
      BY <1>1, <3>1 DEF HeapTyped
    <3>7. HeapTyped'
      BY ZenonT(60), <1>1, <1>5, <1>6, <1>7, <2>2, <3>1, <3>3, <3>5, <3>6, OpTyped
    <3> QED BY <3>3, <3>7
  <2>3. ASSUME state[t] = "GROWING", FellAsleep(t, r, "X"),
               pending' = [pending EXCEPT ![t] = o], UNCHANGED <<slotVars, write_set>>
        PROVE  Rest' /\ HeapTyped'
    <3>1. /\ slot[r].st \in (IF o.op = "mark" THEN {"live", "empty"} ELSE {"live"})
          /\ UNCHANGED <<slot, write_set, phase, db, writer, log, persistent>>
      BY ZenonT(60), <1>3, <1>6, <1>10, <2>3 DEF slotVars
    <3>2. Rest'
      BY ZenonT(60), <1>1, <1>2, <1>3, <2>1, <2>3, <3>1, WriterSleeps
    <3>3. HeapTyped'
      BY ZenonT(60), <1>1, <1>3, <1>6, <2>3, SameTyped, OpTyped DEF tableVars
    <3> QED BY <3>2, <3>3
  <2>4. ASSUME r \notin shared[t] \cup exclusive[t], WasRefused(t), pending' = pending,
               Done(t, r, o, FALSE)
        PROVE  Rest' /\ HeapTyped'
    <3>1. /\ slot' = [slot EXCEPT ![r].st = @]
          /\ UNCHANGED free_space /\ Record(t, r, "DELETE", NoTuple)
      BY ZenonT(60), <1>3, <2>4, DoneMark
    <3>2. slot' = slot
      BY <1>8, <3>1 DEF Slots
    <3>3. /\ SameLocks /\ state'[t] = "ABORTED" /\ call'[t] = call[t] /\ shared'[t] = shared[t]
          /\ exclusive'[t] = exclusive[t] /\ pending'[t].op = "none"
          /\ UNCHANGED <<slot, db, writer, log, persistent, phase>>
      BY ZenonT(60), <1>2, <1>6, <2>4, <3>2, CallReturns DEF WasRefused
    <3>4. ~Holds(t, r, "X")
      BY ZenonT(60), <2>4, RefusedNotHeld
    <3>5. Rest'
      BY ZenonT(60), <1>1, <1>2, <1>7, <2>1, <3>1, <3>3, <3>4, DoomStep
    <3>6. HeapTyped'
      BY ZenonT(60), <1>1, <1>5, <1>6, <1>7, <2>4, <3>1, <3>2, SameTyped, OpTyped DEF tableVars, slotVars
    <3> QED BY <3>5, <3>6
  <2> QED BY ZenonT(60), <2>1, <2>2, <2>3, <2>4, CoreIsRest DEF Core, Rest
<1> QED BY <1>9, <1>10 DEF MarkDelete, o
=============================================================================
