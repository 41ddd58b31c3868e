-------------------------- MODULE RecoveryLogProofs ---------------------------
(***************************************************************************)
(* The log and the page: what is in the log describes every state the page *)
(* has been in, and Redo walks along it.  The lemmas on write sets say     *)
(* what a transaction's own list still allows it to undo or to apply.      *)
(***************************************************************************)
EXTENDS Recovery, TLAPS

USE SMTT(20), ZenonT(20), SMTT(40)

-----------------------------------------------------------------------------
(* Pages.                                                                  *)

SlotState == {Empty} \cup {Live(tu) : tu \in Tuple} \cup {Marked(tu) : tu \in Tuple}
SlotSeq == {q \in Seq(SlotState) : Len(q) <= SlotCount}

\* q2 is q with state v in slot s, which may be a new one.
Sets(q, s, v, q2) ==
    /\ q2 \in SlotSeq
    /\ Len(q) <= Len(q2)
    /\ s \in 1..Len(q2)
    /\ q2[s] = v
    /\ \A j \in 1..Len(q2) : j # s => j <= Len(q) /\ q2[j] = q[j]

LEMMA Bounds ==
    /\ SlotCount \in Nat \ {0} /\ BufferRecords \in Nat \ {0} /\ MaxTxn \in Nat \ {0}
    /\ MaxFlushes \in Nat \ {0} /\ MaxCrashes \in Nat \ {0} /\ MaxRecords \in Nat \ {0}
    /\ BufferRecords > 1
BY BoundsAssumption

LEMMA States ==
    /\ Empty \in SlotState /\ Empty.st = "empty"
    /\ \A tu \in Tuple : /\ Live(tu) \in SlotState /\ Live(tu).st = "live" /\ Live(tu).tuple = tu
                         /\ Marked(tu) \in SlotState /\ Marked(tu).st = "marked"
                         /\ Marked(tu).tuple = tu
    /\ \A v \in SlotState : /\ v.st \in {"empty", "live", "marked"}
                            /\ v.st \in {"live", "marked"} => v.tuple \in Tuple
                            /\ v.st = "empty" <=> v = Empty
<1>1. Empty \in SlotState /\ Empty.st = "empty"
  BY DEF SlotState, Empty
<1>2. ASSUME NEW tu \in Tuple
      PROVE  /\ Live(tu) \in SlotState /\ Live(tu).st = "live" /\ Live(tu).tuple = tu
             /\ Marked(tu) \in SlotState /\ Marked(tu).st = "marked" /\ Marked(tu).tuple = tu
  <2>1. Live(tu) \in SlotState /\ Marked(tu) \in SlotState
    BY ZenonT(60) DEF SlotState
  <2> QED BY <2>1 DEF Live, Marked
<1>3. ASSUME NEW v \in SlotState
      PROVE  /\ v.st \in {"empty", "live", "marked"}
             /\ v.st \in {"live", "marked"} => v.tuple \in Tuple
             /\ v.st = "empty" <=> v = Empty
  <2>1. \/ v = Empty
        \/ \E tu \in Tuple : v = Live(tu)
        \/ \E tu \in Tuple : v = Marked(tu)
    BY ZenonT(60) DEF SlotState
  <2> QED BY <2>1, <1>1, <1>2
<1> QED BY <1>1, <1>2, <1>3

LEMMA SeqFacts ==
    ASSUME NEW q \in SlotSeq
    PROVE  /\ Len(q) \in 0..SlotCount /\ q \in Seq(SlotState)
           /\ \A j \in 1..Len(q) : q[j] \in SlotState /\ j \in Slot
<1>1. q \in Seq(SlotState) /\ Len(q) <= SlotCount
  BY DEF SlotSeq
<1>2. Len(q) \in Nat /\ \A j \in 1..Len(q) : q[j] \in SlotState
  BY <1>1
<1> QED BY <1>1, <1>2, Bounds DEF Slot

\* An operation of the page other than an insertion.
LEMMA ExceptSets ==
    ASSUME NEW q \in SlotSeq, NEW s \in 1..Len(q), NEW v \in SlotState
    PROVE  Sets(q, s, v, [q EXCEPT ![s] = v])
<1>1. q \in Seq(SlotState) /\ Len(q) \in Nat /\ Len(q) <= SlotCount
  BY SeqFacts, Bounds
<1> DEFINE q2 == [q EXCEPT ![s] = v]
<1>2. q2 \in Seq(SlotState) /\ Len(q2) = Len(q) /\ q2[s] = v /\ \A j \in 1..Len(q) : j # s => q2[j] = q[j]
  BY <1>1
<1> QED BY <1>1, <1>2 DEF Sets, SlotSeq

LEMMA SlotForFacts ==
    ASSUME NEW q \in SlotSeq
    PROVE  /\ SlotFor(q) \in 1..(Len(q) + 1)
           /\ SlotFor(q) <= Len(q) => q[SlotFor(q)] = Empty
<1> DEFINE free == {s \in 1..Len(q) : q[s] = Empty /\ \A u \in 1..(s - 1) : q[u] # Empty}
<1>1. Len(q) \in Nat
  BY SeqFacts, Bounds
<1>2. CASE free = {}
  BY <1>1, <1>2 DEF SlotFor
<1>3. CASE free # {}
  <2>1. SlotFor(q) \in free
    BY ZenonT(60), <1>3 DEF SlotFor
  <2> QED BY <1>1, <2>1
<1> QED BY <1>2, <1>3

LEMMA InsertSets ==
    ASSUME NEW q \in SlotSeq, NEW tu \in Tuple, SlotFor(q) <= SlotCount
    PROVE  Sets(q, SlotFor(q), Live(tu), InsertTuple(q, tu))
<1>1. q \in Seq(SlotState) /\ Len(q) \in Nat /\ Len(q) <= SlotCount /\ Live(tu) \in SlotState
  BY SeqFacts, Bounds, States
<1>2. SlotFor(q) \in 1..(Len(q) + 1)
  BY SlotForFacts
<1>3. CASE SlotFor(q) <= Len(q)
  <2>1. InsertTuple(q, tu) = [q EXCEPT ![SlotFor(q)] = Live(tu)]
    BY <1>1, <1>2, <1>3 DEF InsertTuple
  <2>2. SlotFor(q) \in 1..Len(q)
    BY <1>1, <1>2, <1>3
  <2>3. Sets(q, SlotFor(q), Live(tu), [q EXCEPT ![SlotFor(q)] = Live(tu)])
    BY ZenonT(60), <1>1, <2>2, ExceptSets
  <2> QED BY <2>1, <2>3
<1>4. CASE SlotFor(q) > Len(q)
  <2> DEFINE q2 == Append(q, Live(tu))
  <2>1. InsertTuple(q, tu) = q2 /\ SlotFor(q) = Len(q) + 1
    BY <1>1, <1>2, <1>4 DEF InsertTuple
  <2>2. q2 \in Seq(SlotState) /\ Len(q2) = Len(q) + 1 /\ q2[Len(q) + 1] = Live(tu)
        /\ \A j \in 1..Len(q) : q2[j] = q[j]
    BY <1>1
  <2>3. Sets(q, Len(q) + 1, Live(tu), q2)
    BY <1>1, <2>1, <2>2 DEF Sets, SlotSeq
  <2> QED BY <2>1, <2>3
<1> QED BY <1>1, <1>2, <1>3, <1>4

\* What a reader finds after a change of slot s.
LEMMA SetsOthers ==
    ASSUME NEW q \in SlotSeq, NEW s, NEW v, NEW q2, Sets(q, s, v, q2), NEW j \in Slot, j # s
    PROVE  Visible(q2)[j] = Visible(q)[j]
<1>1. Len(q) \in 0..SlotCount /\ Len(q2) \in 0..SlotCount /\ SlotCount \in Nat
  BY SeqFacts, Bounds DEF Sets
<1>2. j \in 1..Len(q2) <=> j \in 1..Len(q)
  BY <1>1 DEF Sets, Slot
<1>3. j \in 1..Len(q) => q2[j] = q[j]
  BY <1>2 DEF Sets
<1> QED BY <1>2, <1>3 DEF Visible

LEMMA SetsVisible ==
    ASSUME NEW q \in SlotSeq, NEW s, NEW v \in SlotState, NEW q2, Sets(q, s, v, q2)
    PROVE  /\ s \in Slot
           /\ Visible(q2)[s] = IF v.st = "live" THEN v.tuple ELSE NoTuple
           /\ \A j \in Slot : j # s => Visible(q2)[j] = Visible(q)[j]
<1>1. Len(q2) \in 0..SlotCount /\ SlotCount \in Nat
  BY SeqFacts, Bounds DEF Sets
<1>2. s \in Slot
  BY <1>1 DEF Sets, Slot
<1>3. Visible(q2)[s] = IF v.st = "live" THEN v.tuple ELSE NoTuple
  BY <1>1, <1>2 DEF Sets, Visible
<1>4. ASSUME NEW j \in Slot, j # s PROVE Visible(q2)[j] = Visible(q)[j]
  BY <1>4, SetsOthers
<1> QED BY <1>2, <1>3, <1>4

LEMMA VisibleTyped ==
    ASSUME NEW q \in SlotSeq
    PROVE  /\ Visible(q) \in [Slot -> Tuple \cup {NoTuple}]
           /\ \A s \in Slot : s <= Len(q) /\ q[s].st = "live" => Visible(q)[s] = q[s].tuple
           /\ \A s \in Slot : s <= Len(q) => q[s].st = "live" \/ Visible(q)[s] = NoTuple
           /\ \A s \in Slot : s > Len(q) => Visible(q)[s] = NoTuple
<1>1. Len(q) \in 0..SlotCount /\ SlotCount \in Nat /\ \A j \in 1..Len(q) : q[j] \in SlotState
  BY SeqFacts, Bounds
<1>2. \A s \in Slot : s \in 1..Len(q) <=> s <= Len(q)
  BY <1>1 DEF Slot
<1> QED BY <1>1, <1>2, States DEF Visible

-----------------------------------------------------------------------------
(* Write sets.  w is the write set of t, lk the locks, q the slots of the  *)
(* page and cm what the committed transactions left.                       *)

Item == {i \in [wtype : {"INSERT", "DELETE", "UPDATE"}, slot : Slot, tuple : Tuple \cup {NoTuple}] :
            i.wtype = "UPDATE" => i.tuple \in Tuple}

\* What a slot held before item i.
Before(i, q) ==
    IF i.wtype = "INSERT" THEN NoTuple
    ELSE IF i.wtype = "UPDATE" THEN i.tuple ELSE q[i.slot].tuple

\* Abort can undo w from its end: t has the locks, a slot is marked if t has
\* deleted its tuple and live if not, a deletion is the last item for its slot
\* and an insertion the first, and before the first item the slot had the
\* committed tuple.
Undoable(t, w, lk, q, cm) ==
    \A k \in 1..Len(w) : LET s == w[k].slot IN
        /\ lk[s] = t
        /\ s <= Len(q)
        /\ \A j \in 1..(k - 1) : w[j].slot = s => w[j].wtype # "DELETE" /\ w[k].wtype # "INSERT"
        /\ w[k].wtype = "DELETE" => q[s].st = "marked"
        /\ (\A j \in 1..Len(w) : w[j].slot = s => w[j].wtype # "DELETE") => q[s].st = "live"
        /\ (\A j \in 1..(k - 1) : w[j].slot # s) => Before(w[k], q) = cm[s]

\* Commit can apply the deletes in w.
Appliable(t, w, lk, q) ==
    \A k \in 1..Len(w) : LET s == w[k].slot IN w[k].wtype = "DELETE" =>
        /\ lk[s] = t
        /\ s <= Len(q)
        /\ q[s].st = "marked"
        /\ \A j \in 1..(k - 1) : w[j].slot = s => w[j].wtype # "DELETE"

\* What t has locked without an item, or undone, is as it was committed.
Clean(t, w, lk, q, cm) ==
    \A s \in Slot : lk[s] = t /\ (\A k \in 1..Len(w) : w[k].slot # s) => Visible(q)[s] = cm[s]

LEMMA Appended ==
    ASSUME NEW w \in Seq(Item), NEW i \in Item
    PROVE  /\ Len(w) \in Nat /\ Len(Append(w, i)) = Len(w) + 1 /\ Append(w, i) \in Seq(Item)
           /\ Append(w, i)[Len(w) + 1] = i
           /\ \A k \in 1..Len(w) : Append(w, i)[k] = w[k] /\ w[k] \in Item
<1>1. Len(w) \in Nat /\ \A k \in 1..Len(w) : w[k] \in Item
  OBVIOUS
<1> QED BY <1>1

LEMMA Popped ==
    ASSUME NEW w \in Seq(Item), w # <<>>
    PROVE  /\ Len(w) \in Nat \ {0}
           /\ SubSeq(w, 1, Len(w) - 1) \in Seq(Item)
           /\ Len(SubSeq(w, 1, Len(w) - 1)) = Len(w) - 1
           /\ \A k \in 1..(Len(w) - 1) : SubSeq(w, 1, Len(w) - 1)[k] = w[k]
           /\ \A k \in 1..Len(w) : w[k] \in Item
<1>1. Len(w) \in Nat \ {0} /\ \A k \in 1..Len(w) : w[k] \in Item
  OBVIOUS
<1>2. \A k \in 1..(Len(w) - 1) : w[k] \in Item
  BY <1>1
<1>3. PICK n \in Nat : n = Len(w) - 1
  BY <1>1
<1>4. /\ SubSeq(w, 1, n) \in Seq(Item)
      /\ Len(SubSeq(w, 1, n)) = n
      /\ \A k \in 1..n : SubSeq(w, 1, n)[k] = w[k]
  <2>1. \A k \in 1..n : w[k] \in Item
    BY <1>2, <1>3
  <2>2. n = 0 => 1 > n
    OBVIOUS
  <2> QED BY <2>1, <2>2
<1> QED BY <1>1, <1>3, <1>4

\* An operation of t on slot s that it has or takes the lock of: item i goes to
\* the end of the write set and the slot gets state v.
Writes(t, s, w, i, lk, q, v, q2, cm) ==
    /\ t \in Id
    /\ w \in Seq(Item) /\ i \in Item /\ i.slot = s
    /\ lk \in [Slot -> Id \cup {NoTxn}]
    /\ q \in SlotSeq /\ v \in SlotState /\ Sets(q, s, v, q2)
    /\ lk[s] \in {t, NoTxn}
    /\ lk[s] = NoTxn => Visible(q)[s] = cm[s]
    /\ \/ i.wtype = "INSERT" /\ v.st = "live" /\ (s <= Len(q) => q[s] = Empty)
       \/ i.wtype = "DELETE" /\ s <= Len(q) /\ q[s].st = "live" /\ v = Marked(q[s].tuple)
       \/ /\ i.wtype = "UPDATE" /\ s <= Len(q) /\ q[s].st = "live" /\ v.st = "live"
          /\ i.tuple = q[s].tuple

LEMMA WriteItem ==
    ASSUME NEW t, NEW s, NEW w, NEW i, NEW lk, NEW q, NEW v, NEW q2, NEW cm,
           Writes(t, s, w, i, lk, q, v, q2, cm),
           Undoable(t, w, lk, q, cm), Clean(t, w, lk, q, cm)
    PROVE  LET w2 == Append(w, i)
               lk2 == [lk EXCEPT ![s] = t]
           IN  Undoable(t, w2, lk2, q2, cm) /\ Clean(t, w2, lk2, q2, cm)
<1> DEFINE n == Len(w)
           w2 == Append(w, i)
           lk2 == [lk EXCEPT ![s] = t]
<1>1. /\ n \in Nat /\ Len(w2) = n + 1 /\ w2[n + 1] = i
      /\ \A k \in 1..n : w2[k] = w[k] /\ w[k] \in Item
  BY Appended DEF Writes
<1>2. /\ s \in Slot /\ i.slot = s /\ lk2[s] = t /\ \A u \in Slot : u # s => lk2[u] = lk[u]
      /\ s \in 1..Len(q2) /\ q2[s] = v /\ Len(q) \in Nat /\ Len(q2) \in Nat /\ Len(q) <= Len(q2)
      /\ Visible(q2)[s] = IF v.st = "live" THEN v.tuple ELSE NoTuple
      /\ \A u \in Slot : u # s => Visible(q2)[u] = Visible(q)[u]
      /\ \A u \in 1..Len(q2) : u # s => u <= Len(q) /\ q2[u] = q[u]
  <2>1. q \in SlotSeq /\ v \in SlotState /\ Sets(q, s, v, q2) /\ q2 \in SlotSeq
    BY DEF Writes, Sets
  <2>2. /\ s \in Slot /\ Visible(q2)[s] = IF v.st = "live" THEN v.tuple ELSE NoTuple
        /\ \A u \in Slot : u # s => Visible(q2)[u] = Visible(q)[u]
    BY <2>1, SetsVisible
  <2>3. lk2[s] = t /\ \A u \in Slot : u # s => lk2[u] = lk[u]
    BY <2>2 DEF Writes
  <2>4. Len(q) \in Nat /\ Len(q2) \in Nat
    BY <2>1, SeqFacts, Bounds
  <2> QED BY <2>1, <2>2, <2>3, <2>4 DEF Writes, Sets
\* The items that t has for s already.
<1>3. ASSUME NEW k \in 1..n, w[k].slot = s
      PROVE  /\ w[k].wtype # "DELETE" /\ i.wtype # "INSERT"
             /\ lk[s] = t /\ s <= Len(q) /\ q[s].st = "live"
  <2>1. /\ lk[s] = t /\ s <= Len(q)
        /\ w[k].wtype = "DELETE" => q[s].st = "marked"
        /\ q[s].st = "live" \/ \E j \in 1..n : w[j].slot = s /\ w[j].wtype = "DELETE"
    BY <1>3 DEF Undoable
  <2>2. ASSUME NEW j \in 1..n, w[j].slot = s, w[j].wtype = "DELETE" PROVE q[s].st = "marked"
    BY <2>2 DEF Undoable
  <2>3. q[s] # Empty /\ q[s].st # "marked"
    BY <2>1, <2>2, States DEF Writes
  <2> QED BY <2>1, <2>2, <2>3 DEF Writes
\* Before the first one s had its committed tuple.
<1>4. (\A k \in 1..n : w[k].slot # s) => Visible(q)[s] = cm[s]
  BY <1>2 DEF Clean, Writes
<1>5. Undoable(t, w2, lk2, q2, cm)
  <2> SUFFICES ASSUME NEW k \in 1..(n + 1)
               PROVE  LET u == w2[k].slot IN
                      /\ lk2[u] = t
                      /\ u <= Len(q2)
                      /\ \A j \in 1..(k - 1) :
                            w2[j].slot = u => w2[j].wtype # "DELETE" /\ w2[k].wtype # "INSERT"
                      /\ w2[k].wtype = "DELETE" => q2[u].st = "marked"
                      /\ (\A j \in 1..(n + 1) : w2[j].slot = u => w2[j].wtype # "DELETE") =>
                            q2[u].st = "live"
                      /\ (\A j \in 1..(k - 1) : w2[j].slot # u) => Before(w2[k], q2) = cm[u]
    BY <1>1 DEF Undoable
  <2>1. CASE k = n + 1
    <3>1. w2[k] = i /\ w2[k].slot = s /\ lk2[s] = t /\ s <= Len(q2) /\ q2[s] = v
      BY <1>1, <1>2, <2>1
    <3>2. \A j \in 1..n : w2[j].slot = s => w2[j].wtype # "DELETE" /\ i.wtype # "INSERT"
      BY <1>1, <1>3
    <3>3. i.wtype = "DELETE" => v.st = "marked"
      <4>1. ASSUME i.wtype = "DELETE" PROVE q[s] \in SlotState /\ q[s].tuple \in Tuple /\ v = Marked(q[s].tuple)
        BY <4>1, <1>2, SeqFacts, States DEF Writes, Slot
      <4> QED BY <4>1, States
    <3>4. i.wtype # "DELETE" => v.st = "live"
      BY DEF Writes
    <3>5. (\A j \in 1..n : w2[j].slot # s) => Before(i, q2) = cm[s]
      <4> SUFFICES ASSUME Visible(q)[s] = cm[s] PROVE Before(i, q2) = cm[s]
        BY <1>1, <1>4
      <4>1. /\ s > Len(q) => Visible(q)[s] = NoTuple
            /\ s <= Len(q) => Visible(q)[s] = IF q[s].st = "live" THEN q[s].tuple ELSE NoTuple
        BY <1>2, VisibleTyped DEF Writes
      <4>2. CASE i.wtype = "INSERT"
        BY <1>2, <4>1, <4>2, States DEF Before, Writes, Slot
      <4>3. CASE i.wtype = "UPDATE"
        BY <4>1, <4>3 DEF Before, Writes
      <4>4. CASE i.wtype = "DELETE"
        <5>1. q[s] \in SlotState /\ q[s].st = "live" /\ q[s].tuple \in Tuple /\ v = Marked(q[s].tuple)
              /\ s <= Len(q)
          BY <4>4, <1>2, SeqFacts, States DEF Writes, Slot
        <5>2. q2[i.slot].tuple = q[s].tuple
          BY <5>1, <3>1, States
        <5> QED BY <4>1, <4>4, <5>1, <5>2 DEF Before
      <4> QED BY <4>2, <4>3, <4>4 DEF Writes
    <3> QED BY <1>1, <2>1, <3>1, <3>2, <3>3, <3>4, <3>5
  <2>2. CASE k \in 1..n /\ w[k].slot = s
    <3>1. /\ w2[k] = w[k] /\ w[k].wtype # "DELETE" /\ i.wtype # "INSERT" /\ lk2[s] = t
          /\ s <= Len(q2) /\ q2[s] = v
      BY <1>1, <1>2, <1>3, <2>2
    <3>2. \A j \in 1..(k - 1) : w2[j].slot = s => w2[j].wtype # "DELETE" /\ w2[k].wtype # "INSERT"
      BY <1>1, <2>2 DEF Undoable
    <3>3. i.wtype # "DELETE" => v.st = "live"
      BY DEF Writes
    <3>4. (\A j \in 1..(k - 1) : w2[j].slot # s) => Before(w2[k], q2) = cm[s]
      <4>1. (\A j \in 1..(k - 1) : w[j].slot # s) => Before(w[k], q) = cm[s]
        BY <2>2 DEF Undoable
      <4>2. Before(w[k], q) = Before(w[k], q2)
        BY <1>1, <2>2, <3>1 DEF Before, Item
      <4> QED BY <1>1, <2>2, <4>1, <4>2
    <3> QED BY <1>1, <1>2, <2>2, <3>1, <3>2, <3>3, <3>4
  <2>3. CASE k \in 1..n /\ w[k].slot # s
    <3>1. PICK u \in Slot : u = w[k].slot
      BY <1>1, <2>3 DEF Item
    <3>2. /\ lk[u] = t /\ u <= Len(q)
          /\ \A j \in 1..(k - 1) : w[j].slot = u => w[j].wtype # "DELETE" /\ w[k].wtype # "INSERT"
          /\ w[k].wtype = "DELETE" => q[u].st = "marked"
          /\ (\A j \in 1..n : w[j].slot = u => w[j].wtype # "DELETE") => q[u].st = "live"
          /\ (\A j \in 1..(k - 1) : w[j].slot # u) => Before(w[k], q) = cm[u]
      BY <2>3, <3>1 DEF Undoable
    <3>3. u \in 1..Len(q) /\ u \in 1..Len(q2) /\ q2[u] = q[u] /\ lk2[u] = t /\ w2[k] = w[k]
      BY <1>1, <1>2, <2>3, <3>1, <3>2 DEF Slot
    <3>4. Before(w[k], q) = Before(w[k], q2)
      BY <3>1, <3>3 DEF Before
    <3> HIDE DEF w2
    <3> QED BY <1>1, <1>2, <2>3, <3>1, <3>2, <3>3, <3>4
  <2> QED BY <1>1, <2>1, <2>2, <2>3
<1>6. Clean(t, w2, lk2, q2, cm)
  <2> SUFFICES ASSUME NEW u \in Slot, lk2[u] = t, \A k \in 1..(n + 1) : w2[k].slot # u
               PROVE  Visible(q2)[u] = cm[u]
    BY <1>1 DEF Clean
  <2>1. u # s /\ \A k \in 1..n : w[k].slot # u
    BY <1>1, <1>2
  <2> QED BY <1>2, <2>1 DEF Clean
<1> QED BY <1>5, <1>6

\* Abort undoes the last item of w, which is for slot s.
Undoes(t, s, w, lk, lk2, q, v, q2) ==
    /\ t \in Id
    /\ w \in Seq(Item) /\ w # <<>> /\ w[Len(w)].slot = s
    /\ lk \in [Slot -> Id \cup {NoTxn}]
    /\ q \in SlotSeq /\ v \in SlotState /\ Sets(q, s, v, q2)
    /\ \/ /\ w[Len(w)].wtype = "INSERT" /\ v = Empty
          /\ lk2 = [lk EXCEPT ![s] = NoTxn]
       \/ w[Len(w)].wtype = "DELETE" /\ v = Live(q[s].tuple) /\ lk2 = lk
       \/ w[Len(w)].wtype = "UPDATE" /\ v = Live(w[Len(w)].tuple) /\ lk2 = lk

LEMMA UndoItem ==
    ASSUME NEW t, NEW s, NEW w, NEW lk, NEW lk2, NEW q, NEW v, NEW q2, NEW cm,
           Undoes(t, s, w, lk, lk2, q, v, q2),
           Undoable(t, w, lk, q, cm), Clean(t, w, lk, q, cm)
    PROVE  LET w2 == SubSeq(w, 1, Len(w) - 1)
           IN  /\ Undoable(t, w2, lk2, q2, cm) /\ Clean(t, w2, lk2, q2, cm)
               /\ lk2[s] = NoTxn => Visible(q2)[s] = cm[s]
<1>1. PICK n \in Nat : n = Len(w) - 1
  <2>1. w \in Seq(Item) /\ w # <<>>
    BY DEF Undoes
  <2>2. Len(w) \in Nat \ {0}
    BY <2>1, Popped
  <2> QED BY <2>2
<1> DEFINE w2 == SubSeq(w, 1, Len(w) - 1)
           i == w[n + 1]
<1>2. /\ Len(w) = n + 1 /\ Len(w2) = n /\ i \in Item
      /\ \A k \in 1..n : w2[k] = w[k] /\ w[k] \in Item
  BY <1>1, Popped DEF Undoes
<1> HIDE DEF w2
<1>3. /\ s \in Slot /\ i.slot = s /\ \A u \in Slot : u # s => lk2[u] = lk[u]
      /\ lk2[s] = lk[s] \/ lk2[s] = NoTxn
      /\ s \in 1..Len(q2) /\ q2[s] = v /\ Len(q) \in Nat /\ Len(q2) \in Nat /\ Len(q) <= Len(q2)
      /\ Visible(q2)[s] = IF v.st = "live" THEN v.tuple ELSE NoTuple
      /\ \A u \in Slot : u # s => Visible(q2)[u] = Visible(q)[u]
      /\ \A u \in 1..Len(q2) : u # s => u <= Len(q) /\ q2[u] = q[u]
  <2>1. q \in SlotSeq /\ v \in SlotState /\ Sets(q, s, v, q2) /\ q2 \in SlotSeq
    BY DEF Undoes, Sets
  <2>2. /\ s \in Slot /\ Visible(q2)[s] = IF v.st = "live" THEN v.tuple ELSE NoTuple
        /\ \A u \in Slot : u # s => Visible(q2)[u] = Visible(q)[u]
    BY <2>1, SetsVisible
  <2>3. /\ \A u \in Slot : u # s => lk2[u] = lk[u]
        /\ lk2[s] = lk[s] \/ lk2[s] = NoTxn
    BY <2>2 DEF Undoes
  <2>4. Len(q) \in Nat /\ Len(q2) \in Nat
    BY <2>1, SeqFacts, Bounds
  <2> QED BY <1>1, <1>2, <2>1, <2>2, <2>3, <2>4 DEF Undoes, Sets
<1>4. /\ lk[s] = t /\ s <= Len(q)
      /\ \A j \in 1..n : w[j].slot = s => w[j].wtype # "DELETE" /\ i.wtype # "INSERT"
      /\ i.wtype = "DELETE" => q[s].st = "marked"
      /\ (\A j \in 1..n : w[j].slot # s) => Before(i, q) = cm[s]
  <2>1. n + 1 \in 1..Len(w) /\ (n + 1) - 1 = n
    BY <1>2
  <2> QED BY <1>3, <2>1 DEF Undoable
<1>5. /\ i.wtype \in {"DELETE", "UPDATE"} => lk2[s] = t /\ v.st = "live"
      /\ Visible(q2)[s] = Before(i, q)
  <2>1. CASE i.wtype = "INSERT"
    BY <1>1, <1>2, <1>3, <2>1, States DEF Undoes, Before
  <2>2. CASE i.wtype = "UPDATE"
    <3>1. i.tuple \in Tuple /\ v = Live(i.tuple) /\ lk2 = lk
      BY <1>1, <1>2, <2>2 DEF Undoes, Item
    <3> QED BY <1>3, <1>4, <2>2, <3>1, States DEF Before
  <2>3. CASE i.wtype = "DELETE"
    <3>1. q[s] \in SlotState
      BY <1>3, <1>4, SeqFacts DEF Undoes, Slot
    <3>2. q[s].tuple \in Tuple /\ v = Live(q[s].tuple) /\ lk2 = lk
      BY <1>1, <1>2, <1>4, <2>3, <3>1, States DEF Undoes
    <3> QED BY <1>3, <1>4, <2>3, <3>2, States DEF Before
  <2> QED BY <1>2, <2>1, <2>2, <2>3 DEF Item
<1>6. Undoable(t, w2, lk2, q2, cm)
  <2> SUFFICES ASSUME NEW k \in 1..n
               PROVE  LET u == w2[k].slot IN
                      /\ lk2[u] = t
                      /\ u <= Len(q2)
                      /\ \A j \in 1..(k - 1) :
                            w2[j].slot = u => w2[j].wtype # "DELETE" /\ w2[k].wtype # "INSERT"
                      /\ w2[k].wtype = "DELETE" => q2[u].st = "marked"
                      /\ (\A j \in 1..n : w2[j].slot = u => w2[j].wtype # "DELETE") =>
                            q2[u].st = "live"
                      /\ (\A j \in 1..(k - 1) : w2[j].slot # u) => Before(w2[k], q2) = cm[u]
    BY <1>2 DEF Undoable
  <2>1. PICK u \in Slot : u = w[k].slot
    BY <1>2 DEF Item
  <2>5. /\ w2[k] = w[k] /\ (\A j \in 1..(k - 1) : w2[j] = w[j])
        /\ (\A j \in 1..n : w2[j] = w[j])
    BY <1>2
  <2>2. /\ lk[u] = t /\ u <= Len(q)
        /\ \A j \in 1..(k - 1) : w[j].slot = u => w[j].wtype # "DELETE" /\ w[k].wtype # "INSERT"
        /\ w[k].wtype = "DELETE" => q[u].st = "marked"
        /\ (\A j \in 1..(n + 1) : w[j].slot = u => w[j].wtype # "DELETE") => q[u].st = "live"
        /\ (\A j \in 1..(k - 1) : w[j].slot # u) => Before(w[k], q) = cm[u]
    <3>1. k \in 1..Len(w)
      BY <1>2
    <3> QED BY <1>2, <2>1, <3>1 DEF Undoable
  <2>3. CASE u = s
    <3>1. w[k].wtype # "DELETE" /\ i.wtype # "INSERT"
      BY ZenonT(60), <1>4, <2>1, <2>3
    <3>2. lk2[s] = t /\ v.st = "live"
      BY <1>2, <1>5, <3>1 DEF Item
    <3>3. Before(w[k], q2) = Before(w[k], q)
      BY <1>2, <3>1 DEF Before, Item
    <3>4. w2[k].slot = s /\ s <= Len(q2) /\ q2[s].st = "live" /\ w2[k].wtype # "DELETE"
      <4>1. s <= Len(q2) /\ q2[s].st = "live"
        BY <1>3, <3>2
      <4> QED BY ZenonT(60), <2>1, <2>3, <2>5, <3>1, <4>1
    <3>5. /\ \A j \in 1..(k - 1) :
                w2[j].slot = s => w2[j].wtype # "DELETE" /\ w2[k].wtype # "INSERT"
          /\ (\A j \in 1..(k - 1) : w2[j].slot # s) => Before(w2[k], q2) = cm[s]
      BY <2>1, <2>2, <2>3, <2>5, <3>3
    <3> QED BY <3>2, <3>4, <3>5
  <2>4. CASE u # s
    <3>1. u \in 1..Len(q) /\ u \in 1..Len(q2) /\ q2[u] = q[u] /\ lk2[u] = t
      BY <1>3, <2>1, <2>2, <2>4 DEF Slot
    <3>2. Before(w[k], q2) = Before(w[k], q)
      BY <2>1, <3>1 DEF Before
    <3>3. (\A j \in 1..n : w[j].slot = u => w[j].wtype # "DELETE") => q[u].st = "live"
      <4> SUFFICES ASSUME \A j \in 1..n : w[j].slot = u => w[j].wtype # "DELETE"
                   PROVE  \A j \in 1..(n + 1) : w[j].slot = u => w[j].wtype # "DELETE"
        BY ZenonT(60), <2>2
      <4>1. \A j \in 1..(n + 1) : j \in 1..n \/ j = n + 1
        OBVIOUS
      <4> QED BY <1>3, <2>4, <4>1
    <3> QED BY <2>1, <2>2, <2>5, <3>1, <3>2, <3>3
  <2> QED BY <2>3, <2>4
<1>7. Clean(t, w2, lk2, q2, cm)
  <2> SUFFICES ASSUME NEW u \in Slot, lk2[u] = t, \A k \in 1..n : w[k].slot # u
               PROVE  Visible(q2)[u] = cm[u]
    BY <1>2 DEF Clean
  <2>1. CASE u = s
    BY <1>4, <1>5, <2>1
  <2>2. CASE u # s
    <3>1. lk[u] = t /\ \A k \in 1..(n + 1) : w[k].slot # u
      BY <1>2, <1>3, <2>2
    <3> QED BY <1>2, <1>3, <2>2, <3>1 DEF Clean
  <2> QED BY <2>1, <2>2
<1>8. lk2[s] = NoTxn => Visible(q2)[s] = cm[s]
  <2> SUFFICES ASSUME lk2[s] = NoTxn PROVE Visible(q2)[s] = cm[s]
    OBVIOUS
  <2>1. t # NoTxn
    BY Bounds DEF Undoes, Id, NoTxn
  <2>2. i.wtype = "INSERT"
    BY <1>2, <1>5, <2>1 DEF Item
  <2> QED BY <1>4, <1>5, <2>2
<1> QED BY <1>6, <1>7, <1>8 DEF w2

\* Commit applies the last item of w, which is a deletion of slot s.
Applies(t, s, w, w2, lk, lk2, q, q2) ==
    /\ t \in Id
    /\ w \in Seq(Item) /\ w # <<>> /\ w[Len(w)].slot = s /\ w[Len(w)].wtype = "DELETE"
    /\ w2 = SubSeq(w, 1, Len(w) - 1)
    /\ lk \in [Slot -> Id \cup {NoTxn}] /\ lk2 = [lk EXCEPT ![s] = NoTxn]
    /\ q \in SlotSeq /\ Sets(q, s, Empty, q2)

LEMMA ApplyItem ==
    ASSUME NEW t, NEW s, NEW w, NEW w2, NEW lk, NEW lk2, NEW q, NEW q2,
           Applies(t, s, w, w2, lk, lk2, q, q2), Appliable(t, w, lk, q)
    PROVE  Appliable(t, w2, lk2, q2) /\ Visible(q2)[s] = NoTuple
<1>a. /\ t \in Id /\ w \in Seq(Item) /\ w # <<>> /\ w[Len(w)].slot = s /\ w[Len(w)].wtype = "DELETE"
      /\ lk \in [Slot -> Id \cup {NoTxn}] /\ q \in SlotSeq /\ Sets(q, s, Empty, q2)
  BY DEF Applies
<1>b. w2 = SubSeq(w, 1, Len(w) - 1) /\ lk2 = [lk EXCEPT ![s] = NoTxn]
  BY DEF Applies
<1> USE <1>a
<1>1. PICK n \in Nat : n = Len(w) - 1
  <2>1. Len(w) \in Nat \ {0}
    BY Popped
  <2> QED BY <2>1
<1>2. /\ Len(w) = n + 1 /\ Len(w2) = n
      /\ \A k \in 1..n : w2[k] = w[k] /\ w[k] \in Item
  BY <1>b, <1>1, Popped
<1>3. /\ s \in Slot /\ \A u \in Slot : u # s => lk2[u] = lk[u]
      /\ Visible(q2)[s] = NoTuple
      /\ Len(q) \in Nat /\ Len(q2) \in Nat /\ Len(q) <= Len(q2)
      /\ \A u \in 1..Len(q2) : u # s => u <= Len(q) /\ q2[u] = q[u]
  <2>1. Empty \in SlotState /\ Empty.st # "live"
    BY States
  <2>2. s \in Slot /\ Visible(q2)[s] = NoTuple
    <3>1. PICK v \in SlotState : v = Empty /\ v.st # "live" /\ Sets(q, s, v, q2)
      BY <2>1
    <3>2. /\ s \in Slot
          /\ Visible(q2)[s] = IF v.st = "live" THEN v.tuple ELSE NoTuple
          /\ \A j \in Slot : j # s => Visible(q2)[j] = Visible(q)[j]
      BY <3>1, SetsVisible
    <3> QED BY <3>1, <3>2
  <2>3. Len(q) \in Nat /\ Len(q2) \in Nat
    BY SeqFacts, Bounds DEF Sets
  <2>4. \A u \in Slot : u # s => lk2[u] = lk[u]
    BY <1>b
  <2>5. /\ Len(q) <= Len(q2)
        /\ \A u \in 1..Len(q2) : u # s => u <= Len(q) /\ q2[u] = q[u]
    BY DEF Sets
  <2> QED BY <2>2, <2>3, <2>4, <2>5
<1>4. Appliable(t, w2, lk2, q2)
  <2> SUFFICES ASSUME NEW k \in 1..n, w[k].wtype = "DELETE"
               PROVE  LET u == w[k].slot IN
                      /\ lk2[u] = t
                      /\ u <= Len(q2)
                      /\ q2[u].st = "marked"
                      /\ \A j \in 1..(k - 1) : w[j].slot = u => w[j].wtype # "DELETE"
    BY <1>2 DEF Appliable
  <2>1. PICK u \in Slot : u = w[k].slot
    BY <1>2 DEF Item
  <2>2. /\ lk[u] = t /\ u <= Len(q) /\ q[u].st = "marked"
        /\ \A j \in 1..(k - 1) : w[j].slot = u => w[j].wtype # "DELETE"
    <3>1. k \in 1..Len(w)
      BY <1>2
    <3> QED BY <2>1, <3>1 DEF Appliable
  <2>3. u # s
    <3>1. Len(w) \in 1..Len(w) /\ k \in 1..(Len(w) - 1)
      BY <1>2
    <3> QED BY <2>1, <3>1 DEF Appliable
  <2>4. u \in 1..Len(q) /\ u \in 1..Len(q2) /\ q2[u] = q[u] /\ lk2[u] = t
    BY <1>3, <2>1, <2>2, <2>3 DEF Slot
  <2> QED BY <2>1, <2>2, <2>4
<1> QED BY <1>3, <1>4

\* Commit passes over the last item of w.
LEMMA SkipItem ==
    ASSUME NEW t, NEW w \in Seq(Item), NEW lk, NEW q, w # <<>>, Appliable(t, w, lk, q)
    PROVE  Appliable(t, SubSeq(w, 1, Len(w) - 1), lk, q)
<1>1. PICK n \in Nat : n = Len(w) - 1
  <2>1. Len(w) \in Nat \ {0}
    BY Popped
  <2> QED BY <2>1
<1> DEFINE w2 == SubSeq(w, 1, Len(w) - 1)
<1>2. Len(w) = n + 1 /\ Len(w2) = n /\ \A k \in 1..n : w2[k] = w[k]
  BY <1>1, Popped
<1> HIDE DEF w2
<1>3. Appliable(t, w2, lk, q)
  BY <1>2 DEF Appliable
<1> QED BY <1>3 DEF w2

\* A transaction that can be undone can be committed.
LEMMA UndoableApplies ==
    ASSUME NEW t, NEW w \in Seq(Item), NEW lk, NEW q, NEW cm, Undoable(t, w, lk, q, cm)
    PROVE  Appliable(t, w, lk, q)
BY DEF Undoable, Appliable

\* A change of slot s by another transaction does not concern u.
LEMMA OtherItems ==
    ASSUME NEW u, NEW s, NEW w \in Seq(Item), NEW lk, NEW lk2, NEW q \in SlotSeq,
           NEW v \in SlotState, NEW q2, NEW cm, NEW cm2,
           Sets(q, s, v, q2), lk[s] # u, lk2[s] # u,
           \A r \in Slot : r # s => lk2[r] = lk[r] /\ cm2[r] = cm[r]
    PROVE  /\ Undoable(u, w, lk, q, cm) => Undoable(u, w, lk2, q2, cm2)
           /\ Appliable(u, w, lk, q) => Appliable(u, w, lk2, q2)
           /\ Clean(u, w, lk, q, cm) => Clean(u, w, lk2, q2, cm2)
<1>1. /\ Len(w) \in Nat /\ Len(q) \in Nat /\ Len(q2) \in Nat /\ Len(q) <= Len(q2)
      /\ \A k \in 1..Len(w) : w[k].slot \in Slot
      /\ \A r \in Slot : r # s => Visible(q2)[r] = Visible(q)[r]
      /\ \A r \in 1..Len(q2) : r # s => r <= Len(q) /\ q2[r] = q[r]
  <2>1. Len(w) \in Nat /\ \A k \in 1..Len(w) : w[k] \in Item
    OBVIOUS
  <2>2. Len(q) \in Nat /\ Len(q2) \in Nat
    BY SeqFacts, Bounds DEF Sets
  <2>3. ASSUME NEW r \in Slot, r # s PROVE Visible(q2)[r] = Visible(q)[r]
    BY <2>3, SetsOthers
  <2> QED BY <2>1, <2>2, <2>3 DEF Sets, Item
<1>2. ASSUME NEW r \in Slot, lk[r] = u, r <= Len(q)
      PROVE  r <= Len(q2) /\ q2[r] = q[r] /\ lk2[r] = u /\ cm2[r] = cm[r]
  <2>1. r # s /\ r \in 1..Len(q2)
    BY <1>1, <1>2 DEF Slot
  <2> QED BY <1>1, <1>2, <2>1
<1>3. ASSUME Undoable(u, w, lk, q, cm) PROVE Undoable(u, w, lk2, q2, cm2)
  <2>1. ASSUME NEW k \in 1..Len(w)
        PROVE  LET r == w[k].slot IN
               /\ lk2[r] = u /\ r <= Len(q2)
               /\ q2[r] = q[r] /\ cm2[r] = cm[r] /\ Before(w[k], q2) = Before(w[k], q)
    BY <1>1, <1>2, <1>3 DEF Undoable, Before
  <2> QED BY <1>3, <2>1 DEF Undoable
<1>4. ASSUME Appliable(u, w, lk, q) PROVE Appliable(u, w, lk2, q2)
  <2>1. ASSUME NEW k \in 1..Len(w), w[k].wtype = "DELETE"
        PROVE  LET r == w[k].slot IN lk2[r] = u /\ r <= Len(q2) /\ q2[r] = q[r]
    BY <1>1, <1>2, <1>4, <2>1 DEF Appliable
  <2> QED BY <1>4, <2>1 DEF Appliable
<1>5. ASSUME Clean(u, w, lk, q, cm) PROVE Clean(u, w, lk2, q2, cm2)
  BY <1>1, <1>5 DEF Clean
<1> QED BY <1>3, <1>4, <1>5

-----------------------------------------------------------------------------
(* The log and the pages it describes.  f are the chunks of the file and b *)
(* the records in the buffer, which is the next chunk.                     *)

Record == [lsn : Nat, txn : Id, slot : Nat, tuple : Tuple \cup {NoTuple},
           type : Changes \cup {"INVALID", "BEGIN", "COMMIT", "ABORT", "NEWPAGE"}]
Chunk == [1..BufferRecords -> Record]

LogAt(f, b, c, i) ==
    IF c <= Len(f) THEN f[c][i] ELSE IF i <= Len(b) THEN b[i] ELSE Zero

\* The table's page is created by the second record, and no change has LSN 0.
LogShape(f, b) ==
    /\ f \in Seq(Chunk) /\ b \in Seq(Record) /\ Len(b) <= BufferRecords
    /\ \A i \in 1..Len(b) : b[i].type # "INVALID"
    /\ LogAt(f, b, 1, 1).type = "BEGIN" /\ LogAt(f, b, 1, 2).type = "NEWPAGE"
    /\ \A c \in 1..(Len(f) + 1), i \in 1..BufferRecords :
          /\ LogAt(f, b, c, i).type = "NEWPAGE" => c = 1 /\ i = 2
          /\ LogAt(f, b, c, i).type \in Changes => LogAt(f, b, c, i).lsn > 0

Follows(x, r, y) == IF r.type \in Changes THEN CanRedo(x, r) /\ y = Redone(x, r) ELSE y = x

\* h[c][i] are the slots of the page before record i of chunk c: every record
\* can be redone on them and leads to the next.
History(h, f, b) ==
    /\ h \in [1..(Len(f) + 1) -> [1..(BufferRecords + 1) -> SlotSeq]]
    /\ h[1][1] = <<>>
    /\ \A c \in 1..Len(f) : h[c + 1][1] = h[c][BufferRecords + 1]
    /\ \A c \in 1..(Len(f) + 1), i \in 1..BufferRecords :
          /\ Follows(h[c][i], LogAt(f, b, c, i), h[c][i + 1])
          /\ LogAt(f, b, c, i).type = "INVALID" => h[c][i] = h[c][BufferRecords + 1]

\* The changes after lsn are those of chunk c0 and the chunks behind it.
Starts(f, b, lsn, c0) ==
    /\ c0 \in 1..(Len(f) + 1)
    /\ \A c \in 1..(Len(f) + 1), i \in 1..BufferRecords :
          LogAt(f, b, c, i).type \in Changes => (LogAt(f, b, c, i).lsn > lsn <=> c >= c0)

LEMMA ZeroRecord == Zero \in Record /\ Zero.type = "INVALID" /\ Zero.lsn = 0
<1>1. 0 \in Id
  BY Bounds DEF Id
<1> QED BY <1>1 DEF Zero, Record

LEMMA LogTyped ==
    ASSUME NEW f \in Seq(Chunk), NEW b \in Seq(Record)
    PROVE  /\ Len(f) \in Nat /\ Len(b) \in Nat
           /\ \A c \in 1..(Len(f) + 1), i \in 1..BufferRecords : LogAt(f, b, c, i) \in Record
<1>1. /\ Len(f) \in Nat /\ \A c \in 1..Len(f) : f[c] \in Chunk
      /\ Len(b) \in Nat /\ \A i \in 1..Len(b) : b[i] \in Record
  OBVIOUS
<1>2. ASSUME NEW c \in 1..(Len(f) + 1), NEW i \in 1..BufferRecords PROVE LogAt(f, b, c, i) \in Record
  <2>1. CASE c <= Len(f)
    <3>1. c \in 1..Len(f)
      BY <1>1, <2>1
    <3>2. f[c] \in [1..BufferRecords -> Record]
      BY <1>1, <3>1 DEF Chunk
    <3> QED BY ZenonT(60), <2>1, <3>2 DEF LogAt
  <2>2. CASE ~(c <= Len(f)) /\ i <= Len(b)
    BY <1>1, <2>2, Bounds DEF LogAt
  <2>3. CASE ~(c <= Len(f)) /\ ~(i <= Len(b))
    BY <2>3, ZeroRecord DEF LogAt
  <2> QED BY <2>1, <2>2, <2>3
<1> QED BY <1>1, <1>2

\* AppendLogRecord adds one record to the log.
LEMMA LogAppend ==
    ASSUME NEW f, NEW b, LogShape(f, b), Len(b) < BufferRecords, NEW r \in Record
    PROVE  /\ Len(f) \in Nat /\ Len(b) \in Nat
           /\ Append(b, r) \in Seq(Record) /\ Len(Append(b, r)) = Len(b) + 1
           /\ LogAt(f, Append(b, r), Len(f) + 1, Len(b) + 1) = r
           /\ LogAt(f, b, Len(f) + 1, Len(b) + 1) = Zero
           /\ \A c \in 1..(Len(f) + 1), i \in 1..BufferRecords :
                 (c = Len(f) + 1 /\ i = Len(b) + 1) \/ LogAt(f, Append(b, r), c, i) = LogAt(f, b, c, i)
<1>1. b \in Seq(Record) /\ f \in Seq(Chunk)
  BY DEF LogShape
<1>2. Len(f) \in Nat /\ Len(b) \in Nat
  BY <1>1, LogTyped
<1> DEFINE b2 == Append(b, r)
<1>3. /\ b2 \in Seq(Record) /\ Len(b2) = Len(b) + 1 /\ b2[Len(b) + 1] = r
      /\ \A i \in 1..Len(b) : b2[i] = b[i]
  BY <1>1
<1> HIDE DEF b2
<1>4. ASSUME NEW c \in 1..(Len(f) + 1), NEW i \in 1..BufferRecords,
             ~(c = Len(f) + 1 /\ i = Len(b) + 1)
      PROVE  LogAt(f, b2, c, i) = LogAt(f, b, c, i)
  <2>1. CASE c <= Len(f)
    BY <2>1 DEF LogAt
  <2>2. CASE ~(c <= Len(f)) /\ i <= Len(b)
    BY <1>2, <1>3, <2>2, Bounds DEF LogAt
  <2>3. CASE ~(c <= Len(f)) /\ i > Len(b) + 1
    BY <1>2, <1>3, <2>3, Bounds DEF LogAt
  <2> QED BY <1>2, <1>4, <2>1, <2>2, <2>3, Bounds
<1>5. LogAt(f, b2, Len(f) + 1, Len(b) + 1) = r /\ LogAt(f, b, Len(f) + 1, Len(b) + 1) = Zero
  BY <1>2, <1>3 DEF LogAt
<1> QED BY <1>2, <1>3, <1>4, <1>5 DEF b2

LEMMA ShapeAppend ==
    ASSUME NEW f, NEW b, LogShape(f, b), Len(b) < BufferRecords, NEW r \in Record,
           r.type \notin {"INVALID", "NEWPAGE"}, r.type \in Changes => r.lsn > 0
    PROVE  LogShape(f, Append(b, r))
<1> DEFINE b2 == Append(b, r)
<1>1. /\ Len(f) \in Nat /\ Len(b) \in Nat
      /\ b2 \in Seq(Record) /\ Len(b2) = Len(b) + 1
      /\ LogAt(f, b2, Len(f) + 1, Len(b) + 1) = r
      /\ LogAt(f, b, Len(f) + 1, Len(b) + 1) = Zero
      /\ \A c \in 1..(Len(f) + 1), i \in 1..BufferRecords :
            (c = Len(f) + 1 /\ i = Len(b) + 1) \/ LogAt(f, b2, c, i) = LogAt(f, b, c, i)
  BY LogAppend
<1>2. \A i \in 1..Len(b2) : b2[i].type # "INVALID"
  <2>1. b \in Seq(Record) /\ \A i \in 1..Len(b) : b[i].type # "INVALID"
    BY DEF LogShape
  <2>2. b2[Len(b) + 1] = r /\ \A i \in 1..Len(b) : b2[i] = b[i]
    BY <2>1
  <2> HIDE DEF b2
  <2> QED BY <1>1, <2>1, <2>2
<1> HIDE DEF b2
<1>3. LogAt(f, b2, 1, 1).type = "BEGIN" /\ LogAt(f, b2, 1, 2).type = "NEWPAGE"
  <2>1. 1 \in 1..(Len(f) + 1) /\ 1 \in 1..BufferRecords /\ 2 \in 1..BufferRecords
    BY <1>1, Bounds
  <2>2. LogAt(f, b, 1, 1).type = "BEGIN" /\ LogAt(f, b, 1, 2).type = "NEWPAGE"
    BY DEF LogShape
  <2>3. ~(1 = Len(f) + 1 /\ 1 = Len(b) + 1) /\ ~(1 = Len(f) + 1 /\ 2 = Len(b) + 1)
    BY <1>1, <2>2, ZeroRecord
  <2> QED BY <1>1, <2>1, <2>2, <2>3
<1>4. ASSUME NEW c \in 1..(Len(f) + 1), NEW i \in 1..BufferRecords
      PROVE  /\ LogAt(f, b2, c, i).type = "NEWPAGE" => c = 1 /\ i = 2
             /\ LogAt(f, b2, c, i).type \in Changes => LogAt(f, b2, c, i).lsn > 0
  <2>1. CASE c = Len(f) + 1 /\ i = Len(b) + 1
    BY <1>1, <2>1
  <2>2. CASE LogAt(f, b2, c, i) = LogAt(f, b, c, i)
    BY <2>2 DEF LogShape
  <2> QED BY <1>1, <2>1, <2>2
<1>5. LogShape(f, b2)
  <2>1. f \in Seq(Chunk)
    BY DEF LogShape
  <2>2. Len(b2) <= BufferRecords
    BY <1>1, Bounds
  <2> QED BY <1>1, <1>2, <1>3, <1>4, <2>1, <2>2 DEF LogShape
<1> QED BY <1>5 DEF b2

LEMMA HistoryAppend ==
    ASSUME NEW f, NEW b, LogShape(f, b), Len(b) < BufferRecords, NEW r \in Record,
           r.type # "INVALID", NEW h, History(h, f, b), NEW y \in SlotSeq,
           Follows(h[Len(f) + 1][BufferRecords + 1], r, y)
    PROVE  \E g : /\ History(g, f, Append(b, r))
                  /\ \A c \in 1..(Len(f) + 1) : g[c][1] = h[c][1]
                  /\ g[Len(f) + 1][BufferRecords + 1] = y
<1> DEFINE b2 == Append(b, r)
           m == Len(f) + 1
           n == Len(b) + 1
           top == BufferRecords + 1
           last == [j \in 1..top |-> IF j <= n THEN h[m][j] ELSE y]
           g == [h EXCEPT ![m] = last]
<1>1. /\ Len(f) \in Nat /\ Len(b) \in Nat
      /\ LogAt(f, b2, m, n) = r /\ LogAt(f, b, m, n) = Zero
      /\ \A c \in 1..m, i \in 1..BufferRecords :
            (c = m /\ i = n) \/ LogAt(f, b2, c, i) = LogAt(f, b, c, i)
  BY LogAppend
<1> HIDE DEF b2
<1>2. BufferRecords \in Nat /\ n \in 1..BufferRecords /\ m \in 1..m /\ m \in Nat /\ 1 \in 1..n /\ n < top
  BY <1>1, Bounds
<1>3. h \in [1..m -> [1..top -> SlotSeq]]
  BY DEF History
<1>4. /\ last \in [1..top -> SlotSeq] /\ last[top] = y /\ last[1] = h[m][1]
      /\ \A j \in 1..top : j <= n => last[j] = h[m][j]
      /\ \A j \in 1..top : j > n => last[j] = y
  BY <1>2, <1>3
<1>5. /\ g \in [1..m -> [1..top -> SlotSeq]] /\ g[m] = last
      /\ \A c \in 1..m : c # m => g[c] = h[c]
  BY <1>2, <1>3, <1>4
<1> HIDE DEF last, g
<1>6. \A c \in 1..m : g[c][1] = h[c][1]
  BY ZenonT(60), <1>4, <1>5
\* Behind the records the page does not change any more.
<1>7. ASSUME NEW i \in 1..BufferRecords, i >= n PROVE h[m][i] = h[m][top]
  <2>1. LogAt(f, b, m, i) = Zero
    BY <1>1, <1>2, <1>7 DEF LogAt
  <2> QED BY ZenonT(60), <1>2, <2>1, ZeroRecord DEF History
<1>8. ASSUME NEW c \in 1..m, NEW i \in 1..BufferRecords
      PROVE  /\ Follows(g[c][i], LogAt(f, b2, c, i), g[c][i + 1])
             /\ LogAt(f, b2, c, i).type = "INVALID" => g[c][i] = g[c][top]
  <2>1. /\ Follows(h[c][i], LogAt(f, b, c, i), h[c][i + 1])
        /\ LogAt(f, b, c, i).type = "INVALID" => h[c][i] = h[c][top]
    BY DEF History
  <2>2. CASE c # m
    BY ZenonT(60), <1>1, <1>5, <2>1, <2>2
  <2>3. CASE c = m /\ i < n
    <3>1. i \in 1..top /\ i + 1 \in 1..top /\ i <= n /\ i + 1 <= n
      BY <1>2, <2>3
    <3>2. g[c][i] = h[c][i] /\ g[c][i + 1] = h[c][i + 1]
      BY ZenonT(60), <1>4, <1>5, <2>3, <3>1
    <3>3. LogAt(f, b2, c, i) = LogAt(f, b, c, i) /\ LogAt(f, b, c, i) = b[i] /\ i \in 1..Len(b)
      BY <1>1, <1>2, <2>3 DEF LogAt
    <3>4. LogAt(f, b2, c, i).type # "INVALID"
      BY <3>3 DEF LogShape
    <3> QED BY <2>1, <3>2, <3>3, <3>4
  <2>4. CASE c = m /\ i = n
    <3>1. i \in 1..top /\ i + 1 \in 1..top /\ i <= n /\ i + 1 > n
      BY <1>2, <2>4
    <3>2. g[c][i] = h[m][n] /\ g[c][i + 1] = y
      BY ZenonT(60), <1>4, <1>5, <2>4, <3>1
    <3>3. h[m][n] = h[m][top]
      BY <1>2, <1>7
    <3> QED BY <1>1, <2>4, <3>2, <3>3
  <2>5. CASE c = m /\ i > n
    <3>1. i \in 1..top /\ i + 1 \in 1..top /\ i > n /\ i + 1 > n
      BY <1>2, <2>5
    <3>2. g[c][i] = y /\ g[c][i + 1] = y /\ g[c][top] = y
      BY ZenonT(60), <1>4, <1>5, <2>5, <3>1
    <3>3. LogAt(f, b2, c, i) = Zero
      <4>1. LogAt(f, b, m, i) = Zero
        BY <1>1, <1>2, <2>5 DEF LogAt
      <4> QED BY <1>1, <1>2, <2>5, <4>1
    <3> QED BY <3>2, <3>3, ZeroRecord DEF Follows, Changes
  <2> QED BY <1>2, <2>2, <2>3, <2>4, <2>5
<1>9. \A c \in 1..Len(f) : g[c + 1][1] = g[c][top]
  <2>1. ASSUME NEW c \in 1..Len(f) PROVE g[c + 1][1] = g[c][top]
    <3>1. c \in 1..m /\ c # m /\ c + 1 \in 1..m
      BY <1>1
    <3>2. h[c + 1][1] = h[c][top]
      BY DEF History
    <3> QED BY <1>5, <1>6, <3>1, <3>2
  <2> QED BY <2>1
<1>10. g[1][1] = <<>>
  <2>1. 1 \in 1..m /\ h[1][1] = <<>>
    BY <1>1 DEF History
  <2> QED BY <1>6, <2>1
<1>11. History(g, f, b2)
  BY <1>5, <1>8, <1>9, <1>10 DEF History
<1> QED BY ZenonT(60), <1>4, <1>5, <1>6, <1>11 DEF b2

\* DiskManager::WriteLog appends the buffer as the next chunk: the page does
\* not change with it.
LEMMA LogFlush ==
    ASSUME NEW f, NEW b, LogShape(f, b), NEW k \in Chunk,
           \A i \in 1..BufferRecords : k[i] = LogAt(f, b, Len(f) + 1, i)
    PROVE  /\ Len(f) \in Nat
           /\ Append(f, k) \in Seq(Chunk) /\ Len(Append(f, k)) = Len(f) + 1
           /\ \A c \in 1..(Len(f) + 1), i \in 1..BufferRecords :
                 LogAt(Append(f, k), <<>>, c, i) = LogAt(f, b, c, i)
           /\ \A i \in 1..BufferRecords : LogAt(Append(f, k), <<>>, Len(f) + 2, i) = Zero
<1> DEFINE f2 == Append(f, k)
<1>1. f \in Seq(Chunk) /\ Len(f) \in Nat
  BY LogTyped DEF LogShape
<1>2. /\ f2 \in Seq(Chunk) /\ Len(f2) = Len(f) + 1 /\ f2[Len(f) + 1] = k
      /\ \A c \in 1..Len(f) : f2[c] = f[c]
  BY <1>1
<1> HIDE DEF f2
<1>3. ASSUME NEW c \in 1..(Len(f) + 1), NEW i \in 1..BufferRecords
      PROVE  LogAt(f2, <<>>, c, i) = LogAt(f, b, c, i)
  <2>1. LogAt(f2, <<>>, c, i) = f2[c][i]
    BY <1>1, <1>2 DEF LogAt
  <2>2. CASE c = Len(f) + 1
    BY <1>2, <2>1, <2>2
  <2>3. CASE c \in 1..Len(f)
    BY <1>2, <2>1, <2>3, <1>1 DEF LogAt
  <2> QED BY <1>1, <2>2, <2>3
<1>4. ASSUME NEW i \in 1..BufferRecords PROVE LogAt(f2, <<>>, Len(f) + 2, i) = Zero
  <2>1. Len(<<>>) = 0
    OBVIOUS
  <2> QED BY <1>1, <1>2, <2>1, Bounds DEF LogAt
<1> QED BY <1>1, <1>2, <1>3, <1>4 DEF f2

LEMMA ShapeFlush ==
    ASSUME NEW f, NEW b, LogShape(f, b), NEW k \in Chunk,
           \A i \in 1..BufferRecords : k[i] = LogAt(f, b, Len(f) + 1, i)
    PROVE  LogShape(Append(f, k), <<>>)
<1> DEFINE f2 == Append(f, k)
<1>1. /\ Len(f) \in Nat
      /\ f2 \in Seq(Chunk) /\ Len(f2) = Len(f) + 1
      /\ \A c \in 1..(Len(f) + 1), i \in 1..BufferRecords : LogAt(f2, <<>>, c, i) = LogAt(f, b, c, i)
      /\ \A i \in 1..BufferRecords : LogAt(f2, <<>>, Len(f) + 2, i) = Zero
  BY LogFlush
<1> HIDE DEF f2
<1>2. <<>> \in Seq(Record) /\ Len(<<>>) = 0
  OBVIOUS
<1>3. 1 \in 1..(Len(f) + 1) /\ 1 \in 1..BufferRecords /\ 2 \in 1..BufferRecords /\ BufferRecords \in Nat
  BY <1>1, Bounds
<1>4. LogAt(f2, <<>>, 1, 1).type = "BEGIN" /\ LogAt(f2, <<>>, 1, 2).type = "NEWPAGE"
  BY <1>1, <1>3 DEF LogShape
<1>5. ASSUME NEW c \in 1..(Len(f2) + 1), NEW i \in 1..BufferRecords
      PROVE  /\ LogAt(f2, <<>>, c, i).type = "NEWPAGE" => c = 1 /\ i = 2
             /\ LogAt(f2, <<>>, c, i).type \in Changes => LogAt(f2, <<>>, c, i).lsn > 0
  <2>1. CASE c \in 1..(Len(f) + 1)
    BY <1>1, <2>1 DEF LogShape
  <2>2. CASE c = Len(f) + 2
    BY <1>1, <2>2, ZeroRecord DEF Changes
  <2> QED BY <1>1, <2>1, <2>2
<1>6. LogShape(f2, <<>>)
  BY <1>1, <1>2, <1>3, <1>4, <1>5 DEF LogShape
<1> QED BY <1>6 DEF f2

LEMMA HistoryFlush ==
    ASSUME NEW f, NEW b, LogShape(f, b), NEW k \in Chunk,
           \A i \in 1..BufferRecords : k[i] = LogAt(f, b, Len(f) + 1, i),
           NEW h, History(h, f, b)
    PROVE  \E g : /\ History(g, Append(f, k), <<>>)
                  /\ \A c \in 1..(Len(f) + 1) : g[c][1] = h[c][1]
                  /\ g[Len(f) + 2][1] = h[Len(f) + 1][BufferRecords + 1]
                  /\ g[Len(f) + 2][BufferRecords + 1] = h[Len(f) + 1][BufferRecords + 1]
<1> DEFINE f2 == Append(f, k)
           m == Len(f) + 1
           top == BufferRecords + 1
           y == h[m][top]
           g == [c \in 1..(m + 1) |-> IF c <= m THEN h[c] ELSE [j \in 1..top |-> y]]
<1>1. /\ Len(f) \in Nat /\ Len(f2) = m
      /\ \A c \in 1..m, i \in 1..BufferRecords : LogAt(f2, <<>>, c, i) = LogAt(f, b, c, i)
      /\ \A i \in 1..BufferRecords : LogAt(f2, <<>>, m + 1, i) = Zero
  <2>1. Len(f) + 2 = m + 1
    BY LogFlush
  <2> QED BY <2>1, LogFlush
<1> HIDE DEF f2
<1>2. BufferRecords \in Nat /\ top \in 1..top /\ 1 \in 1..top /\ m \in 1..m /\ m \in Nat
  BY <1>1, Bounds
<1>3. h \in [1..m -> [1..top -> SlotSeq]] /\ y \in SlotSeq
  BY <1>2 DEF History
<1> HIDE DEF y
<1>4. /\ g \in [1..(m + 1) -> [1..top -> SlotSeq]]
      /\ \A c \in 1..m : g[c] = h[c]
      /\ \A j \in 1..top : g[m + 1][j] = y
  BY <1>2, <1>3
<1> HIDE DEF g
<1>5. ASSUME NEW c \in 1..(m + 1), NEW i \in 1..BufferRecords
      PROVE  /\ Follows(g[c][i], LogAt(f2, <<>>, c, i), g[c][i + 1])
             /\ LogAt(f2, <<>>, c, i).type = "INVALID" => g[c][i] = g[c][top]
  <2>1. CASE c \in 1..m
    BY <1>1, <1>4, <2>1 DEF History
  <2>2. CASE c = m + 1
    <3>1. i \in 1..top /\ i + 1 \in 1..top
      BY <1>2
    <3>2. g[c][i] = y /\ g[c][i + 1] = y /\ g[c][top] = y
      BY <1>2, <1>4, <2>2, <3>1
    <3> QED BY <1>1, <2>2, <3>2, ZeroRecord DEF Follows, Changes
  <2> QED BY <1>1, <2>1, <2>2
<1>6. ASSUME NEW c \in 1..m PROVE g[c + 1][1] = g[c][top]
  <2>1. CASE c \in 1..Len(f)
    <3>1. c + 1 \in 1..m
      BY <1>1, <2>1
    <3> QED BY <1>4, <2>1, <3>1 DEF History
  <2>2. CASE c = m
    BY <1>2, <1>4, <2>2 DEF y
  <2> QED BY <1>1, <2>1, <2>2
<1>7. g[1][1] = <<>>
  BY <1>1, <1>4 DEF History
<1>8. History(g, f2, <<>>)
  BY <1>1, <1>4, <1>5, <1>6, <1>7 DEF History
<1>9. Len(f) + 2 = m + 1
  BY <1>1
<1> QED BY <1>2, <1>4, <1>8, <1>9 DEF f2, y

\* A crash loses the buffer: behind the chunks of the file there is nothing.
LEMMA LogCrash ==
    ASSUME NEW f, NEW b, LogShape(f, b)
    PROVE  /\ Len(f) \in Nat
           /\ \A c \in 1..Len(f), i \in 1..BufferRecords : LogAt(f, <<>>, c, i) = LogAt(f, b, c, i)
           /\ \A i \in 1..BufferRecords : LogAt(f, <<>>, Len(f) + 1, i) = Zero
<1>1. f \in Seq(Chunk) /\ Len(f) \in Nat
  BY LogTyped DEF LogShape
<1>2. Len(<<>>) = 0
  OBVIOUS
<1> QED BY <1>1, <1>2, Bounds DEF LogAt

LEMMA ShapeCrash ==
    ASSUME NEW f, NEW b, LogShape(f, b), f # <<>>
    PROVE  LogShape(f, <<>>)
<1>1. /\ Len(f) \in Nat
      /\ \A c \in 1..Len(f), i \in 1..BufferRecords : LogAt(f, <<>>, c, i) = LogAt(f, b, c, i)
      /\ \A i \in 1..BufferRecords : LogAt(f, <<>>, Len(f) + 1, i) = Zero
  BY LogCrash
<1>2. f \in Seq(Chunk) /\ <<>> \in Seq(Record) /\ Len(<<>>) = 0
  BY DEF LogShape
<1>3. Len(f) > 0
  BY <1>1, <1>2
<1>4. 1 \in 1..Len(f) /\ 1 \in 1..BufferRecords /\ 2 \in 1..BufferRecords /\ BufferRecords \in Nat
  BY <1>1, <1>3, Bounds
<1>5. LogAt(f, <<>>, 1, 1).type = "BEGIN" /\ LogAt(f, <<>>, 1, 2).type = "NEWPAGE"
  BY <1>1, <1>4 DEF LogShape
<1>6. ASSUME NEW c \in 1..(Len(f) + 1), NEW i \in 1..BufferRecords
      PROVE  /\ LogAt(f, <<>>, c, i).type = "NEWPAGE" => c = 1 /\ i = 2
             /\ LogAt(f, <<>>, c, i).type \in Changes => LogAt(f, <<>>, c, i).lsn > 0
  <2>1. CASE c \in 1..Len(f)
    BY <1>1, <2>1 DEF LogShape
  <2>2. CASE c = Len(f) + 1
    BY <1>1, <2>2, ZeroRecord DEF Changes
  <2> QED BY <1>1, <2>1, <2>2
<1> QED BY <1>1, <1>2, <1>4, <1>5, <1>6 DEF LogShape

LEMMA HistoryCrash ==
    ASSUME NEW f, NEW b, LogShape(f, b), NEW h, History(h, f, b)
    PROVE  \E g : /\ History(g, f, <<>>)
                  /\ \A c \in 1..(Len(f) + 1) : g[c][1] = h[c][1]
<1> DEFINE m == Len(f) + 1
           top == BufferRecords + 1
           y == h[m][1]
           g == [h EXCEPT ![m] = [j \in 1..top |-> y]]
<1>1. /\ Len(f) \in Nat
      /\ \A c \in 1..Len(f), i \in 1..BufferRecords : LogAt(f, <<>>, c, i) = LogAt(f, b, c, i)
      /\ \A i \in 1..BufferRecords : LogAt(f, <<>>, m, i) = Zero
  BY LogCrash
<1>2. BufferRecords \in Nat /\ top \in 1..top /\ 1 \in 1..top /\ m \in 1..m /\ m \in Nat
  BY <1>1, Bounds
<1>3. h \in [1..m -> [1..top -> SlotSeq]] /\ y \in SlotSeq
  BY <1>2 DEF History
<1> HIDE DEF y
<1>4. /\ g \in [1..m -> [1..top -> SlotSeq]]
      /\ \A c \in 1..m : c # m => g[c] = h[c]
      /\ \A j \in 1..top : g[m][j] = y
  BY <1>2, <1>3
<1> HIDE DEF g
<1>5. \A c \in 1..m : g[c][1] = h[c][1]
  BY <1>2, <1>4 DEF y
<1>6. ASSUME NEW c \in 1..m, NEW i \in 1..BufferRecords
      PROVE  /\ Follows(g[c][i], LogAt(f, <<>>, c, i), g[c][i + 1])
             /\ LogAt(f, <<>>, c, i).type = "INVALID" => g[c][i] = g[c][top]
  <2>1. CASE c # m
    <3>1. c \in 1..Len(f)
      BY <1>1, <2>1
    <3> QED BY <1>1, <1>4, <2>1, <3>1 DEF History
  <2>2. CASE c = m
    <3>1. i \in 1..top /\ i + 1 \in 1..top
      BY <1>2
    <3>2. g[c][i] = y /\ g[c][i + 1] = y /\ g[c][top] = y
      BY <1>2, <1>4, <2>2, <3>1
    <3> QED BY <1>1, <2>2, <3>2, ZeroRecord DEF Follows, Changes
  <2> QED BY <2>1, <2>2
<1>7. ASSUME NEW c \in 1..Len(f) PROVE g[c + 1][1] = g[c][top]
  <2>1. c + 1 \in 1..m /\ c \in 1..m /\ c # m
    BY <1>1
  <2>2. h[c + 1][1] = h[c][top]
    BY DEF History
  <2> QED BY <1>4, <1>5, <2>1, <2>2
<1>8. g[1][1] = <<>>
  <2>1. 1 \in 1..m /\ h[1][1] = <<>>
    BY <1>1 DEF History
  <2> QED BY <1>5, <2>1
<1>9. History(g, f, <<>>)
  BY <1>4, <1>6, <1>7, <1>8 DEF History
<1> QED BY <1>5, <1>9

-----------------------------------------------------------------------------
(* The inductive invariant.  Two things of the code are excluded, as each  *)
(* breaks it: a page behind page 0 that is recovered a second time, whose  *)
(* LSN Redo has not set, and one that was never written before the crash.  *)
(* It is kept until an image with old records behind its own is written.   *)

Sound == ~Again /\ ~Unwritten

Page == [lsn : Nat, slots : SlotSeq]
Stages == {"none", "grow", "commit", "abort", "committing", "aborting", "done"}
TxnRecord == [stage : Stages, write_set : Seq(Item), prev_lsn : Int]

Typed ==
    /\ up \in {"run", "down", "redo", "undo", "assert", "overrun"} /\ first \in BOOLEAN
    /\ page \in Page /\ disk \in Page /\ durable \in SlotSeq
    /\ next_lsn \in Nat /\ persistent_lsn \in Int /\ flushes \in Nat
    /\ next_txn \in Nat /\ crashes \in Nat
    /\ txn \in [Id -> TxnRecord]
    /\ lock \in [Slot -> Id \cup {NoTxn}]
    /\ committed \in [Slot -> Tuple \cup {NoTuple}]
    /\ changers \in [Slot -> SUBSET (Id \cup {Lost})]

Active(x) == x.stage \notin {"none", "done"}

\* What the write set of t says about the page, x being what txn has of t.
Covers(t, x, lk, q, cm) ==
    /\ x.stage \in {"grow", "abort"} => Undoable(t, x.write_set, lk, q, cm)
    /\ x.stage = "commit" => Appliable(t, x.write_set, lk, q)
    /\ x.stage \in {"grow", "abort", "aborting"} => Clean(t, x.write_set, lk, q, cm)
    /\ x.stage \in {"none", "committing", "aborting", "done"} => x.write_set = <<>>

\* The locks, and that a slot differs from the page of the log file only if
\* someone who changed it still waits for the log.
Slots(tx, lk, q, cm, ch, d, p) ==
    \A s \in Slot :
        /\ lk[s] = NoTxn => Visible(q)[s] = cm[s]
        /\ lk[s] # NoTxn => lk[s] \in ch[s]
        /\ \A t \in ch[s] : t \in Id /\ Active(tx[t])
        /\ Visible(q)[s] # Visible(d)[s] => \E t \in ch[s] : tx[t].prev_lsn > p

Rows ==
    /\ \A t \in Id : Covers(t, txn[t], lock, page.slots, committed)
    /\ Slots(txn, lock, page.slots, committed, changers, durable, persistent_lsn)
    /\ \A t \in Id : Active(txn[t]) => next_lsn > 0
    /\ \A t \in Id : t >= next_txn => txn[t].stage = "none"
    /\ persistent_lsn < next_lsn

\* Between a crash and the end of the recovery.
Down ==
    /\ buffer = <<>> /\ next_lsn = 0 /\ persistent_lsn = NoLsn /\ flushes = 0 /\ next_txn = 0
    /\ txn = [t \in Id |-> Idle] /\ lock = [s \in Slot |-> NoTxn]
    /\ crashes > 0 /\ file # <<>>
    /\ \A s \in Slot : changers[s] = {} => Visible(durable)[s] = committed[s]

\* In the first process the LSNs say what is in the file.
Fresh ==
    /\ page.lsn < next_lsn
    /\ disk.lsn > 0 => disk.lsn <= persistent_lsn
    /\ page.lsn <= persistent_lsn => page.slots = durable
    /\ \A c \in 1..(Len(file) + 1), i \in 1..BufferRecords :
          LogAt(file, buffer, c, i).type \in Changes =>
            /\ LogAt(file, buffer, c, i).lsn <= page.lsn
            /\ LogAt(file, buffer, c, i).lsn <= persistent_lsn <=> c <= Len(file)

\* The page with this LSN is the one before a chunk, and the changes it lacks
\* are those of this chunk and the later ones.
AtChunk(h, f, b, x) == \E c \in 1..(Len(f) + 1) : Starts(f, b, x.lsn, c) /\ x.slots = h[c][1]

\* Redo has come to the cursor: the page is the one before the record there,
\* or still one that the records up to there are in.
AtCursor(h, f, b, x, cur) ==
    \E c \in 1..(Len(f) + 1) :
        /\ Starts(f, b, x.lsn, c)
        /\ x.slots = IF cur[1] < c THEN h[c][1] ELSE h[cur[1]][cur[2]]

Cursor(f, cur) ==
    /\ cur \in Nat \X Nat
    /\ cur[1] \in 1..(Len(f) + 1) /\ cur[2] \in 1..(BufferRecords + 1)
    /\ cur[1] = Len(f) + 1 => cur[2] = 1

Logged(h) ==
    /\ History(h, file, buffer)
    /\ h[Len(file) + 1][1] = durable
    /\ up = "run" => h[Len(file) + 1][BufferRecords + 1] = page.slots
    /\ ~first /\ (up = "down" \/ (up = "run" /\ crashes = 0 /\ disk.lsn > 0)) =>
            AtChunk(h, file, buffer, disk)
    /\ up = "redo" /\ ~(first /\ cursor[1] = 1 /\ cursor[2] <= 2) =>
            AtCursor(h, file, buffer, page, cursor)

\* A page behind the header page has been written before it is recovered.
Written ==
    ~first => (up = "down" => disk.lsn > 0) /\ (up = "redo" => page.lsn > 0)

RInv ==
    /\ Typed
    /\ Written
    /\ LogShape(file, buffer)
    /\ up = "run" => Rows
    /\ up = "run" /\ crashes = 0 => Fresh
    /\ up \in {"down", "redo", "undo"} => Down
    /\ up = "down" => cursor = <<1, 1>>
    /\ up = "redo" => Cursor(file, cursor)
    /\ up = "undo" => page.slots = durable
    /\ up # "assert"
    /\ \E h : Logged(h)

LogInv ==
    /\ Written
    /\ LogShape(file, buffer)
    /\ up = "run" /\ crashes = 0 => Fresh
    /\ \E h : Logged(h)

-----------------------------------------------------------------------------
(* The steps and the log.                                                  *)

LEMMA ChunksTyped ==
    ASSUME LogShape(file, buffer)
    PROVE  /\ file \in Seq(Chunk) /\ buffer \in Seq(Record) /\ Len(file) \in Nat
           /\ Len(file) + 1 \in 1..(Len(file) + 1) /\ BufferRecords \in Nat
           /\ \A c \in 1..(Len(file) + 1), i \in 1..BufferRecords :
                 /\ LogAt(file, buffer, c, i) \in Record
                 /\ LogAt(file, buffer, c, i).lsn \in Nat
<1>1. file \in Seq(Chunk) /\ buffer \in Seq(Record)
  BY DEF LogShape
<1>2. /\ Len(file) \in Nat
      /\ \A c \in 1..(Len(file) + 1), i \in 1..BufferRecords : LogAt(file, buffer, c, i) \in Record
  BY <1>1, LogTyped
<1>3. \A r \in Record : r.lsn \in Nat
  BY DEF Record
<1> QED BY <1>1, <1>2, <1>3, Bounds

\* A record goes into the buffer and the page changes as it says.
LEMMA LogStep ==
    ASSUME Typed, Rows, LogInv, up = "run", up' = "run", NEW r \in Record, AppendLogRecord(r),
           r.lsn = next_lsn, r.type \notin {"INVALID", "NEWPAGE"},
           r.type \in Changes => next_lsn > 0,
           IF r.type \in Changes THEN page'.lsn = next_lsn ELSE page' = page,
           page'.slots \in SlotSeq, Follows(page.slots, r, page'.slots),
           UNCHANGED <<first, disk, crashes, durable>>
    PROVE  LogInv'
<1> DEFINE m == Len(file) + 1
           n == Len(buffer) + 1
           top == BufferRecords + 1
           b2 == Append(buffer, r)
<1>1. buffer' = b2 /\ file' = file /\ Len(buffer) < BufferRecords
      /\ next_lsn' = next_lsn + 1 /\ persistent_lsn' = persistent_lsn
  BY DEF AppendLogRecord
<1>2. LogShape(file, buffer)
  BY DEF LogInv
<1>3. LogShape(file, b2)
  BY <1>1, <1>2, ShapeAppend
<1>4. /\ Len(file) \in Nat /\ Len(buffer) \in Nat /\ LogAt(file, b2, m, n) = r
      /\ \A c \in 1..m, i \in 1..BufferRecords :
            (c = m /\ i = n) \/ LogAt(file, b2, c, i) = LogAt(file, buffer, c, i)
  BY <1>1, <1>2, LogAppend
<1>5. PICK h : Logged(h)
  BY ZenonT(60) DEF LogInv
<1>6. History(h, file, buffer) /\ h[m][1] = durable /\ h[m][top] = page.slots
  BY <1>5 DEF Logged
<1>7. PICK g : /\ History(g, file, b2) /\ \A c \in 1..m : g[c][1] = h[c][1]
               /\ g[m][top] = page'.slots
  <2>1. PICK y \in SlotSeq : y = page'.slots
    OBVIOUS
  <2>2. Follows(h[m][top], r, y)
    BY ZenonT(60), <1>6, <2>1
  <2>3. \E g : /\ History(g, file, Append(buffer, r)) /\ \A c \in 1..(Len(file) + 1) : g[c][1] = h[c][1]
               /\ g[Len(file) + 1][BufferRecords + 1] = y
    BY <1>1, <1>2, <1>6, <2>2, HistoryAppend
  <2> QED BY <2>1, <2>3
<1> HIDE DEF b2
<1>8. /\ page.lsn \in Nat /\ disk.lsn \in Nat /\ next_lsn \in Nat /\ persistent_lsn \in Int
      /\ persistent_lsn < next_lsn /\ m \in 1..m
      /\ \A c \in 1..m, i \in 1..BufferRecords : LogAt(file, buffer, c, i).lsn \in Nat
  BY <1>2, ChunksTyped DEF Typed, Page, Rows
<1>9. ASSUME crashes = 0 PROVE Fresh'
  <2>1. Fresh
    BY <1>9 DEF LogInv
  <2>2. page'.lsn < next_lsn' /\ page.lsn <= page'.lsn
    BY <1>1, <1>8, <2>1 DEF Fresh
  <2>3. page'.lsn <= persistent_lsn => page'.slots = durable
    BY <1>8, <2>1 DEF Fresh
  <2>4. ASSUME NEW c \in 1..m, NEW i \in 1..BufferRecords, LogAt(file, b2, c, i).type \in Changes
        PROVE  /\ LogAt(file, b2, c, i).lsn <= page'.lsn
               /\ LogAt(file, b2, c, i).lsn <= persistent_lsn <=> c <= Len(file)
    <3>1. CASE c = m /\ i = n
      BY <1>4, <1>8, <2>4, <3>1
    <3>2. CASE LogAt(file, b2, c, i) = LogAt(file, buffer, c, i)
      <4>1. /\ LogAt(file, buffer, c, i).lsn <= page.lsn
            /\ LogAt(file, buffer, c, i).lsn <= persistent_lsn <=> c <= Len(file)
        BY <2>1, <2>4, <3>2 DEF Fresh
      <4>2. LogAt(file, buffer, c, i).lsn \in Nat /\ page'.lsn \in Nat
        BY <1>8
      <4> QED BY <1>8, <2>2, <3>2, <4>1, <4>2
    <3> QED BY <1>4, <3>1, <3>2
  <2> QED BY <1>1, <2>1, <2>2, <2>3, <2>4 DEF Fresh
<1>10. ASSUME ~first, crashes = 0, disk.lsn > 0 PROVE AtChunk(g, file, b2, disk)
  <2>1. AtChunk(h, file, buffer, disk)
    BY <1>5, <1>10 DEF Logged
  <2>2. PICK k \in 1..m : Starts(file, buffer, disk.lsn, k) /\ disk.slots = h[k][1]
    BY <2>1 DEF AtChunk
  <2>3. disk.lsn < next_lsn
    BY <1>8, <1>10 DEF LogInv, Fresh
  <2>4. Starts(file, b2, disk.lsn, k)
    <3>1. ASSUME NEW c \in 1..m, NEW i \in 1..BufferRecords, LogAt(file, b2, c, i).type \in Changes
          PROVE  LogAt(file, b2, c, i).lsn > disk.lsn <=> c >= k
      <4>1. CASE c = m /\ i = n
        BY <1>4, <1>8, <2>3, <4>1
      <4>2. CASE LogAt(file, b2, c, i) = LogAt(file, buffer, c, i)
        BY ZenonT(60), <2>2, <3>1, <4>2 DEF Starts
      <4> QED BY <1>4, <4>1, <4>2
    <3> QED BY <3>1 DEF Starts
  <2> QED BY ZenonT(60), <1>7, <2>2, <2>4 DEF AtChunk
<1>11. Logged(g)'
  <2>1. g[m][1] = durable
    BY <1>6, <1>7, <1>8
  <2> QED BY ZenonT(60), <1>1, <1>7, <1>10, <2>1 DEF Logged
<1>12. Written'
  BY DEF Written
<1> QED BY <1>1, <1>3, <1>9, <1>11, <1>12 DEF LogInv

LEMMA FlushLogLog ==
    ASSUME Typed, Rows, LogInv, FlushLog, ~leftover'
    PROVE  LogInv'
<1> DEFINE m == Len(file) + 1
           top == BufferRecords + 1
           f2 == Append(file, Image)
<1>1. LogShape(file, buffer) /\ up = "run" /\ up' = "run"
  BY DEF LogInv, FlushLog
<1>2. /\ file' = f2 /\ buffer' = <<>> /\ persistent_lsn' = next_lsn - 1 /\ next_lsn' = next_lsn
      /\ durable' = page.slots /\ UNCHANGED <<page, disk, first, crashes>>
      /\ \A i \in (Len(buffer) + 1)..BufferRecords : Image[i] = Zero
  BY ZenonT(60) DEF FlushLog
<1>3. \A i \in 1..BufferRecords : Image[i] = LogAt(file, buffer, m, i)
  <2> SUFFICES ASSUME NEW i \in 1..BufferRecords PROVE Image[i] = LogAt(file, buffer, m, i)
    OBVIOUS
  <2>1. Len(file) \in Nat /\ Len(buffer) \in Nat /\ BufferRecords \in Nat
    BY <1>1, ChunksTyped DEF LogShape
  <2>2. CASE i <= Len(buffer)
    BY <2>1, <2>2 DEF Image, LogAt
  <2>3. CASE ~(i <= Len(buffer))
    <3>1. i \in (Len(buffer) + 1)..BufferRecords
      BY <2>1, <2>3
    <3> QED BY <1>2, <2>1, <2>3, <3>1 DEF LogAt
  <2> QED BY <2>2, <2>3
<1>4. Image \in Chunk
  <2>1. \A i \in 1..BufferRecords : Image[i] \in Record
    BY <1>1, <1>3, ChunksTyped
  <2>2. PICK old : Image = [i \in 1..BufferRecords |-> IF i <= Len(buffer) THEN buffer[i] ELSE old[i]]
    BY DEF Image
  <2> QED BY <2>1, <2>2 DEF Chunk
<1>5. LogShape(f2, <<>>)
  BY <1>1, <1>3, <1>4, ShapeFlush
<1>6. /\ Len(file) \in Nat /\ Len(f2) = m
      /\ \A c \in 1..m, i \in 1..BufferRecords : LogAt(f2, <<>>, c, i) = LogAt(file, buffer, c, i)
      /\ \A i \in 1..BufferRecords : LogAt(f2, <<>>, m + 1, i) = Zero
  <2>1. /\ Len(file) \in Nat /\ Len(Append(file, Image)) = Len(file) + 1
        /\ \A c \in 1..(Len(file) + 1), i \in 1..BufferRecords :
                LogAt(Append(file, Image), <<>>, c, i) = LogAt(file, buffer, c, i)
        /\ \A i \in 1..BufferRecords : LogAt(Append(file, Image), <<>>, Len(file) + 2, i) = Zero
    BY <1>1, <1>3, <1>4, LogFlush
  <2>2. Len(file) + 2 = m + 1
    BY <2>1
  <2> QED BY <2>1, <2>2
<1>7. PICK h : Logged(h)
  BY DEF LogInv
<1>8. History(h, file, buffer) /\ h[m][top] = page.slots
  BY <1>1, <1>7 DEF Logged
<1>9. PICK g : /\ History(g, f2, <<>>) /\ \A c \in 1..m : g[c][1] = h[c][1]
               /\ g[m + 1][1] = page.slots /\ g[m + 1][top] = page.slots
  <2>1. \E g : /\ History(g, Append(file, Image), <<>>)
               /\ \A c \in 1..(Len(file) + 1) : g[c][1] = h[c][1]
               /\ g[Len(file) + 2][1] = h[Len(file) + 1][BufferRecords + 1]
               /\ g[Len(file) + 2][BufferRecords + 1] = h[Len(file) + 1][BufferRecords + 1]
    BY <1>1, <1>3, <1>4, <1>8, HistoryFlush
  <2>2. Len(file) + 2 = m + 1
    BY <1>6
  <2> QED BY <1>8, <2>1, <2>2
<1> HIDE DEF f2
<1>10. /\ page.lsn \in Nat /\ disk.lsn \in Nat /\ next_lsn \in Nat /\ persistent_lsn \in Int
       /\ persistent_lsn < next_lsn
       /\ \A c \in 1..m, i \in 1..BufferRecords : LogAt(file, buffer, c, i).lsn \in Nat
  BY <1>1, ChunksTyped DEF Typed, Page, Rows
<1>11. ASSUME NEW c \in 1..(m + 1), NEW i \in 1..BufferRecords, LogAt(f2, <<>>, c, i).type \in Changes
       PROVE  c \in 1..m /\ LogAt(f2, <<>>, c, i) = LogAt(file, buffer, c, i)
  <2>1. c # m + 1
    BY <1>6, <1>11, ZeroRecord DEF Changes
  <2> QED BY <1>6, <2>1
<1>12. ASSUME crashes = 0 PROVE Fresh'
  <2>1. Fresh
    BY <1>1, <1>12 DEF LogInv
  <2>2. ASSUME NEW c \in 1..(m + 1), NEW i \in 1..BufferRecords, LogAt(f2, <<>>, c, i).type \in Changes
        PROVE  /\ LogAt(f2, <<>>, c, i).lsn <= page.lsn
               /\ LogAt(f2, <<>>, c, i).lsn <= next_lsn - 1 <=> c <= m
    <3>1. c \in 1..m /\ LogAt(f2, <<>>, c, i) = LogAt(file, buffer, c, i)
      BY <1>11, <2>2
    <3>2. LogAt(file, buffer, c, i).lsn <= page.lsn
      BY <2>1, <2>2, <3>1 DEF Fresh
    <3>3. LogAt(file, buffer, c, i).lsn \in Nat /\ page.lsn < next_lsn /\ c <= m
      BY <1>6, <1>10, <2>1, <3>1 DEF Fresh
    <3> QED BY <1>10, <3>1, <3>2, <3>3
  <2>3. disk.lsn > 0 => disk.lsn <= next_lsn - 1
    BY <1>10, <2>1 DEF Fresh
  <2> QED BY <1>2, <1>6, <2>1, <2>2, <2>3 DEF Fresh
<1>13. ASSUME ~first, crashes = 0, disk.lsn > 0 PROVE AtChunk(g, f2, <<>>, disk)
  <2>1. AtChunk(h, file, buffer, disk)
    BY ZenonT(60), <1>1, <1>7, <1>13 DEF Logged
  <2>2. PICK k \in 1..m : Starts(file, buffer, disk.lsn, k) /\ disk.slots = h[k][1]
    BY ZenonT(60), <2>1 DEF AtChunk
  <2>3. ASSUME NEW c \in 1..(m + 1), NEW i \in 1..BufferRecords, LogAt(f2, <<>>, c, i).type \in Changes
        PROVE  LogAt(f2, <<>>, c, i).lsn > disk.lsn <=> c >= k
    <3>1. c \in 1..m /\ LogAt(f2, <<>>, c, i) = LogAt(file, buffer, c, i)
      BY <1>11, <2>3
    <3> QED BY ZenonT(60), <2>2, <2>3, <3>1 DEF Starts
  <2>4. k \in 1..(m + 1)
    BY <1>6
  <2>5. Starts(f2, <<>>, disk.lsn, k)
    BY ZenonT(60), <1>6, <2>3, <2>4 DEF Starts
  <2> QED BY ZenonT(60), <1>6, <1>9, <2>2, <2>4, <2>5 DEF AtChunk
<1>14. Logged(g)'
  BY <1>1, <1>2, <1>6, <1>9, <1>13 DEF Logged
<1>15. Written'
  BY <1>1, <1>2 DEF Written
<1> QED BY <1>2, <1>5, <1>12, <1>14, <1>15 DEF LogInv

\* The pool writes the page only behind its records: then the page is the one
\* before the buffer.
LEMMA FlushPageLog ==
    ASSUME Typed, LogInv, FlushPage
    PROVE  LogInv'
<1>1. /\ disk' = page /\ UNCHANGED <<up, first, page, file, buffer, next_lsn, persistent_lsn, crashes, durable, cursor>>
      /\ up = "run" => page.lsn <= persistent_lsn
  BY DEF FlushPage, logVars, redoVars, ghosts
<1>2. LogShape(file, buffer)
  BY DEF LogInv
<1>3. PICK h : Logged(h)
  BY DEF LogInv
<1>4. ASSUME up = "run", crashes = 0 PROVE Fresh' /\ AtChunk(h, file, buffer, page)
  <2>1. Fresh /\ page.lsn <= persistent_lsn
    BY <1>1, <1>4 DEF LogInv
  <2>2. page.slots = durable /\ page.lsn \in Nat /\ persistent_lsn \in Int
    BY <2>1 DEF Fresh, Typed, Page
  <2>3. h[Len(file) + 1][1] = page.slots
    BY <1>3, <2>2 DEF Logged
  <2>4. ASSUME NEW c \in 1..(Len(file) + 1), NEW i \in 1..BufferRecords,
               LogAt(file, buffer, c, i).type \in Changes
        PROVE  LogAt(file, buffer, c, i).lsn > page.lsn <=> c >= Len(file) + 1
    <3>1. /\ LogAt(file, buffer, c, i).lsn <= page.lsn
          /\ LogAt(file, buffer, c, i).lsn <= persistent_lsn <=> c <= Len(file)
      BY <2>1, <2>4 DEF Fresh
    <3>2. LogAt(file, buffer, c, i).lsn \in Nat /\ Len(file) \in Nat
      BY <1>2, ChunksTyped
    <3> QED BY <2>1, <2>2, <3>1, <3>2
  <2>5. Len(file) + 1 \in 1..(Len(file) + 1)
    BY <1>2, ChunksTyped
  <2>6. Starts(file, buffer, page.lsn, Len(file) + 1)
    BY <2>4, <2>5 DEF Starts
  <2>7. AtChunk(h, file, buffer, page)
    BY <2>3, <2>5, <2>6 DEF AtChunk
  <2> QED BY <1>1, <2>1, <2>7 DEF Fresh
<1>5. up # "down"
  BY ZenonT(60) DEF FlushPage
<1>6. Logged(h)'
  BY <1>1, <1>3, <1>4, <1>5 DEF Logged
<1>7. Written'
  BY <1>1, <1>5 DEF LogInv, Written
<1> QED BY <1>1, <1>2, <1>4, <1>6, <1>7 DEF LogInv

LEMMA CrashLog ==
    ASSUME Sound, Typed, LogInv, up \in {"redo", "undo"} => Down, Crash
    PROVE  LogInv'
<1>1. /\ up' = "down" /\ buffer' = <<>> /\ UNCHANGED <<first, disk, file, durable>> /\ file # <<>>
      /\ up \in {"run", "redo", "undo"} /\ (first \/ disk.lsn > 0)
      /\ ~first => crashes < 1
  BY DEF Crash, Sound
<1>2. LogShape(file, buffer)
  BY DEF LogInv
<1>3. LogShape(file, <<>>)
  BY <1>1, <1>2, ShapeCrash
<1>4. PICK h : Logged(h)
  BY DEF LogInv
<1>5. History(h, file, buffer) /\ h[Len(file) + 1][1] = durable
  BY <1>4 DEF Logged
<1>6. PICK g : History(g, file, <<>>) /\ \A c \in 1..(Len(file) + 1) : g[c][1] = h[c][1]
  BY <1>2, <1>5, HistoryCrash
<1>7. /\ Len(file) \in Nat
      /\ \A c \in 1..Len(file), i \in 1..BufferRecords : LogAt(file, <<>>, c, i) = LogAt(file, buffer, c, i)
      /\ \A i \in 1..BufferRecords : LogAt(file, <<>>, Len(file) + 1, i) = Zero
  BY <1>2, LogCrash
<1>8. ASSUME ~first PROVE AtChunk(g, file, <<>>, disk)
  <2>1. crashes = 0 /\ up = "run" /\ disk.lsn > 0
    BY <1>1, <1>8 DEF Down, Typed
  <2>2. AtChunk(h, file, buffer, disk)
    BY ZenonT(60), <1>4, <1>8, <2>1 DEF Logged
  <2>3. PICK k \in 1..(Len(file) + 1) : Starts(file, buffer, disk.lsn, k) /\ disk.slots = h[k][1]
    BY <2>2 DEF AtChunk
  <2>4. ASSUME NEW c \in 1..(Len(file) + 1), NEW i \in 1..BufferRecords,
               LogAt(file, <<>>, c, i).type \in Changes
        PROVE  LogAt(file, <<>>, c, i).lsn > disk.lsn <=> c >= k
    <3>1. c # Len(file) + 1
      BY <1>7, <2>4, ZeroRecord DEF Changes
    <3>2. LogAt(file, <<>>, c, i) = LogAt(file, buffer, c, i)
      BY <1>7, <3>1
    <3> QED BY <2>3, <2>4, <3>2 DEF Starts
  <2>5. Starts(file, <<>>, disk.lsn, k)
    BY <2>4 DEF Starts
  <2> QED BY <1>6, <2>3, <2>5 DEF AtChunk
<1>9. Logged(g)'
  <2>1. g[Len(file) + 1][1] = durable
    BY <1>5, <1>6, <1>7
  <2> QED BY <1>1, <1>6, <1>8, <2>1 DEF Logged
<1>10. Written'
  BY <1>1 DEF Written
<1> QED BY <1>1, <1>3, <1>9, <1>10 DEF LogInv

LEMMA RestartLog ==
    ASSUME Typed, LogInv, Down, cursor = <<1, 1>>, Restart
    PROVE  LogInv' /\ Cursor(file, cursor)'
<1>1. /\ up = "down" /\ up' = "redo" /\ page' = disk
      /\ UNCHANGED <<first, disk, file, buffer, crashes, durable, cursor>>
  BY DEF Restart, logVars, redoVars, ghosts
<1>2. LogShape(file, buffer) /\ Len(file) \in Nat /\ BufferRecords \in Nat
  BY ChunksTyped DEF LogInv
<1>3. PICK h : Logged(h)
  BY DEF LogInv
<1>4. ASSUME ~first PROVE AtCursor(h, file, buffer, disk, <<1, 1>>)
  <2>1. AtChunk(h, file, buffer, disk)
    BY <1>1, <1>3, <1>4 DEF Logged
  <2>2. PICK k \in 1..(Len(file) + 1) : Starts(file, buffer, disk.lsn, k) /\ disk.slots = h[k][1]
    BY <2>1 DEF AtChunk
  <2>3. disk.slots = IF 1 < k THEN h[k][1] ELSE h[1][1]
    BY <1>2, <2>2
  <2> QED BY <2>2, <2>3 DEF AtCursor
<1>5. Logged(h)'
  BY <1>1, <1>3, <1>4 DEF Logged
<1>6. Cursor(file, <<1, 1>>)
  <2>1. Len(file) # 0
    <3>1. file \in Seq(Chunk) /\ file # <<>>
      BY <1>2 DEF LogShape, Down
    <3> QED BY <3>1
  <2> QED BY <1>2, <2>1 DEF Cursor
<1>7. Written'
  BY <1>1 DEF LogInv, Written
<1> QED BY <1>1, <1>2, <1>5, <1>6, <1>7 DEF LogInv

LEMMA RedoDoneLog ==
    ASSUME Typed, LogInv, Cursor(file, cursor), Down, RedoDone
    PROVE  LogInv' /\ page.slots = durable
<1>1. /\ up = "redo" /\ up' = "undo" /\ cursor[1] > Len(file)
      /\ UNCHANGED <<first, page, disk, file, buffer, crashes, durable, cursor>>
  BY DEF RedoDone, logVars, redoVars, ghosts
<1>2. LogShape(file, buffer) /\ Len(file) \in Nat
  BY ChunksTyped DEF LogInv
<1>3. cursor[1] = Len(file) + 1 /\ cursor[2] = 1
  BY <1>1, <1>2 DEF Cursor
<1>4. Len(file) # 0
  <2>1. file \in Seq(Chunk) /\ file # <<>>
    BY <1>2 DEF LogShape, Down
  <2> QED BY <2>1
<1>5. PICK h : Logged(h)
  BY DEF LogInv
<1>6. AtCursor(h, file, buffer, page, cursor) /\ h[Len(file) + 1][1] = durable
  <2>1. cursor[1] # 1
    BY <1>2, <1>3, <1>4
  <2> QED BY ZenonT(60), <1>1, <1>5, <2>1 DEF Logged
<1>7. PICK k \in 1..(Len(file) + 1) : page.slots = IF cursor[1] < k THEN h[k][1] ELSE h[cursor[1]][cursor[2]]
  BY <1>6 DEF AtCursor
<1>8. page.slots = durable
  <2>1. ~(cursor[1] < k) \/ k = cursor[1]
    BY <1>2, <1>3
  <2> QED BY ZenonT(60), <1>3, <1>6, <1>7, <2>1
<1>9. Logged(h)'
  BY ZenonT(60), <1>1, <1>5 DEF Logged
<1>10. Written'
  BY <1>1 DEF Written
<1> QED BY <1>1, <1>2, <1>8, <1>9, <1>10 DEF LogInv

LEMMA UndoLog ==
    ASSUME Typed, LogInv, Down, page.slots = durable, Undo
    PROVE  LogInv'
<1>1. /\ up' \in {"run", "overrun"}
      /\ UNCHANGED <<first, page, disk, file, buffer, crashes, durable, cursor>>
  BY ZenonT(60) DEF Undo, logVars
<1>2. LogShape(file, buffer) /\ Len(file) \in Nat
  BY ChunksTyped DEF LogInv
<1>3. PICK h : Logged(h)
  BY DEF LogInv
<1>4. h[Len(file) + 1][BufferRecords + 1] = h[Len(file) + 1][1]
  <2>1. 1 \in 1..BufferRecords /\ Len(file) + 1 \in 1..(Len(file) + 1)
    BY <1>2, Bounds
  <2>2. LogAt(file, buffer, Len(file) + 1, 1) = Zero
    <3>1. Len(buffer) = 0
      BY DEF Down
    <3> QED BY <1>2, <3>1 DEF LogAt
  <2>3. History(h, file, buffer)
    BY ZenonT(60), <1>3 DEF Logged
  <2> QED BY ZenonT(60), <2>1, <2>2, <2>3, ZeroRecord DEF History
<1>5. Logged(h)'
  BY <1>1, <1>3, <1>4 DEF Logged, Down
<1>6. Written'
  BY <1>1 DEF Written
<1> QED BY <1>1, <1>2, <1>5, <1>6 DEF LogInv, Down

\* Redo reads the record at the cursor.
LEMMA RedoRecordLog ==
    ASSUME Typed, LogInv, Cursor(file, cursor), Down, RedoRecord
    PROVE  LogInv' /\ Cursor(file, cursor)' /\ up' = "redo" /\ page' \in Page
<1>0. PICK c, i : c = cursor[1] /\ i = cursor[2]
  BY ZenonT(60)
<1> DEFINE top == BufferRecords + 1
           r == file[c][i]
           whole == i <= BufferRecords /\ file[c][i].type # "INVALID"
           early == first /\ c = 1 /\ i <= 2
<1>1. /\ up = "redo" /\ c <= Len(file)
      /\ \/ whole /\ cursor' = <<c, i + 1>> /\ RedoPage(r)
         \/ ~whole /\ cursor' = <<c + 1, 1>> /\ UNCHANGED <<up, page>>
      /\ UNCHANGED <<first, disk, file, buffer, crashes, durable>>
  BY <1>0 DEF RedoRecord, logVars, ghosts
<1>2. /\ LogShape(file, buffer) /\ Len(file) \in Nat /\ BufferRecords \in Nat /\ BufferRecords > 1
      /\ page \in Page /\ page.lsn \in Nat /\ crashes > 0 /\ first \in BOOLEAN
  BY ZenonT(60), ChunksTyped, Bounds DEF LogInv, Typed, Page, Down
<1>3. /\ c \in 1..Len(file) /\ c \in 1..(Len(file) + 1) /\ i \in 1..top /\ c + 1 \in 1..(Len(file) + 1)
      /\ 1 \in 1..(Len(file) + 1) /\ 1 \in 1..BufferRecords /\ 2 \in 1..BufferRecords
  BY <1>0, <1>1, <1>2 DEF Cursor
<1>4. PICK h : Logged(h)
  BY DEF LogInv
<1>5. History(h, file, buffer) /\ (~early => AtCursor(h, file, buffer, page, <<c, i>>))
  <2>1. History(h, file, buffer) /\ (~early => AtCursor(h, file, buffer, page, cursor))
    BY ZenonT(60), <1>0, <1>1, <1>4 DEF Logged
  <2>2. cursor = <<c, i>>
    BY <1>0 DEF Cursor
  <2> QED BY <2>1, <2>2
\* What the record at the cursor is.
<1>6. ASSUME i <= BufferRecords
      PROVE  /\ i \in 1..BufferRecords /\ r = LogAt(file, buffer, c, i) /\ r \in Record
             /\ Follows(h[c][i], r, h[c][i + 1]) /\ (r.type = "INVALID" => h[c][i] = h[c][top])
  <2>1. i \in 1..BufferRecords
    BY <1>3, <1>6
  <2>2. r = LogAt(file, buffer, c, i)
    BY <1>1 DEF LogAt
  <2>3. LogAt(file, buffer, c, i) \in Record
    BY ZenonT(60), <1>2, <1>3, <2>1, ChunksTyped
  <2> QED BY ZenonT(60), <1>3, <1>5, <2>1, <2>2, <2>3 DEF History
<1> HIDE DEF r
<1>7. early => i <= BufferRecords /\ r.type = IF i = 1 THEN "BEGIN" ELSE "NEWPAGE"
  <2> SUFFICES ASSUME early PROVE i <= BufferRecords /\ r.type = IF i = 1 THEN "BEGIN" ELSE "NEWPAGE"
    OBVIOUS
  <2>1. i <= BufferRecords /\ i \in {1, 2}
    BY <1>2, <1>3
  <2> QED BY <1>2, <1>6, <2>1 DEF LogShape
\* It is enough to find the new page in the history.
<1>8. ASSUME NEW cur, cursor' = cur, Cursor(file, cur), up' = "redo",
             ~first => page'.lsn = page.lsn,
             \/ first /\ cur[1] = 1 /\ cur[2] <= 2 /\ page' = page
             \/ AtCursor(h, file, buffer, page', cur) /\ page'.lsn \in Nat
                /\ page' = [lsn |-> page'.lsn, slots |-> page'.slots]
      PROVE  LogInv' /\ Cursor(file, cursor)' /\ up' = "redo" /\ page' \in Page
  <2>1. Logged(h)'
    <3>1. ~(first /\ cur[1] = 1 /\ cur[2] <= 2) => AtCursor(h, file, buffer, page', cur)
      BY <1>8
    <3> QED BY <1>1, <1>4, <1>8, <3>1 DEF Logged
  <2>2. page' \in Page
    <3>1. CASE page' = page
      BY <1>2, <3>1
    <3>2. CASE AtCursor(h, file, buffer, page', cur) /\ page'.lsn \in Nat
               /\ page' = [lsn |-> page'.lsn, slots |-> page'.slots]
      <4>1. PICK k \in 1..(Len(file) + 1) : page'.slots = IF cur[1] < k THEN h[k][1] ELSE h[cur[1]][cur[2]]
        BY <3>2 DEF AtCursor
      <4>2. cur[1] \in 1..(Len(file) + 1) /\ cur[2] \in 1..top /\ 1 \in 1..top
        BY <1>2, <1>8 DEF Cursor
      <4>3. h \in [1..(Len(file) + 1) -> [1..top -> SlotSeq]]
        BY <1>5 DEF History
      <4>4. page'.slots \in SlotSeq
        BY ZenonT(60), <4>1, <4>2, <4>3
      <4> QED BY <3>2, <4>4 DEF Page
    <3> QED BY <1>8, <3>1, <3>2
  <2>3. Written'
    BY <1>1, <1>8 DEF LogInv, Written
  <2> QED BY <1>1, <1>2, <1>8, <2>1, <2>2, <2>3 DEF LogInv
<1>9. page = [lsn |-> page.lsn, slots |-> page.slots]
  BY <1>2 DEF Page
<1>10. CASE whole /\ cursor' = <<c, i + 1>> /\ RedoPage(r)
  <2> DEFINE cur == <<c, i + 1>>
  <2>1. Cursor(file, cur) /\ cur[1] = c /\ cur[2] = i + 1
    BY <1>2, <1>3, <1>10 DEF Cursor
  <2>2. CASE early /\ i = 1
    <3>1. page' = page /\ up' = up
      BY <1>7, <2>2, <1>10 DEF RedoPage, Changes
    <3> QED BY <1>1, <1>8, <1>10, <2>1, <2>2, <3>1
  <2>3. CASE early /\ i # 1
    <3>1. i = 2 /\ r.type = "NEWPAGE"
      BY <1>3, <1>7, <2>3
    <3>2. page' = NewPage /\ up' = up
      BY ZenonT(60), <1>10, <2>3, <3>1 DEF RedoPage, Changes
    <3>3. h[1][1] = <<>> /\ h[1][2] = h[1][1] /\ h[1][3] = h[1][2]
      <4>1. 1 \in 1..(Len(file) + 1) /\ 1 \in 1..BufferRecords /\ 2 \in 1..BufferRecords
        BY ZenonT(60), <1>3
      <4>2. LogAt(file, buffer, 1, 1).type = "BEGIN" /\ LogAt(file, buffer, 1, 2).type = "NEWPAGE"
        BY <1>2 DEF LogShape
      <4>3. /\ h[1][1] = <<>>
            /\ Follows(h[1][1], LogAt(file, buffer, 1, 1), h[1][1 + 1])
            /\ Follows(h[1][2], LogAt(file, buffer, 1, 2), h[1][2 + 1])
        BY ZenonT(60), <1>5, <4>1 DEF History
      <4> QED BY <4>2, <4>3 DEF Follows, Changes
    <3>4. Starts(file, buffer, 0, 1)
      BY <1>2 DEF Starts, LogShape
    <3>5. NewPage.slots = h[1][3] /\ NewPage.lsn = 0 /\ NewPage = [lsn |-> NewPage.lsn, slots |-> NewPage.slots]
      BY <3>3 DEF NewPage
    <3>6. AtCursor(h, file, buffer, NewPage, cur)
      <4>1. 1 \in 1..(Len(file) + 1) /\ cur[1] = 1 /\ cur[2] = 3
        BY <1>2, <2>1, <2>3, <3>1
      <4>2. Starts(file, buffer, NewPage.lsn, 1)
        BY <3>4, <3>5
      <4>3. NewPage.slots = IF cur[1] < 1 THEN h[1][1] ELSE h[cur[1]][cur[2]]
        BY <3>5, <4>1
      <4> QED BY <4>1, <4>2, <4>3 DEF AtCursor
    <3> QED BY <1>1, <1>8, <1>10, <2>1, <2>3, <3>2, <3>5, <3>6
  <2>4. CASE ~early
    <3>1. AtCursor(h, file, buffer, page, <<c, i>>)
      BY <1>5, <2>4
    <3>2. PICK k \in 1..(Len(file) + 1) :
            /\ Starts(file, buffer, page.lsn, k)
            /\ page.slots = IF c < k THEN h[k][1] ELSE h[c][i]
      BY ZenonT(60), <3>1 DEF AtCursor
    <3>3. /\ i \in 1..BufferRecords /\ r = LogAt(file, buffer, c, i) /\ r \in Record
          /\ Follows(h[c][i], r, h[c][i + 1])
      BY <1>6, <1>10
    \* The page with the slots after the record.
    <3>4. ASSUME page'.lsn = page.lsn, up' = up,
                 page' = [lsn |-> page'.lsn, slots |-> page'.slots],
                 page'.slots = IF c < k THEN h[k][1] ELSE h[c][i + 1]
          PROVE  LogInv' /\ Cursor(file, cursor)' /\ up' = "redo" /\ page' \in Page
      <4>1. Starts(file, buffer, page'.lsn, k)
        BY <3>2, <3>4
      <4>2. page'.slots = IF cur[1] < k THEN h[k][1] ELSE h[cur[1]][cur[2]]
        BY ZenonT(60), <2>1, <3>4
      <4>3. AtCursor(h, file, buffer, page', cur)
        BY <4>1, <4>2 DEF AtCursor
      <4>4. page'.lsn \in Nat /\ up' = "redo"
        BY <1>1, <1>2, <3>4
      <4> QED BY <1>8, <1>10, <2>1, <3>4, <4>3, <4>4
    <3>5. CASE r.type \notin Changes
      <4>1. page' = page /\ up' = up
        <5>1. r.type = "NEWPAGE" => ~first
          <6>1. r.type = "NEWPAGE" => c = 1 /\ i = 2
            BY ZenonT(60), <1>2, <1>3, <3>3 DEF LogShape
          <6> QED BY <2>4, <6>1
        <5> QED BY <1>10, <3>5, <5>1 DEF RedoPage
      <4>2. h[c][i + 1] = h[c][i]
        BY <3>3, <3>5 DEF Follows
      <4> QED BY <1>9, <3>2, <3>4, <4>1, <4>2
    <3>6. CASE r.type \in Changes
      <4>0. ~Zeroed
        BY <1>1 DEF LogInv, Written, Zeroed
      <4>1. /\ page' = IF Newer(r) /\ CanRedo(page.slots, r)
                       THEN [page EXCEPT !.slots = Redone(page.slots, r)] ELSE page
            /\ up' = IF Newer(r) /\ ~CanRedo(page.slots, r) THEN "assert" ELSE up
        BY <1>10, <3>6, <4>0 DEF RedoPage, Changes
      <4>2. Newer(r) <=> c >= k
        BY ZenonT(60), <1>3, <3>2, <3>3, <3>6 DEF Starts, Newer
      <4>3. CASE c >= k
        <5>1. page.slots = h[c][i]
          BY <1>3, <3>2, <4>3
        <5>2. CanRedo(page.slots, r) /\ h[c][i + 1] = Redone(page.slots, r)
          BY ZenonT(60), <3>3, <3>6, <5>1 DEF Follows
        <5>3. page' = [page EXCEPT !.slots = h[c][i + 1]] /\ up' = up
          BY <4>1, <4>2, <4>3, <5>2
        <5>4. page' = [lsn |-> page.lsn, slots |-> h[c][i + 1]]
          BY ZenonT(60), <1>2, <5>3 DEF Page
        <5>5. page'.lsn = page.lsn /\ page'.slots = h[c][i + 1]
          BY <5>4
        <5>6. page'.slots = IF c < k THEN h[k][1] ELSE h[c][i + 1]
          BY <1>3, <4>3, <5>5
        <5> QED BY ZenonT(60), <3>4, <5>3, <5>4, <5>5, <5>6
      <4>4. CASE ~(c >= k)
        <5>1. page' = page /\ up' = up
          BY <4>1, <4>2, <4>4
        <5>2. page.slots = IF c < k THEN h[k][1] ELSE h[c][i + 1]
          BY <1>3, <3>2, <4>4
        <5> QED BY <1>9, <3>4, <5>1, <5>2
      <4> QED BY <4>3, <4>4
    <3> QED BY <3>5, <3>6
  <2> QED BY <2>2, <2>3, <2>4
<1>11. CASE ~whole /\ cursor' = <<c + 1, 1>> /\ UNCHANGED <<up, page>>
  <2> DEFINE cur == <<c + 1, 1>>
  <2>1. Cursor(file, cur) /\ cur[1] = c + 1 /\ cur[2] = 1
    BY <1>2, <1>3 DEF Cursor
  <2>2. ~early
    BY <1>7, <1>11 DEF r
  <2>3. PICK k \in 1..(Len(file) + 1) :
          /\ Starts(file, buffer, page.lsn, k)
          /\ page.slots = IF c < k THEN h[k][1] ELSE h[c][i]
    BY ZenonT(60), <1>5, <2>2 DEF AtCursor
  <2>4. h[c][i] = h[c][top] /\ h[c][top] = h[c + 1][1]
    <3>1. i = top \/ (i <= BufferRecords /\ r.type = "INVALID")
      BY <1>2, <1>3, <1>11 DEF r
    <3>2. h[c][i] = h[c][top]
      BY ZenonT(60), <1>6, <3>1
    <3> QED BY <1>3, <1>5, <3>2 DEF History
  <2>5. page.slots = IF cur[1] < k THEN h[k][1] ELSE h[cur[1]][cur[2]]
    BY <1>3, <2>1, <2>3, <2>4
  <2>6. AtCursor(h, file, buffer, page, cur)
    BY ZenonT(60), <2>3, <2>5 DEF AtCursor
  <2> QED BY <1>1, <1>2, <1>8, <1>9, <1>11, <2>1, <2>6
<1> QED BY <1>1, <1>10, <1>11
=============================================================================
