-------------------------- MODULE BufferPoolProofs ---------------------------
(***************************************************************************)
(* Proofs about the buffer pool, for every pool size, every number of      *)
(* pages and clients.  The inductive invariant joins the properties that   *)
(* TLC checks: frames are partitioned, pins protect, and what is not dirty *)
(* is in the file.  None of them is inductive alone: that a victim is      *)
(* unpinned needs the partition, that it has no writer needs the pins, and *)
(* that its content survives needs both.                                   *)
(*                                                                         *)
(* Last the latch of the pages in it: RWMutex implements                   *)
(* readers-or-one-writer exclusion for any set of threads, and loses no    *)
(* wakeup while max_readers_ is out of reach.                              *)
(***************************************************************************)
EXTENDS BufferPool, RWMutex, FiniteSetTheorems, TLAPS

USE SMTT(20), ZenonT(20), SMTT(40)

IInv == TypeOK /\ FramesPartitioned /\ PinsProtect /\ Coherent

-----------------------------------------------------------------------------
(* Sequences without repetitions.                                          *)

LEMMA InjectiveSeq ==
    ASSUME NEW S, NEW s \in Seq(S)
    PROVE  IsInjective(s) <=> \A i, j \in 1..Len(s) : s[i] = s[j] => i = j
BY DEF IsInjective

LEMMA TailOf ==
    ASSUME NEW S, NEW s \in Seq(S), s # <<>>, IsInjective(s)
    PROVE  /\ Head(s) \in S /\ Contains(s, Head(s))
           /\ Tail(s) \in Seq(S) /\ IsInjective(Tail(s))
           /\ \A g : Contains(Tail(s), g) <=> Contains(s, g) /\ g # Head(s)
<1> DEFINE t == Tail(s)
<1>1. /\ Len(s) \in Nat \ {0} /\ Head(s) \in S /\ t \in Seq(S) /\ Len(t) = Len(s) - 1
      /\ \A i \in 1..Len(t) : t[i] = s[i + 1]
  OBVIOUS
<1>2. Head(s) = s[1]
  OBVIOUS
<1>3. \A i, j \in 1..Len(s) : s[i] = s[j] => i = j
  BY InjectiveSeq
<1> HIDE DEF t
<1>4. IsInjective(t)
  <2>1. \A i, j \in 1..Len(t) : t[i] = t[j] => i = j
    <3> SUFFICES ASSUME NEW i \in 1..Len(t), NEW j \in 1..Len(t), t[i] = t[j] PROVE i = j
      OBVIOUS
    <3>1. i + 1 \in 1..Len(s) /\ j + 1 \in 1..Len(s) /\ s[i + 1] = s[j + 1]
      BY <1>1
    <3> QED BY <3>1, <1>3
  <2> QED BY <2>1, <1>1, InjectiveSeq
<1>5. ASSUME NEW g PROVE Contains(t, g) <=> Contains(s, g) /\ g # Head(s)
  <2>1. ASSUME Contains(t, g) PROVE Contains(s, g) /\ g # Head(s)
    <3>1. PICK i \in 1..Len(t) : t[i] = g
      BY <2>1 DEF Contains
    <3>2. i + 1 \in 1..Len(s) /\ 1 \in 1..Len(s) /\ s[i + 1] = g /\ i + 1 # 1
      BY <3>1, <1>1
    <3> QED BY <3>2, <1>2, <1>3 DEF Contains
  <2>2. ASSUME Contains(s, g), g # Head(s) PROVE Contains(t, g)
    <3>1. PICK i \in 1..Len(s) : s[i] = g
      BY <2>2 DEF Contains
    <3>2. i - 1 \in 1..Len(t) /\ t[i - 1] = g
      <4>1. i # 1
        BY <3>1, <2>2, <1>2
      <4>2. i - 1 \in 1..Len(t) /\ (i - 1) + 1 = i
        BY <4>1, <1>1
      <4> QED BY <4>2, <3>1, <1>1
    <3> QED BY <3>2 DEF Contains
  <2> QED BY <2>1, <2>2
<1>6. Contains(s, Head(s))
  BY <1>1, <1>2 DEF Contains
<1> QED BY <1>1, <1>4, <1>5, <1>6 DEF t

LEMMA AppendOf ==
    ASSUME NEW S, NEW s \in Seq(S), NEW e \in S, IsInjective(s), ~Contains(s, e)
    PROVE  /\ Append(s, e) \in Seq(S) /\ IsInjective(Append(s, e))
           /\ \A g : Contains(Append(s, e), g) <=> Contains(s, g) \/ g = e
<1> DEFINE t == Append(s, e)
<1>1. /\ Len(s) \in Nat /\ t \in Seq(S) /\ Len(t) = Len(s) + 1
      /\ \A i \in 1..Len(s) : t[i] = s[i]
      /\ t[Len(s) + 1] = e
  OBVIOUS
<1>2. \A i, j \in 1..Len(s) : s[i] = s[j] => i = j
  BY InjectiveSeq
<1>3. \A i \in 1..Len(s) : s[i] # e
  BY DEF Contains
<1> HIDE DEF t
<1>4. \A i, j \in 1..Len(t) : t[i] = t[j] => i = j
  <2> SUFFICES ASSUME NEW i \in 1..Len(t), NEW j \in 1..Len(t), t[i] = t[j] PROVE i = j
    OBVIOUS
  <2>1. CASE i \in 1..Len(s) /\ j \in 1..Len(s)
    BY <2>1, <1>1, <1>2
  <2>2. CASE i \in 1..Len(s) /\ j = Len(s) + 1
    BY <2>2, <1>1, <1>3
  <2>3. CASE i = Len(s) + 1 /\ j \in 1..Len(s)
    BY <2>3, <1>1, <1>3
  <2> QED BY <2>1, <2>2, <2>3, <1>1
<1>5. ASSUME NEW g PROVE Contains(t, g) <=> Contains(s, g) \/ g = e
  <2>1. ASSUME Contains(t, g) PROVE Contains(s, g) \/ g = e
    <3>1. PICK i \in 1..Len(t) : t[i] = g
      BY <2>1 DEF Contains
    <3>2. CASE i \in 1..Len(s)
      BY <3>1, <3>2, <1>1 DEF Contains
    <3>3. CASE i = Len(s) + 1
      BY <3>1, <3>3, <1>1
    <3> QED BY <3>2, <3>3, <1>1
  <2>2. ASSUME Contains(s, g) PROVE Contains(t, g)
    <3>1. PICK i \in 1..Len(s) : s[i] = g
      BY <2>2 DEF Contains
    <3>2. i \in 1..Len(t) /\ t[i] = g
      BY <3>1, <1>1
    <3> QED BY <3>2 DEF Contains
  <2>3. Contains(t, e)
    <3>1. Len(s) + 1 \in 1..Len(t)
      BY <1>1
    <3> QED BY <3>1, <1>1 DEF Contains
  <2> QED BY <2>1, <2>2, <2>3
<1> QED BY ZenonT(60), <1>1, <1>4, <1>5, InjectiveSeq DEF t

LEMMA Joined ==
    ASSUME NEW S, NEW a \in Seq(S), NEW b \in Seq(S)
    PROVE  /\ a \o b \in Seq(S) /\ Len(a \o b) = Len(a) + Len(b)
           /\ \A k \in 1..(Len(a) + Len(b)) :
                 (a \o b)[k] = IF k <= Len(a) THEN a[k] ELSE b[k - Len(a)]
<1>1. a \o b \in Seq(S)
  OBVIOUS
<1>2. Len(a \o b) = Len(a) + Len(b)
  OBVIOUS
<1>3. \A k \in 1..(Len(a) + Len(b)) : (a \o b)[k] = IF k <= Len(a) THEN a[k] ELSE b[k - Len(a)]
  OBVIOUS
<1> QED BY <1>1, <1>2, <1>3

LEMMA RemoveOf ==
    ASSUME NEW S, NEW s \in Seq(S), NEW e \in 1..Len(s), IsInjective(s)
    PROVE  /\ EraseAt(s, e) \in Seq(S) /\ IsInjective(EraseAt(s, e))
           /\ \A g : Contains(EraseAt(s, e), g) <=> Contains(s, g) /\ g # s[e]
<1> DEFINE a == SubSeq(s, 1, e - 1)
           b == SubSeq(s, e + 1, Len(s))
           t == EraseAt(s, e)
<1>1. /\ Len(s) \in Nat
      /\ \A i \in 1..Len(s) : s[i] \in S
  OBVIOUS
<1>2. /\ a \in Seq(S) /\ Len(a) = e - 1
      /\ \A k \in 1..(e - 1) : a[k] = s[k]
  BY <1>1
<1>3. /\ b \in Seq(S) /\ Len(b) = Len(s) - e
      /\ \A k \in 1..(Len(s) - e) : b[k] = s[e + k]
  BY <1>1
<1>4. t = a \o b
  BY DEF EraseAt
<1> HIDE DEF a, b, t
<1>5. /\ t \in Seq(S) /\ Len(t) = Len(s) - 1
      /\ \A k \in 1..(Len(s) - 1) : t[k] = IF k < e THEN s[k] ELSE s[k + 1]
  <2>1. /\ t \in Seq(S) /\ Len(t) = Len(a) + Len(b)
        /\ \A k \in 1..(Len(a) + Len(b)) :
              t[k] = IF k <= Len(a) THEN a[k] ELSE b[k - Len(a)]
    BY ZenonT(60), <1>2, <1>3, <1>4, Joined
  <2>2. Len(a) + Len(b) = Len(s) - 1
    BY <1>1, <1>2, <1>3
  <2>3. ASSUME NEW k \in 1..(Len(s) - 1), k >= e
        PROVE  b[k - (e - 1)] = s[k + 1]
    <3>1. k - (e - 1) \in 1..(Len(s) - e) /\ e + (k - (e - 1)) = k + 1
      BY <2>3, <1>1
    <3> QED BY <3>1, <1>3
  <2>4. ASSUME NEW k \in 1..(Len(s) - 1)
        PROVE  t[k] = IF k < e THEN s[k] ELSE s[k + 1]
    <3>1. t[k] = IF k <= e - 1 THEN a[k] ELSE b[k - (e - 1)]
      BY <2>1, <2>2, <1>2
    <3>2. CASE k < e
      BY <3>1, <3>2, <1>1, <1>2
    <3>3. CASE k >= e
      <4>1. ~(k <= e - 1) /\ ~(k < e)
        BY <3>3, <1>1
      <4>2. b[k - (e - 1)] = s[k + 1]
        BY <3>3, <2>3
      <4> QED BY <4>1, <4>2, <3>1
    <3> QED BY <3>2, <3>3, <1>1
  <2> QED BY <2>1, <2>2, <2>4
<1>6. \A i, j \in 1..Len(s) : s[i] = s[j] => i = j
  BY InjectiveSeq
<1>7. \A i, j \in 1..Len(t) : t[i] = t[j] => i = j
  <2> SUFFICES ASSUME NEW i \in 1..Len(t), NEW j \in 1..Len(t), t[i] = t[j] PROVE i = j
    OBVIOUS
  <2> DEFINE Old(k) == IF k < e THEN k ELSE k + 1
  <2>1. Old(i) \in 1..Len(s) /\ Old(j) \in 1..Len(s) /\ s[Old(i)] = s[Old(j)]
    BY <1>1, <1>5
  <2>2. Old(i) = Old(j)
    BY <2>1, <1>6
  <2> QED BY <2>2, <1>1, <1>5
<1>8. ASSUME NEW g PROVE Contains(t, g) <=> Contains(s, g) /\ g # s[e]
  <2>1. ASSUME Contains(t, g) PROVE Contains(s, g) /\ g # s[e]
    <3>1. PICK k \in 1..Len(t) : t[k] = g
      BY <2>1 DEF Contains
    <3>2. PICK i \in 1..Len(s) : i # e /\ s[i] = g
      <4>1. CASE k < e
        BY <4>1, <3>1, <1>1, <1>5
      <4>2. CASE k >= e
        <5>1. k + 1 \in 1..Len(s) /\ k + 1 # e /\ s[k + 1] = g
          BY <4>2, <3>1, <1>1, <1>5
        <5> QED BY <5>1
      <4> QED BY <4>1, <4>2, <1>1, <1>5
    <3> QED BY <3>2, <1>6 DEF Contains
  <2>2. ASSUME Contains(s, g), g # s[e] PROVE Contains(t, g)
    <3>1. PICK i \in 1..Len(s) : s[i] = g
      BY <2>2 DEF Contains
    <3>2. CASE i < e
      <4>1. i \in 1..Len(t) /\ t[i] = g
        BY <3>1, <3>2, <1>1, <1>5
      <4> QED BY <4>1 DEF Contains
    <3>3. CASE i > e
      <4>1. i - 1 \in 1..Len(t) /\ ~(i - 1 < e) /\ (i - 1) + 1 = i
        BY <3>1, <3>3, <1>1, <1>5
      <4>2. t[i - 1] = g
        BY <4>1, <3>1, <1>5
      <4> QED BY <4>1, <4>2 DEF Contains
    <3> QED BY <3>1, <3>2, <3>3, <2>2, <1>1
  <2> QED BY <2>1, <2>2
<1> QED BY <1>5, <1>7, <1>8, InjectiveSeq DEF t

-----------------------------------------------------------------------------
(* The lists of frames.                                                    *)

LEMMA EraseFacts ==
    ASSUME lru \in Seq(Frame), IsInjective(lru), NEW f \in Frame, Erase(f)
    PROVE  /\ lru' \in Seq(Frame) /\ IsInjective(lru')
           /\ \A g : Contains(lru', g) <=> Contains(lru, g) /\ g # f
<1>1. CASE ~Contains(lru, f) /\ UNCHANGED lru
  BY <1>1
<1>2. CASE \E i \in 1..Len(lru) : lru[i] = f /\ lru' = EraseAt(lru, i)
  <2>1. PICK i \in 1..Len(lru) : lru[i] = f /\ lru' = EraseAt(lru, i)
    BY <1>2
  <2> QED BY <2>1, RemoveOf
<1> QED BY <1>1, <1>2 DEF Erase

LEMMA TakeFrameFacts ==
    ASSUME TypeOK, FramesPartitioned, NEW f \in Frame, TakeFrame(f)
    PROVE  /\ pin_count[f] = 0
           /\ free_list' \in Seq(Frame) /\ IsInjective(free_list')
           /\ lru' \in Seq(Frame) /\ IsInjective(lru')
           /\ \A g \in Frame : Contains(free_list', g) <=> Contains(free_list, g) /\ g # f
           /\ \A g \in Frame : Contains(lru', g) <=> Contains(lru, g) /\ g # f
<1>1. /\ free_list \in Seq(Frame) /\ IsInjective(free_list)
      /\ lru \in Seq(Frame) /\ IsInjective(lru)
  BY DEF TypeOK, FramesPartitioned
<1>2. /\ Contains(free_list, f) => page_id[f] = InvalidPage /\ ~Contains(lru, f)
      /\ Contains(lru, f) => page_id[f] # InvalidPage /\ ~Contains(free_list, f)
      /\ Contains(free_list, f) \/ Contains(lru, f) => pin_count[f] = 0
  BY DEF FramesPartitioned
<1>3. CASE free_list # <<>> /\ f = Head(free_list)
           /\ free_list' = Tail(free_list) /\ UNCHANGED lru
  <2>1. /\ Contains(free_list, f) /\ free_list' \in Seq(Frame) /\ IsInjective(free_list')
        /\ \A g : Contains(free_list', g) <=> Contains(free_list, g) /\ g # f
    BY <1>1, <1>3, TailOf
  <2> QED BY <2>1, <1>1, <1>2, <1>3
<1>4. CASE free_list = <<>> /\ lru # <<>> /\ f = Head(lru)
           /\ lru' = Tail(lru) /\ UNCHANGED free_list
  <2>1. /\ Contains(lru, f) /\ lru' \in Seq(Frame) /\ IsInjective(lru')
        /\ \A g : Contains(lru', g) <=> Contains(lru, g) /\ g # f
    BY <1>1, <1>4, TailOf
  <2> QED BY <2>1, <1>1, <1>2, <1>4
<1> QED BY <1>3, <1>4 DEF TakeFrame

-----------------------------------------------------------------------------
(* Pins and holders.                                                       *)

LEMMA HoldersFinite ==
    ASSUME NEW f
    PROVE  IsFiniteSet(Holders(f)) /\ Cardinality(Holders(f)) \in Nat
<1>1. Holders(f) \subseteq Client
  BY DEF Holders
<1> QED BY <1>1, ClientAssumption, FS_Subset, FS_CardinalityType

\* An unpinned frame has no holder.
LEMMA Unheld ==
    ASSUME TypeOK, PinsProtect, NEW f \in Frame, pin_count[f] = 0
    PROVE  \A c \in Client, p \in Page : held[c][p] # f
<1>1. Cardinality(Holders(f)) = 0
  BY DEF PinsProtect
<1>2. Holders(f) = {}
  BY <1>1, HoldersFinite, FS_EmptySet
<1> QED BY <1>2 DEF Holders

\* A holder's page is resident in the frame it holds.
LEMMA HeldResident ==
    ASSUME TypeOK, FramesPartitioned, PinsProtect,
           NEW c \in Client, NEW p \in Page, held[c][p] # NoFrame
    PROVE  /\ held[c][p] \in Frame
           /\ page_table[p] = held[c][p]
           /\ page_id[held[c][p]] = p
<1>1. held[c][p] \in Frame /\ page_id[held[c][p]] = p
  BY DEF TypeOK, PinsProtect
<1> QED BY <1>1 DEF FramesPartitioned

LEMMA HoldersAdd ==
    ASSUME TypeOK, NEW c \in Client, NEW p \in Page, NEW f \in Frame,
           held[c][p] = NoFrame, Pinned(c, p, f),
           \A q \in Page : held[c][q] # f
    PROVE  \A g \in Frame : Cardinality(Holders(g)')
                = IF g = f THEN Cardinality(Holders(g)) + 1 ELSE Cardinality(Holders(g))
<1>0. NoFrame \notin Frame
  BY DEF NoFrame, Frame
<1>1. /\ \A d \in Client, q \in Page : held'[d][q] = IF d = c /\ q = p THEN f ELSE held[d][q]
  BY DEF Pinned, TypeOK
<1> SUFFICES ASSUME NEW g \in Frame
             PROVE  Cardinality(Holders(g)')
                = IF g = f THEN Cardinality(Holders(g)) + 1 ELSE Cardinality(Holders(g))
  OBVIOUS
<1>2. CASE g = f
  <2>1. Holders(g)' = Holders(g) \cup {c}
    BY <1>1, <1>2 DEF Holders
  <2>2. c \notin Holders(g)
    BY <1>2 DEF Holders
  <2>3. Cardinality(Holders(g) \cup {c}) = Cardinality(Holders(g)) + 1
    BY ZenonT(60), <2>2, HoldersFinite, FS_AddElement
  <2> QED BY <2>1, <2>3, <1>2
<1>3. CASE g # f
  <2>1. Holders(g)' = Holders(g)
    <3>1. \A d \in Client, q \in Page : held'[d][q] = g <=> held[d][q] = g
      BY <1>0, <1>1, <1>3
    <3> QED BY <3>1 DEF Holders
  <2> QED BY <2>1, <1>3
<1> QED BY <1>2, <1>3

\* The client gives its pointer for page p back.
Unpinned(c, p) == held' = [held EXCEPT ![c][p] = NoFrame]

LEMMA HoldersRemove ==
    ASSUME TypeOK, NEW c \in Client, NEW p \in Page, NEW f \in Frame,
           held[c][p] = f, Unpinned(c, p),
           \A q \in Page : held[c][q] = f => q = p
    PROVE  \A g \in Frame : Cardinality(Holders(g)')
                = IF g = f THEN Cardinality(Holders(g)) - 1 ELSE Cardinality(Holders(g))
<1>0. NoFrame \notin Frame
  BY DEF NoFrame, Frame
<1>1. /\ \A d \in Client, q \in Page :
            held'[d][q] = IF d = c /\ q = p THEN NoFrame ELSE held[d][q]
  BY DEF Unpinned, TypeOK
<1> SUFFICES ASSUME NEW g \in Frame
             PROVE  Cardinality(Holders(g)')
                = IF g = f THEN Cardinality(Holders(g)) - 1 ELSE Cardinality(Holders(g))
  OBVIOUS
<1>2. CASE g = f
  <2>1. Holders(g)' = Holders(g) \ {c}
    BY <1>0, <1>1, <1>2 DEF Holders
  <2>2. c \in Holders(g)
    BY <1>2 DEF Holders
  <2>3. Cardinality(Holders(g) \ {c}) = Cardinality(Holders(g)) - 1
    BY ZenonT(60), <2>2, HoldersFinite, FS_RemoveElement
  <2> QED BY <2>1, <2>3, <1>2
<1>3. CASE g # f
  <2>1. Holders(g)' = Holders(g)
    <3>1. \A d \in Client, q \in Page : held'[d][q] = g <=> held[d][q] = g
      BY <1>0, <1>1, <1>3
    <3> QED BY <3>1 DEF Holders
  <2> QED BY <2>1, <1>3
<1> QED BY <1>2, <1>3

\* The number of holders does not change with `held` unchanged.
LEMMA HoldersSame ==
    ASSUME UNCHANGED held
    PROVE  \A g \in Frame : Cardinality(Holders(g)') = Cardinality(Holders(g))
<1>1. \A g : Holders(g)' = Holders(g)
  BY DEF Holders
<1> QED BY <1>1

-----------------------------------------------------------------------------
(* A frame changes its page.                                               *)

\* The victim's content is in the file after the write back.
LEMMA WriteBackFacts ==
    ASSUME IInv, NEW f \in Frame, pin_count[f] = 0,
           NEW d, d = WriteBack(f)
    PROVE  /\ d \in [data : [Page -> Nat], size : Nat, good : BOOLEAN] /\ d.good
           /\ d.size >= disk.size
           /\ \A q \in Page : q # page_id[f] => d.data[q] = disk.data[q]
           /\ page_id[f] \in live => page_id[f] < d.size /\ d.data[page_id[f]] = data[f]
<1>1. /\ TypeOK /\ FramesPartitioned /\ PinsProtect /\ Coherent
      /\ disk \in [data : [Page -> Nat], size : Nat, good : BOOLEAN] /\ disk.good
      /\ page_id[f] \in Page \cup {InvalidPage} /\ data[f] \in Nat
      /\ InvalidPage \notin Page /\ live \subseteq Page
      /\ is_dirty[f] \in BOOLEAN
  BY DEF IInv, TypeOK, Coherent, InvalidPage, Page
<1>2. CASE is_dirty[f]
  <2>1. page_id[f] \in Page /\ page_id[f] \in Nat
    BY <1>1, <1>2 DEF FramesPartitioned, Page
  <2>2. d = [data |-> [disk.data EXCEPT ![page_id[f]] = data[f]],
             size |-> IF page_id[f] < disk.size THEN disk.size ELSE page_id[f] + 1,
             good |-> TRUE]
    BY <1>1, <1>2 DEF WriteBack, WritePage
  <2>3. /\ d \in [data : [Page -> Nat], size : Nat, good : BOOLEAN]
        /\ d.good
        /\ d.size = IF page_id[f] < disk.size THEN disk.size ELSE page_id[f] + 1
        /\ d.data = [disk.data EXCEPT ![page_id[f]] = data[f]]
    BY <1>1, <2>1, <2>2
  <2> QED BY <1>1, <2>1, <2>3
<1>3. CASE ~is_dirty[f]
  <2>1. d = disk
    BY <1>3 DEF WriteBack
  <2>2. ASSUME page_id[f] \in live
        PROVE  page_id[f] < disk.size /\ disk.data[page_id[f]] = data[f]
    <3> DEFINE q == page_id[f]
    <3>1. q \in Page /\ page_table[q] = f /\ f # NoFrame
      BY <2>2, <1>1 DEF FramesPartitioned, NoFrame, Frame
    <3>2. ~ \E c \in Client : q \in wrote[c]
      <4> SUFFICES ASSUME NEW c \in Client, q \in wrote[c] PROVE FALSE
        OBVIOUS
      <4>1. held[c][q] # NoFrame
        BY <1>1 DEF Coherent
      <4>2. held[c][q] = f
        BY <4>1, <3>1, <1>1, HeldResident
      <4> QED BY <4>2, <3>1, <1>1, Unheld
    <3> QED BY <3>1, <3>2, <2>2, <1>1, <1>3 DEF Coherent
  <2>3. disk.size >= disk.size
    BY <1>1
  <2> QED BY <2>1, <2>2, <2>3, <1>1
<1> QED BY <1>2, <1>3, <1>1

LEMMA InstallFacts ==
    ASSUME IInv, NEW c \in Client, NEW p \in Page, NEW f \in Frame,
           page_table[p] = NoFrame, TakeFrame(f), Install(f, p), Pinned(c, p, f)
    PROVE  /\ page_id' \in [Frame -> Page \cup {InvalidPage}]
           /\ pin_count' \in [Frame -> Nat]
           /\ is_dirty' \in [Frame -> BOOLEAN]
           /\ page_table' \in [Page -> Frame \cup {NoFrame}]
           /\ free_list' \in Seq(Frame) /\ lru' \in Seq(Frame)
           /\ held' \in [Client -> [Page -> Frame \cup {NoFrame}]]
           /\ pin_count[f] = 0
           /\ FramesPartitioned' /\ PinsProtect'
<1>0. TypeOK /\ FramesPartitioned /\ PinsProtect /\ NoFrame \notin Frame /\ InvalidPage \notin Page
  BY DEF IInv, NoFrame, Frame, InvalidPage, Page
<1>1. /\ pin_count[f] = 0
      /\ free_list' \in Seq(Frame) /\ IsInjective(free_list')
      /\ lru' \in Seq(Frame) /\ IsInjective(lru')
      /\ \A g \in Frame : Contains(free_list', g) <=> Contains(free_list, g) /\ g # f
      /\ \A g \in Frame : Contains(lru', g) <=> Contains(lru, g) /\ g # f
  BY <1>0, TakeFrameFacts
<1>2. /\ page_id' \in [Frame -> Page \cup {InvalidPage}]
      /\ pin_count' \in [Frame -> Nat]
      /\ is_dirty' \in [Frame -> BOOLEAN]
      /\ page_table' \in [Page -> Frame \cup {NoFrame}]
      /\ held' \in [Client -> [Page -> Frame \cup {NoFrame}]]
  BY <1>0 DEF Install, Pinned, TypeOK
<1>3. /\ \A g \in Frame : page_id'[g] = IF g = f THEN p ELSE page_id[g]
      /\ \A g \in Frame : pin_count'[g] = IF g = f THEN 1 ELSE pin_count[g]
      /\ \A g \in Frame : g # f => (is_dirty'[g] <=> is_dirty[g])
      /\ \A q \in Page : page_table'[q] =
            IF q = p THEN f ELSE IF q = page_id[f] THEN NoFrame ELSE page_table[q]
      /\ \A d \in Client, q \in Page : held'[d][q] = IF d = c /\ q = p THEN f ELSE held[d][q]
  BY <1>0 DEF Install, Pinned, TypeOK
<1>4. \A g \in Frame : page_id[g] # p
  BY <1>0 DEF FramesPartitioned
<1>5. FramesPartitioned'
  <2>1. \A g \in Frame :
        /\ Contains(free_list', g) <=> page_id'[g] = InvalidPage
        /\ Contains(lru', g) <=> page_id'[g] # InvalidPage /\ pin_count'[g] = 0
        /\ page_id'[g] = InvalidPage => pin_count'[g] = 0 /\ ~is_dirty'[g]
    <3> SUFFICES ASSUME NEW g \in Frame
                 PROVE  /\ Contains(free_list', g) <=> page_id'[g] = InvalidPage
                        /\ Contains(lru', g) <=> page_id'[g] # InvalidPage /\ pin_count'[g] = 0
                        /\ page_id'[g] = InvalidPage => pin_count'[g] = 0 /\ ~is_dirty'[g]
      OBVIOUS
    <3>1. CASE g = f
      BY <3>1, <1>0, <1>1, <1>3
    <3>2. CASE g # f
      BY <3>2, <1>0, <1>1, <1>3 DEF FramesPartitioned
    <3> QED BY <3>1, <3>2
  <2>2. \A q \in Page, g \in Frame : page_table'[q] = g <=> page_id'[g] = q
    <3> SUFFICES ASSUME NEW q \in Page, NEW g \in Frame
                 PROVE  page_table'[q] = g <=> page_id'[g] = q
      OBVIOUS
    <3>1. page_table[q] = g <=> page_id[g] = q
      BY <1>0 DEF FramesPartitioned
    <3>2. page_table[q] = f <=> page_id[f] = q
      BY <1>0 DEF FramesPartitioned
    <3> QED BY <3>1, <3>2, <1>0, <1>3, <1>4
  <2> QED BY <2>1, <2>2, <1>1 DEF FramesPartitioned
<1>6. PinsProtect'
  <2>1. \A d \in Client, q \in Page : held[d][q] # f
    BY <1>0, <1>1, Unheld
  <2>2. held[c][p] = NoFrame
    BY <1>0, HeldResident
  <2>3. \A g \in Frame : Cardinality(Holders(g)')
            = IF g = f THEN Cardinality(Holders(g)) + 1 ELSE Cardinality(Holders(g))
    BY <2>1, <2>2, <1>0, HoldersAdd
  <2>4. \A g \in Frame : pin_count'[g] = Cardinality(Holders(g)')
    BY <2>3, <1>0, <1>1, <1>3 DEF PinsProtect
  <2>5. \A d \in Client, q \in Page : held'[d][q] # NoFrame => page_id'[held'[d][q]] = q
    <3> SUFFICES ASSUME NEW d \in Client, NEW q \in Page, held'[d][q] # NoFrame
                 PROVE  page_id'[held'[d][q]] = q
      OBVIOUS
    <3>1. CASE d = c /\ q = p
      BY <3>1, <1>3
    <3>2. CASE ~(d = c /\ q = p)
      <4>1. held'[d][q] = held[d][q] /\ held[d][q] \in Frame /\ held[d][q] # f
        BY <3>2, <2>1, <1>0, <1>3 DEF TypeOK
      <4>2. page_id[held[d][q]] = q
        BY <4>1, <1>0 DEF PinsProtect
      <4> QED BY <4>1, <4>2, <1>3
    <3> QED BY <3>1, <3>2
  <2> QED BY <2>4, <2>5 DEF PinsProtect
<1> QED BY <1>1, <1>2, <1>5, <1>6

-----------------------------------------------------------------------------
(* Each operation preserves the invariant; its last conjunct says what it  *)
(* does to the contents of the live pages.                                 *)

LEMMA InitInv == Init => IInv
<1> SUFFICES ASSUME Init PROVE IInv
  OBVIOUS
<1>0. NoFrame \notin Frame /\ InvalidPage \notin Page /\ 0 \in 0..MaxPages
  BY MaxPagesAssumption DEF NoFrame, Frame, InvalidPage, Page
<1>1. /\ free_list \in Seq(Frame) /\ Len(free_list) = PoolSize
      /\ \A i \in 1..PoolSize : free_list[i] = i
  BY PoolAssumption DEF Init, Frame
<1>2. lru \in Seq(Frame) /\ Len(lru) = 0
  BY DEF Init
<1>3. IsInjective(free_list) /\ \A f \in Frame : Contains(free_list, f)
  BY <1>1, InjectiveSeq, PoolAssumption DEF Contains, Frame
<1>4. IsInjective(lru) /\ \A f \in Frame : ~Contains(lru, f)
  <2>1. \A i, j \in 1..Len(lru) : lru[i] = lru[j] => i = j
    BY <1>2
  <2>2. IsInjective(lru)
    BY ZenonT(60), <2>1, <1>2, InjectiveSeq
  <2>3. \A f \in Frame : ~Contains(lru, f)
    BY <1>2 DEF Contains
  <2> QED BY <2>2, <2>3
<1>5. TypeOK
  BY <1>0, <1>1, <1>2 DEF Init, TypeOK
<1>6. FramesPartitioned
  BY <1>0, <1>3, <1>4 DEF Init, FramesPartitioned
<1>7. PinsProtect
  <2>1. ASSUME NEW f \in Frame PROVE Cardinality(Holders(f)) = 0
    <3>1. Holders(f) = {}
      BY <1>0 DEF Init, Holders
    <3> QED BY <3>1, FS_EmptySet
  <2> QED BY <2>1 DEF Init, PinsProtect
<1>8. Coherent
  BY DEF Init, Coherent
<1> QED BY <1>5, <1>6, <1>7, <1>8 DEF IInv

LEMMA FetchHitInv ==
    ASSUME IInv, NEW c \in Client, NEW p \in Page, FetchHit(c, p)
    PROVE  IInv' /\ UNCHANGED live /\ \A q \in live : Content(q)' = Content(q)
<1> DEFINE f == page_table[p]
<1>0. TypeOK /\ FramesPartitioned /\ PinsProtect /\ Coherent
  BY DEF IInv
<1>1. /\ f \in Frame /\ page_id[f] = p /\ held[c][p] = NoFrame
      /\ NoFrame \notin Frame /\ InvalidPage \notin Page
  BY <1>0 DEF FetchHit, TypeOK, FramesPartitioned, NoFrame, Frame, InvalidPage, Page
<1>2. /\ pin_count' = [pin_count EXCEPT ![f] = @ + 1]
      /\ Erase(f) /\ Pinned(c, p, f)
      /\ UNCHANGED <<page_id, is_dirty, data, page_table, free_list, disk,
                     next_page_id, log, wrote, live>>
  BY DEF FetchHit
<1> HIDE DEF f
<1>3. /\ lru' \in Seq(Frame) /\ IsInjective(lru')
      /\ \A g : Contains(lru', g) <=> Contains(lru, g) /\ g # f
  BY <1>0, <1>1, <1>2, EraseFacts DEF TypeOK, FramesPartitioned
<1>4. held' \in [Client -> [Page -> Frame \cup {NoFrame}]]
  BY <1>0, <1>1, <1>2 DEF Pinned, TypeOK
<1>5. TypeOK'
  BY <1>0, <1>1, <1>2, <1>3, <1>4 DEF TypeOK, log
<1>6. FramesPartitioned'
  <2>1. \A g \in Frame : pin_count'[g] = IF g = f THEN pin_count[g] + 1 ELSE pin_count[g]
    BY <1>0, <1>1, <1>2 DEF TypeOK
  <2>2. \A g \in Frame : Contains(lru', g) <=> page_id'[g] # InvalidPage /\ pin_count'[g] = 0
    BY <2>1, <1>0, <1>1, <1>2, <1>3 DEF FramesPartitioned, TypeOK
  <2>3. \A g \in Frame : page_id'[g] = InvalidPage => pin_count'[g] = 0 /\ ~is_dirty'[g]
    BY <2>1, <1>0, <1>1, <1>2 DEF FramesPartitioned
  <2> QED BY <2>2, <2>3, <1>0, <1>2, <1>3 DEF FramesPartitioned
<1>7. PinsProtect'
  <2>1. \A q \in Page : held[c][q] # f
    BY <1>0, <1>1 DEF PinsProtect
  <2>2. \A g \in Frame : Cardinality(Holders(g)')
            = IF g = f THEN Cardinality(Holders(g)) + 1 ELSE Cardinality(Holders(g))
    BY <2>1, <1>0, <1>1, <1>2, HoldersAdd
  <2>3. \A g \in Frame : pin_count'[g] = Cardinality(Holders(g)')
    BY <2>2, <1>0, <1>2 DEF PinsProtect, TypeOK
  <2>4. \A d \in Client, q \in Page : held'[d][q] = IF d = c /\ q = p THEN f ELSE held[d][q]
    BY <1>0, <1>2 DEF Pinned, TypeOK
  <2>5. \A d \in Client, q \in Page : held'[d][q] # NoFrame => page_id'[held'[d][q]] = q
    BY <2>4, <1>0, <1>1, <1>2 DEF PinsProtect
  <2> QED BY <2>3, <2>5 DEF PinsProtect
<1>8. Coherent'
  <2>1. \A d \in Client : \A q \in wrote'[d] : held'[d][q] # NoFrame
    <3> SUFFICES ASSUME NEW d \in Client, NEW q \in wrote[d] PROVE held'[d][q] # NoFrame
      BY <1>2
    <3>1. q \in Page /\ held[d][q] # NoFrame
      BY <1>0 DEF Coherent, TypeOK
    <3> QED BY <3>1, <1>0, <1>1, <1>2 DEF Pinned, TypeOK
  <2> QED BY <2>1, <1>0, <1>2 DEF Coherent
<1>9. \A q \in live : Content(q)' = Content(q)
  BY <1>2 DEF Content
<1> QED BY <1>2, <1>5, <1>6, <1>7, <1>8, <1>9 DEF IInv

LEMMA FetchMissInv ==
    ASSUME IInv, NEW c \in Client, NEW p \in Page, FetchMiss(c, p)
    PROVE  IInv' /\ UNCHANGED live /\ \A q \in live : Content(q)' = Content(q)
<1>0. TypeOK /\ FramesPartitioned /\ PinsProtect /\ Coherent
  BY DEF IInv
<1>1. PICK f \in Frame :
        /\ TakeFrame(f) /\ Install(f, p) /\ Pinned(c, p, f)
        /\ data' = [data EXCEPT ![f] = ReadPage(WriteBack(f), p, data[f])]
        /\ disk' = StreamAfterRead(WriteBack(f), p)
  BY ZenonT(60) DEF FetchMiss
<1>2. /\ p \in live /\ page_table[p] = NoFrame
      /\ UNCHANGED <<next_page_id, log, wrote, live>>
  BY DEF FetchMiss
<1>3. /\ page_id' \in [Frame -> Page \cup {InvalidPage}]
      /\ pin_count' \in [Frame -> Nat]
      /\ is_dirty' \in [Frame -> BOOLEAN]
      /\ page_table' \in [Page -> Frame \cup {NoFrame}]
      /\ free_list' \in Seq(Frame) /\ lru' \in Seq(Frame)
      /\ held' \in [Client -> [Page -> Frame \cup {NoFrame}]]
      /\ pin_count[f] = 0
      /\ FramesPartitioned' /\ PinsProtect'
  BY <1>1, <1>2, InstallFacts
<1>4. PICK d : d = WriteBack(f)
  OBVIOUS
<1>5. /\ d \in [data : [Page -> Nat], size : Nat, good : BOOLEAN] /\ d.good
      /\ d.size >= disk.size
      /\ \A q \in Page : q # page_id[f] => d.data[q] = disk.data[q]
      /\ page_id[f] \in live => page_id[f] < d.size /\ d.data[page_id[f]] = data[f]
  BY <1>3, <1>4, WriteBackFacts
<1>6. /\ NoFrame \notin Frame /\ InvalidPage \notin Page /\ live \subseteq Page
      /\ p \in Nat /\ disk.size \in Nat /\ d.size \in Nat
  BY <1>0, <1>5 DEF NoFrame, Frame, InvalidPage, Page, TypeOK
<1>7. p < disk.size /\ p < d.size
  BY <1>0, <1>2, <1>5, <1>6 DEF Coherent
<1>8. disk' = d /\ data' = [data EXCEPT ![f] = d.data[p]]
  <2>1. StreamAfterRead(d, p) = d
    BY <1>6, <1>7 DEF StreamAfterRead
  <2>2. ReadPage(d, p, data[f]) = d.data[p]
    BY <1>5, <1>6, <1>7 DEF ReadPage
  <2> QED BY ZenonT(60), <2>1, <2>2, <1>1, <1>4
<1>9. /\ \A q \in Page : page_table'[q] =
            IF q = p THEN f ELSE IF q = page_id[f] THEN NoFrame ELSE page_table[q]
      /\ \A g \in Frame : g # f => (is_dirty'[g] <=> is_dirty[g])
      /\ \A g \in Frame : data'[g] = IF g = f THEN d.data[p] ELSE data[g]
      /\ \A e \in Client, q \in Page : held'[e][q] = IF e = c /\ q = p THEN f ELSE held[e][q]
  BY <1>0, <1>1, <1>8 DEF Install, Pinned, TypeOK
<1>10. page_id[f] # p
  BY <1>0, <1>2, <1>6 DEF FramesPartitioned
<1>11. \A q \in Page : page_table[q] = f <=> q = page_id[f]
  BY <1>0 DEF FramesPartitioned
<1>12. TypeOK'
  BY <1>0, <1>2, <1>3, <1>5, <1>8 DEF TypeOK, log
<1>13. Coherent'
  <2>1. \A q \in Page : q >= next_page_id' => page_table'[q] = NoFrame /\ q \notin live'
    BY <1>0, <1>2, <1>9 DEF Coherent
  <2>2. \A e \in Client : \A q \in wrote'[e] : held'[e][q] # NoFrame
    <3> SUFFICES ASSUME NEW e \in Client, NEW q \in wrote[e] PROVE held'[e][q] # NoFrame
      BY <1>2
    <3>1. q \in Page /\ held[e][q] # NoFrame
      BY <1>0 DEF Coherent, TypeOK
    <3> QED BY <3>1, <1>6, <1>9
  <2>3. ASSUME NEW q \in live
        PROVE  \/ page_table'[q] # NoFrame
                  /\ (is_dirty'[page_table'[q]] \/ \E e \in Client : q \in wrote'[e])
               \/ /\ q < disk'.size
                  /\ page_table'[q] # NoFrame => data'[page_table'[q]] = disk'.data[q]
    <3>0. q \in Page /\ q \in Nat
      BY <1>6 DEF Page
    <3>1. CASE q = p
      BY <3>1, <1>7, <1>8, <1>9
    <3>2. CASE q = page_id[f]
      BY <3>0, <3>2, <1>5, <1>8, <1>9, <1>10
    <3>3. CASE q # p /\ q # page_id[f]
      <4>1. /\ page_table'[q] = page_table[q] /\ page_table[q] # f
            /\ page_table[q] \in Frame \cup {NoFrame} /\ disk'.data[q] = disk.data[q]
        BY <3>0, <3>3, <1>0, <1>5, <1>8, <1>9, <1>11 DEF TypeOK
      <4>2. \/ page_table[q] # NoFrame
               /\ (is_dirty[page_table[q]] \/ \E e \in Client : q \in wrote[e])
            \/ /\ q < disk.size
               /\ page_table[q] # NoFrame => data[page_table[q]] = disk.data[q]
        BY <1>0 DEF Coherent
      <4>3. q < disk.size => q < disk'.size
        BY <3>0, <1>5, <1>6, <1>8
      <4> QED BY <4>1, <4>2, <4>3, <1>2, <1>6, <1>9
    <3> QED BY <3>1, <3>2, <3>3
  <2> QED BY <2>1, <2>2, <2>3, <1>2, <1>5, <1>8 DEF Coherent
<1>14. ASSUME NEW q \in live PROVE Content(q)' = Content(q)
  <2>0. q \in Page
    BY <1>6
  <2>1. CASE q = p
    BY <2>1, <1>2, <1>5, <1>6, <1>9, <1>10 DEF Content
  <2>2. CASE q = page_id[f]
    BY <2>0, <2>2, <1>5, <1>6, <1>8, <1>9, <1>10, <1>11 DEF Content
  <2>3. CASE q # p /\ q # page_id[f]
    <3>1. /\ page_table'[q] = page_table[q] /\ page_table[q] # f
          /\ page_table[q] \in Frame \cup {NoFrame} /\ disk'.data[q] = disk.data[q]
      BY <2>0, <2>3, <1>0, <1>5, <1>8, <1>9, <1>11 DEF TypeOK
    <3> QED BY <3>1, <1>9 DEF Content
  <2> QED BY <2>1, <2>2, <2>3
<1> QED BY <1>2, <1>3, <1>12, <1>13, <1>14 DEF IInv

LEMMA NewPageInv ==
    ASSUME IInv, NEW c \in Client, NewPage(c)
    PROVE  /\ IInv'
           /\ \E p \in Page \ live : live' = live \cup {p} /\ Content(p)' = 0
           /\ \A q \in live : Content(q)' = Content(q)
<1>d. PICK p : p = next_page_id
  OBVIOUS
<1>0. TypeOK /\ FramesPartitioned /\ PinsProtect /\ Coherent
  BY DEF IInv
<1>1. PICK f \in Frame :
        /\ TakeFrame(f) /\ Install(f, p) /\ Pinned(c, p, f)
        /\ data' = [data EXCEPT ![f] = 0]
        /\ disk' = WriteBack(f)
        /\ next_page_id' = p + 1
  BY ZenonT(60), <1>d DEF NewPage
<1>2. /\ p < MaxPages /\ wrote' = [wrote EXCEPT ![c] = @ \cup {p}]
      /\ live' = live \cup {p} /\ UNCHANGED log
  BY <1>d DEF NewPage
<1>p. p \in Page /\ p \in Nat
  BY <1>d, <1>0, <1>2, MaxPagesAssumption DEF TypeOK, Page
<1>q. page_table[p] = NoFrame /\ p \notin live
  BY <1>d, <1>0, <1>p DEF Coherent
<1>3. /\ page_id' \in [Frame -> Page \cup {InvalidPage}]
      /\ pin_count' \in [Frame -> Nat]
      /\ is_dirty' \in [Frame -> BOOLEAN]
      /\ page_table' \in [Page -> Frame \cup {NoFrame}]
      /\ free_list' \in Seq(Frame) /\ lru' \in Seq(Frame)
      /\ held' \in [Client -> [Page -> Frame \cup {NoFrame}]]
      /\ pin_count[f] = 0
      /\ FramesPartitioned' /\ PinsProtect'
  BY <1>1, <1>p, <1>q, InstallFacts
<1>4. PICK d : d = WriteBack(f)
  OBVIOUS
<1>5. /\ d \in [data : [Page -> Nat], size : Nat, good : BOOLEAN] /\ d.good
      /\ d.size >= disk.size
      /\ \A q \in Page : q # page_id[f] => d.data[q] = disk.data[q]
      /\ page_id[f] \in live => page_id[f] < d.size /\ d.data[page_id[f]] = data[f]
  BY <1>3, <1>4, WriteBackFacts
<1>6. /\ NoFrame \notin Frame /\ InvalidPage \notin Page /\ live \subseteq Page
      /\ disk.size \in Nat /\ d.size \in Nat
  BY <1>0, <1>5 DEF NoFrame, Frame, InvalidPage, Page, TypeOK
<1>8. disk' = d
  BY <1>1, <1>4
<1>9. /\ \A q \in Page : page_table'[q] =
            IF q = p THEN f ELSE IF q = page_id[f] THEN NoFrame ELSE page_table[q]
      /\ \A g \in Frame : g # f => (is_dirty'[g] <=> is_dirty[g])
      /\ \A g \in Frame : data'[g] = IF g = f THEN 0 ELSE data[g]
      /\ \A e \in Client, q \in Page : held'[e][q] = IF e = c /\ q = p THEN f ELSE held[e][q]
      /\ \A e \in Client : wrote'[e] = IF e = c THEN wrote[e] \cup {p} ELSE wrote[e]
  BY ZenonT(60), <1>0, <1>1, <1>2 DEF Install, Pinned, TypeOK
<1>10. page_id[f] # p
  BY <1>0, <1>p, <1>q, <1>6 DEF FramesPartitioned
<1>11. \A q \in Page : page_table[q] = f <=> q = page_id[f]
  BY <1>0 DEF FramesPartitioned
<1>12. TypeOK'
  <2>1. next_page_id' \in 0..MaxPages
    BY <1>1, <1>2, <1>p, MaxPagesAssumption
  <2>2. wrote' \in [Client -> SUBSET Page] /\ live' \subseteq Page
    BY <1>0, <1>2, <1>p DEF TypeOK
  <2>3. data' \in [Frame -> Nat]
    BY <1>0, <1>1 DEF TypeOK
  <2> QED BY ZenonT(60), <2>1, <2>2, <2>3, <1>0, <1>2, <1>3, <1>5, <1>8 DEF TypeOK, log
<1>13. Coherent'
  <2>1. \A q \in Page : q >= next_page_id' => page_table'[q] = NoFrame /\ q \notin live'
    <3> SUFFICES ASSUME NEW q \in Page, q >= next_page_id'
                 PROVE  page_table'[q] = NoFrame /\ q \notin live'
      OBVIOUS
    <3>1. q >= next_page_id /\ q # p
      BY <1>d, <1>1, <1>p DEF Page
    <3>2. page_table[q] = NoFrame /\ q \notin live
      BY <3>1, <1>0 DEF Coherent
    <3> QED BY <3>1, <3>2, <1>2, <1>9
  <2>2. \A e \in Client : \A q \in wrote'[e] : held'[e][q] # NoFrame
    <3> SUFFICES ASSUME NEW e \in Client, NEW q \in wrote'[e] PROVE held'[e][q] # NoFrame
      OBVIOUS
    <3>1. CASE e = c /\ q = p
      BY <3>1, <1>p, <1>6, <1>9
    <3>2. CASE ~(e = c /\ q = p)
      <4>1. q \in wrote[e]
        <5>1. CASE e = c
          BY ZenonT(60), <5>1, <3>2, <1>9
        <5>2. CASE e # c
          BY ZenonT(60), <5>2, <1>9
        <5> QED BY <5>1, <5>2
      <4>2. q \in Page /\ held[e][q] # NoFrame
        BY <4>1, <1>0 DEF Coherent, TypeOK
      <4> QED BY <4>2, <1>6, <1>9
    <3> QED BY <3>1, <3>2
  <2>3. ASSUME NEW q \in live'
        PROVE  \/ page_table'[q] # NoFrame
                  /\ (is_dirty'[page_table'[q]] \/ \E e \in Client : q \in wrote'[e])
               \/ /\ q < disk'.size
                  /\ page_table'[q] # NoFrame => data'[page_table'[q]] = disk'.data[q]
    <3>0. q \in Page /\ q \in Nat
      BY <1>2, <1>p, <1>6 DEF Page
    <3>1. CASE q = p
      BY ZenonT(60), <3>1, <1>p, <1>6, <1>9
    <3>2. CASE q = page_id[f] /\ q # p
      BY <3>0, <3>2, <1>2, <1>5, <1>8, <1>9, <1>10
    <3>3. CASE q # p /\ q # page_id[f]
      <4>1. /\ page_table'[q] = page_table[q] /\ page_table[q] # f
            /\ page_table[q] \in Frame \cup {NoFrame} /\ disk'.data[q] = disk.data[q]
        BY <3>0, <3>3, <1>0, <1>5, <1>8, <1>9, <1>11 DEF TypeOK
      <4>2. \/ page_table[q] # NoFrame
               /\ (is_dirty[page_table[q]] \/ \E e \in Client : q \in wrote[e])
            \/ /\ q < disk.size
               /\ page_table[q] # NoFrame => data[page_table[q]] = disk.data[q]
        BY <3>3, <1>0, <1>2 DEF Coherent
      <4>3. q < disk.size => q < disk'.size
        BY <3>0, <1>5, <1>6, <1>8
      <4>4. (\E e \in Client : q \in wrote[e]) => \E e \in Client : q \in wrote'[e]
        BY ZenonT(60), <1>9
      <4> QED BY <4>1, <4>2, <4>3, <4>4, <1>6, <1>9
    <3> QED BY <3>1, <3>2, <3>3
  <2> QED BY <2>1, <2>2, <2>3, <1>5, <1>8 DEF Coherent
<1>14. ASSUME NEW q \in live PROVE Content(q)' = Content(q)
  <2>0. q \in Page /\ q # p
    BY <1>6, <1>q
  <2>2. CASE q = page_id[f]
    BY <2>0, <2>2, <1>5, <1>6, <1>8, <1>9, <1>10, <1>11 DEF Content
  <2>3. CASE q # page_id[f]
    <3>1. /\ page_table'[q] = page_table[q] /\ page_table[q] # f
          /\ page_table[q] \in Frame \cup {NoFrame} /\ disk'.data[q] = disk.data[q]
      BY <2>0, <2>3, <1>0, <1>5, <1>8, <1>9, <1>11 DEF TypeOK
    <3> QED BY <3>1, <1>9 DEF Content
  <2> QED BY <2>2, <2>3
<1>15. page_table'[p] = f /\ data'[f] = 0 /\ f # NoFrame
  BY <1>p, <1>6, <1>9
<1>16. p \in Page \ live /\ live' = live \cup {p}
  BY <1>p, <1>q, <1>2
<1>17. Content(p)' = 0
  BY <1>15 DEF Content
<1> QED BY <1>3, <1>12, <1>13, <1>14, <1>16, <1>17 DEF IInv

LEMMA UnpinPageInv ==
    ASSUME IInv, NEW c \in Client, NEW p \in Page, NEW dirty \in BOOLEAN,
           UnpinPage(c, p, dirty)
    PROVE  IInv' /\ UNCHANGED live /\ \A q \in live : Content(q)' = Content(q)
<1>0. TypeOK /\ FramesPartitioned /\ PinsProtect /\ Coherent
  BY DEF IInv
<1>d. PICK f : f = page_table[p]
  OBVIOUS
<1>1. /\ held[c][p] = f /\ f \in Frame /\ page_id[f] = p
      /\ NoFrame \notin Frame /\ InvalidPage \notin Page
  BY <1>d, <1>0, HeldResident DEF UnpinPage, NoFrame, Frame, InvalidPage, Page
<1>2. /\ p \in wrote[c] \cap live => dirty
      /\ pin_count[f] > 0
      /\ pin_count' = [pin_count EXCEPT ![f] = @ - 1]
      /\ lru' = IF pin_count[f] = 1 THEN Append(lru, f) ELSE lru
      /\ is_dirty' = [is_dirty EXCEPT ![f] = @ \/ dirty]
      /\ held' = [held EXCEPT ![c][p] = NoFrame]
      /\ wrote' = [wrote EXCEPT ![c] = @ \ {p}]
      /\ UNCHANGED <<page_id, data, page_table, free_list, disk, next_page_id, log, live>>
  BY <1>d DEF UnpinPage
<1>3. /\ lru' \in Seq(Frame) /\ IsInjective(lru')
      /\ \A g : Contains(lru', g) <=> Contains(lru, g) \/ (g = f /\ pin_count[f] = 1)
  <2>1. lru \in Seq(Frame) /\ IsInjective(lru) /\ ~Contains(lru, f)
    BY <1>0, <1>1, <1>2 DEF TypeOK, FramesPartitioned
  <2>2. CASE pin_count[f] = 1
    BY <2>1, <2>2, <1>1, <1>2, AppendOf
  <2>3. CASE pin_count[f] # 1
    BY <2>1, <2>3, <1>2
  <2> QED BY <2>2, <2>3
<1>4. /\ pin_count' \in [Frame -> Nat]
      /\ \A g \in Frame : pin_count'[g] = IF g = f THEN pin_count[g] - 1 ELSE pin_count[g]
  BY <1>0, <1>1, <1>2 DEF TypeOK
<1>5. /\ is_dirty' \in [Frame -> BOOLEAN]
      /\ \A g \in Frame : g # f => (is_dirty'[g] <=> is_dirty[g])
      /\ is_dirty[f] \/ dirty => is_dirty'[f]
  BY <1>0, <1>1, <1>2 DEF TypeOK
<1>6. /\ held' \in [Client -> [Page -> Frame \cup {NoFrame}]]
      /\ \A d \in Client, q \in Page :
            held'[d][q] = IF d = c /\ q = p THEN NoFrame ELSE held[d][q]
  BY <1>0, <1>2 DEF TypeOK
<1>7. /\ wrote' \in [Client -> SUBSET Page]
      /\ \A d \in Client : wrote'[d] = IF d = c THEN wrote[d] \ {p} ELSE wrote[d]
  BY ZenonT(60), <1>0, <1>2 DEF TypeOK
<1>8. TypeOK'
  BY <1>0, <1>2, <1>3, <1>4, <1>5, <1>6, <1>7 DEF TypeOK, log
<1>9. FramesPartitioned'
  <2>1. ASSUME NEW g \in Frame
        PROVE  /\ Contains(lru', g) <=> page_id'[g] # InvalidPage /\ pin_count'[g] = 0
               /\ page_id'[g] = InvalidPage => pin_count'[g] = 0 /\ ~is_dirty'[g]
    <3>1. CASE g = f
      <4>1. ~Contains(lru, f) /\ pin_count[f] \in Nat
        BY <1>0, <1>1, <1>2 DEF TypeOK, FramesPartitioned
      <4>2. pin_count'[f] = 0 <=> pin_count[f] = 1
        BY <4>1, <1>1, <1>4
      <4> QED BY <3>1, <4>1, <4>2, <1>1, <1>2, <1>3
    <3>2. CASE g # f
      BY <3>2, <1>0, <1>2, <1>3, <1>4, <1>5 DEF FramesPartitioned
    <3> QED BY <3>1, <3>2
  <2> QED BY <2>1, <1>0, <1>2, <1>3 DEF FramesPartitioned
<1>10. PinsProtect'
  <2>1. \A q \in Page : held[c][q] = f => q = p
    BY <1>0, <1>1 DEF PinsProtect
  <2>2. \A g \in Frame : Cardinality(Holders(g)')
            = IF g = f THEN Cardinality(Holders(g)) - 1 ELSE Cardinality(Holders(g))
    <3>1. /\ TypeOK /\ f \in Frame /\ held[c][p] = f
          /\ Unpinned(c, p)
      BY <1>0, <1>1, <1>2 DEF Unpinned
    <3> QED BY <3>1, <2>1, HoldersRemove
  <2>3. \A g \in Frame : pin_count'[g] = Cardinality(Holders(g)')
    BY <2>2, <1>0, <1>4 DEF PinsProtect
  <2>4. \A d \in Client, q \in Page : held'[d][q] # NoFrame => page_id'[held'[d][q]] = q
    BY <1>0, <1>2, <1>6 DEF PinsProtect
  <2> QED BY <2>3, <2>4 DEF PinsProtect
<1>11. Coherent'
  <2>1. \A d \in Client : \A q \in wrote'[d] : held'[d][q] # NoFrame
    <3> SUFFICES ASSUME NEW d \in Client, NEW q \in wrote'[d] PROVE held'[d][q] # NoFrame
      OBVIOUS
    <3>1. q \in wrote[d] /\ ~(d = c /\ q = p)
      <4>1. CASE d = c
        BY <4>1, <1>7
      <4>2. CASE d # c
        BY <4>2, <1>7
      <4> QED BY <4>1, <4>2
    <3>2. q \in Page /\ held[d][q] # NoFrame
      BY <3>1, <1>0 DEF Coherent, TypeOK
    <3> QED BY <3>1, <3>2, <1>6
  <2>2. ASSUME NEW q \in live
        PROVE  \/ page_table[q] # NoFrame
                  /\ (is_dirty'[page_table[q]] \/ \E d \in Client : q \in wrote'[d])
               \/ /\ q < disk.size
                  /\ page_table[q] # NoFrame => data[page_table[q]] = disk.data[q]
    <3>0. q \in Page /\ page_table[q] \in Frame \cup {NoFrame}
      BY <1>0 DEF TypeOK
    <3>1. \/ page_table[q] # NoFrame
             /\ (is_dirty[page_table[q]] \/ \E d \in Client : q \in wrote[d])
          \/ /\ q < disk.size
             /\ page_table[q] # NoFrame => data[page_table[q]] = disk.data[q]
      BY <1>0 DEF Coherent
    <3>2. CASE page_table[q] # NoFrame /\ is_dirty[page_table[q]]
      BY <3>0, <3>2, <1>5
    <3>3. CASE page_table[q] # NoFrame /\ \E d \in Client : q \in wrote[d]
      <4>1. PICK d \in Client : q \in wrote[d]
        BY <3>3
      <4>2. CASE d = c /\ q = p
        <5>1. dirty
          BY <4>1, <4>2, <1>2
        <5> QED BY <5>1, <4>2, <3>3, <1>d, <1>5
      <4>3. CASE ~(d = c /\ q = p)
        <5>1. q \in wrote'[d]
          <6>1. CASE d = c
            BY <6>1, <4>1, <4>3, <1>7
          <6>2. CASE d # c
            BY <6>2, <4>1, <1>7
          <6> QED BY <6>1, <6>2
        <5> QED BY <5>1, <3>3
      <4> QED BY <4>2, <4>3
    <3> QED BY <3>1, <3>2, <3>3
  <2> QED BY <2>1, <2>2, <1>0, <1>2 DEF Coherent
<1>12. \A q \in live : Content(q)' = Content(q)
  BY <1>2 DEF Content
<1> QED BY <1>2, <1>8, <1>9, <1>10, <1>11, <1>12 DEF IInv

LEMMA FlushPageInv ==
    ASSUME IInv, NEW p \in Page, FlushPage(p)
    PROVE  IInv' /\ UNCHANGED live /\ \A q \in live : Content(q)' = Content(q)
<1>0. TypeOK /\ FramesPartitioned /\ PinsProtect /\ Coherent
  BY DEF IInv
<1>d. PICK f : f = page_table[p]
  OBVIOUS
<1>1. f \in Frame /\ f # NoFrame /\ data[f] \in Nat /\ p \in Nat
  <2>1. f # NoFrame /\ f \in Frame \cup {NoFrame}
    BY <1>d, <1>0 DEF FlushPage, TypeOK
  <2>2. data[f] \in Nat
    BY <2>1, <1>0 DEF TypeOK
  <2> QED BY <2>1, <2>2 DEF Page
<1>2. /\ disk' = WritePage(disk, p, data[f])
      /\ UNCHANGED <<pool, next_page_id, log, clients>>
  BY <1>d DEF FlushPage
<1>3. /\ disk \in [data : [Page -> Nat], size : Nat, good : BOOLEAN] /\ disk.good
  BY <1>0 DEF TypeOK, Coherent
<1>4. disk' = [data |-> [disk.data EXCEPT ![p] = data[f]],
               size |-> IF p < disk.size THEN disk.size ELSE p + 1,
               good |-> TRUE]
  BY <1>2, <1>3 DEF WritePage
<1>5. /\ disk' \in [data : [Page -> Nat], size : Nat, good : BOOLEAN] /\ disk'.good
      /\ disk'.size = IF p < disk.size THEN disk.size ELSE p + 1
      /\ \A q \in Page : disk'.data[q] = IF q = p THEN data[f] ELSE disk.data[q]
  BY <1>1, <1>3, <1>4
<1>6. TypeOK'
  BY <1>0, <1>2, <1>5 DEF TypeOK, pool, log, clients
<1>7. FramesPartitioned'
  BY <1>0, <1>2 DEF FramesPartitioned, pool
<1>8. PinsProtect'
  BY <1>0, <1>2, HoldersSame DEF PinsProtect, pool, clients
<1>9. Coherent'
  <2>1. ASSUME NEW q \in live
        PROVE  \/ page_table[q] # NoFrame
                  /\ (is_dirty[page_table[q]] \/ \E d \in Client : q \in wrote[d])
               \/ /\ q < disk'.size
                  /\ page_table[q] # NoFrame => data[page_table[q]] = disk'.data[q]
    <3>0. q \in Page /\ q \in Nat /\ disk.size \in Nat
      BY <1>0, <1>3 DEF TypeOK, Page
    <3>1. \/ page_table[q] # NoFrame
             /\ (is_dirty[page_table[q]] \/ \E d \in Client : q \in wrote[d])
          \/ /\ q < disk.size
             /\ page_table[q] # NoFrame => data[page_table[q]] = disk.data[q]
      BY <1>0 DEF Coherent
    <3>2. CASE q = p
      BY <3>0, <3>2, <1>d, <1>1, <1>5
    <3>3. CASE q # p
      BY <3>0, <3>1, <3>3, <1>1, <1>5
    <3> QED BY <3>2, <3>3
  <2> QED BY <2>1, <1>0, <1>2, <1>5 DEF Coherent, pool, clients
<1>10. ASSUME NEW q \in live PROVE Content(q)' = Content(q)
  <2>1. q \in Page /\ UNCHANGED <<page_table, data>>
    BY <1>0, <1>2 DEF TypeOK, pool
  <2>2. page_table[q] = NoFrame => q # p
    BY <1>d, <1>1
  <2> QED BY <2>1, <2>2, <1>5 DEF Content
<1> QED BY <1>2, <1>6, <1>7, <1>8, <1>9, <1>10 DEF IInv, clients

LEMMA DeletePageInv ==
    ASSUME IInv, NEW p \in Page, DeletePage(p)
    PROVE  IInv' /\ UNCHANGED live /\ \A q \in live : Content(q)' = Content(q)
<1>0. TypeOK /\ FramesPartitioned /\ PinsProtect /\ Coherent
  BY DEF IInv
<1>d. PICK f : f = page_table[p]
  OBVIOUS
<1>1. /\ f \in Frame /\ f # NoFrame /\ page_id[f] = p /\ pin_count[f] = 0
      /\ NoFrame \notin Frame /\ InvalidPage \notin Page
  BY <1>d, <1>0 DEF DeletePage, TypeOK, FramesPartitioned, NoFrame, Frame, InvalidPage, Page
<1>2. /\ p \notin live
      /\ page_table' = [page_table EXCEPT ![p] = NoFrame]
      /\ Erase(f)
      /\ page_id' = [page_id EXCEPT ![f] = InvalidPage]
      /\ is_dirty' = [is_dirty EXCEPT ![f] = FALSE]
      /\ free_list' = Append(free_list, f)
      /\ UNCHANGED <<pin_count, data, disk, next_page_id, log, clients>>
  BY <1>d DEF DeletePage
<1>3. /\ lru' \in Seq(Frame) /\ IsInjective(lru')
      /\ \A g : Contains(lru', g) <=> Contains(lru, g) /\ g # f
  BY <1>0, <1>1, <1>2, EraseFacts DEF TypeOK, FramesPartitioned
<1>4. /\ free_list' \in Seq(Frame) /\ IsInjective(free_list')
      /\ \A g : Contains(free_list', g) <=> Contains(free_list, g) \/ g = f
  <2>1. free_list \in Seq(Frame) /\ IsInjective(free_list) /\ ~Contains(free_list, f)
    BY <1>0, <1>1 DEF TypeOK, FramesPartitioned
  <2> QED BY <2>1, <1>1, <1>2, AppendOf
<1>5. /\ \A g \in Frame : page_id'[g] = IF g = f THEN InvalidPage ELSE page_id[g]
      /\ \A q \in Page : page_table'[q] = IF q = p THEN NoFrame ELSE page_table[q]
      /\ \A g \in Frame : g # f => (is_dirty'[g] <=> is_dirty[g])
      /\ ~is_dirty'[f]
  BY <1>0, <1>1, <1>2 DEF TypeOK
<1>6. TypeOK'
  BY <1>0, <1>1, <1>2, <1>3, <1>4 DEF TypeOK, log, clients
<1>7. FramesPartitioned'
  <2>1. ASSUME NEW g \in Frame
        PROVE  /\ Contains(free_list', g) <=> page_id'[g] = InvalidPage
               /\ Contains(lru', g) <=> page_id'[g] # InvalidPage /\ pin_count'[g] = 0
               /\ page_id'[g] = InvalidPage => pin_count'[g] = 0 /\ ~is_dirty'[g]
    <3>1. CASE g = f
      BY ZenonT(60), <3>1, <1>1, <1>2, <1>3, <1>4, <1>5
    <3>2. CASE g # f
      <4>1. /\ Contains(free_list, g) <=> page_id[g] = InvalidPage
            /\ Contains(lru, g) <=> page_id[g] # InvalidPage /\ pin_count[g] = 0
            /\ page_id[g] = InvalidPage => pin_count[g] = 0 /\ ~is_dirty[g]
        BY ZenonT(60), <1>0 DEF FramesPartitioned
      <4>2. page_id'[g] = page_id[g] /\ (is_dirty'[g] <=> is_dirty[g])
        BY ZenonT(60), <3>2, <1>5
      <4> QED BY ZenonT(60), <4>1, <4>2, <3>2, <1>2, <1>3, <1>4
    <3> QED BY ZenonT(60), <3>1, <3>2
  <2>2. ASSUME NEW q \in Page, NEW g \in Frame
        PROVE  page_table'[q] = g <=> page_id'[g] = q
    <3>1. page_table[q] = g <=> page_id[g] = q
      BY ZenonT(60), <1>0 DEF FramesPartitioned
    <3> QED BY ZenonT(60), <3>1, <1>d, <1>1, <1>5
  <2> QED BY ZenonT(60), <2>1, <2>2, <1>3, <1>4 DEF FramesPartitioned
<1>8. PinsProtect'
  <2>1. \A d \in Client, q \in Page : held[d][q] # f
    BY <1>0, <1>1, Unheld
  <2>2. \A d \in Client, q \in Page : held'[d][q] # NoFrame => page_id'[held'[d][q]] = q
    <3> SUFFICES ASSUME NEW d \in Client, NEW q \in Page, held[d][q] # NoFrame
                 PROVE  page_id'[held[d][q]] = q
      BY <1>2 DEF clients
    <3>1. held[d][q] \in Frame /\ page_id[held[d][q]] = q
      BY <1>0 DEF TypeOK, PinsProtect
    <3> QED BY <3>1, <2>1, <1>5
  <2>3. \A g \in Frame : pin_count'[g] = Cardinality(Holders(g)')
    BY <1>0, <1>2, HoldersSame DEF PinsProtect, clients
  <2> QED BY <2>2, <2>3 DEF PinsProtect
<1>9. \A q \in live : q \in Page /\ q # p /\ page_table'[q] = page_table[q]
                      /\ page_table[q] # f
  BY <1>0, <1>1, <1>2, <1>5 DEF TypeOK, FramesPartitioned
<1>10. Coherent'
  <2>1. \A q \in Page : q >= next_page_id' => page_table'[q] = NoFrame /\ q \notin live'
    BY <1>0, <1>2, <1>5 DEF Coherent, clients
  <2>2. ASSUME NEW q \in live
        PROVE  \/ page_table'[q] # NoFrame
                  /\ (is_dirty'[page_table'[q]] \/ \E d \in Client : q \in wrote[d])
               \/ /\ q < disk.size
                  /\ page_table'[q] # NoFrame => data[page_table'[q]] = disk.data[q]
    <3>1. page_table[q] \in Frame \cup {NoFrame}
      BY <1>0, <1>9 DEF TypeOK
    <3> QED BY <3>1, <1>0, <1>5, <1>9 DEF Coherent
  <2> QED BY <2>1, <2>2, <1>0, <1>2 DEF Coherent, clients
<1>11. \A q \in live : Content(q)' = Content(q)
  BY <1>2, <1>9 DEF Content
<1> QED BY <1>2, <1>6, <1>7, <1>8, <1>10, <1>11 DEF IInv, clients

LEMMA WriteDataInv ==
    ASSUME IInv, NEW c \in Client, NEW p \in Page, WriteData(c, p)
    PROVE  /\ IInv' /\ UNCHANGED live
           /\ Content(p)' = next_lsn
           /\ \A q \in live \ {p} : Content(q)' = Content(q)
<1>0. TypeOK /\ FramesPartitioned /\ PinsProtect /\ Coherent
  BY DEF IInv
<1>d. PICK f, n : f = held[c][p] /\ n = next_lsn
  OBVIOUS
<1>1. /\ f \in Frame /\ f # NoFrame /\ page_id[f] = p /\ page_table[p] = f
      /\ n \in Nat \ {0} /\ n < MaxLsn
  BY <1>d, <1>0, HeldResident DEF WriteData, TypeOK
<1>2. /\ data' = [data EXCEPT ![f] = n]
      /\ next_lsn' = n + 1
      /\ wrote' = [wrote EXCEPT ![c] = @ \cup {p}]
      /\ UNCHANGED <<page_id, pin_count, is_dirty, page_table, free_list, lru,
                     disk, next_page_id, persistent_lsn, held, live>>
  BY <1>d DEF WriteData
<1>3. /\ wrote' \in [Client -> SUBSET Page]
      /\ \A d \in Client : wrote'[d] = IF d = c THEN wrote[d] \cup {p} ELSE wrote[d]
      /\ data' \in [Frame -> Nat]
      /\ \A g \in Frame : data'[g] = IF g = f THEN n ELSE data[g]
  BY ZenonT(60), <1>0, <1>1, <1>2 DEF TypeOK
<1>4. TypeOK'
  BY <1>0, <1>1, <1>2, <1>3 DEF TypeOK
<1>5. FramesPartitioned'
  BY ZenonT(60), <1>0, <1>2 DEF FramesPartitioned
<1>6. PinsProtect'
  BY ZenonT(60), <1>0, <1>2, HoldersSame DEF PinsProtect
<1>7. \A q \in live \ {p} : q \in Page /\ page_table[q] # f
                            /\ page_table[q] \in Frame \cup {NoFrame}
  BY <1>0, <1>1 DEF TypeOK, FramesPartitioned
<1>8. Coherent'
  <2>1. \A d \in Client : \A q \in wrote'[d] : held'[d][q] # NoFrame
    <3> SUFFICES ASSUME NEW d \in Client, NEW q \in wrote'[d] PROVE held[d][q] # NoFrame
      BY <1>2
    <3>1. CASE d = c /\ q = p
      BY <3>1, <1>d, <1>1
    <3>2. CASE q \in wrote[d]
      BY <3>2, <1>0 DEF Coherent
    <3> QED BY <3>1, <3>2, <1>3
  <2>2. ASSUME NEW q \in live
        PROVE  \/ page_table[q] # NoFrame
                  /\ (is_dirty[page_table[q]] \/ \E d \in Client : q \in wrote'[d])
               \/ /\ q < disk.size
                  /\ page_table[q] # NoFrame => data'[page_table[q]] = disk.data[q]
    <3>1. CASE q = p
      BY <3>1, <1>1, <1>3
    <3>2. CASE q # p
      <4>1. (\E d \in Client : q \in wrote[d]) => \E d \in Client : q \in wrote'[d]
        BY <1>3
      <4> QED BY <3>2, <4>1, <1>0, <1>3, <1>7 DEF Coherent
    <3> QED BY <3>1, <3>2
  <2> QED BY <2>1, <2>2, <1>0, <1>2 DEF Coherent
<1>9. Content(p)' = next_lsn
  BY <1>d, <1>1, <1>2, <1>3 DEF Content
<1>10. \A q \in live \ {p} : Content(q)' = Content(q)
  BY <1>2, <1>3, <1>7 DEF Content
<1> QED BY <1>2, <1>4, <1>5, <1>6, <1>8, <1>9, <1>10 DEF IInv

LEMMA UnlinkInv ==
    ASSUME IInv, NEW p \in Page, Unlink(p)
    PROVE  /\ IInv' /\ p \in live /\ live' = live \ {p}
           /\ \A q \in live : Content(q)' = Content(q)
<1>1. /\ p \in live /\ live' = live \ {p}
      /\ UNCHANGED <<pool, disk, next_page_id, log, held, wrote>>
  BY DEF Unlink
<1>2. TypeOK'
  BY <1>1 DEF IInv, TypeOK, pool, log
<1>3. FramesPartitioned'
  BY <1>1 DEF IInv, FramesPartitioned, pool
<1>4. PinsProtect'
  BY <1>1, HoldersSame DEF IInv, PinsProtect, pool
<1>5. Coherent'
  BY <1>1 DEF IInv, Coherent, pool
<1>6. \A q \in live : Content(q)' = Content(q)
  BY <1>1 DEF Content, pool
<1> QED BY <1>1, <1>2, <1>3, <1>4, <1>5, <1>6 DEF IInv

LEMMA FlushLogInv ==
    ASSUME IInv, FlushLog
    PROVE  IInv' /\ UNCHANGED live /\ \A q \in live : Content(q)' = Content(q)
<1>1. /\ persistent_lsn' \in (persistent_lsn + 1)..(next_lsn - 1)
      /\ UNCHANGED <<pool, disk, next_page_id, next_lsn, clients>>
  BY DEF FlushLog
<1>2. TypeOK'
  <2>1. persistent_lsn' \in Nat
    BY <1>1 DEF IInv, TypeOK
  <2> QED BY <2>1, <1>1 DEF IInv, TypeOK, pool, clients
<1>3. FramesPartitioned'
  BY <1>1 DEF IInv, FramesPartitioned, pool
<1>4. PinsProtect'
  BY <1>1, HoldersSame DEF IInv, PinsProtect, pool, clients
<1>5. Coherent'
  BY ZenonT(60), <1>1 DEF IInv, Coherent, pool, clients
<1>6. UNCHANGED live /\ \A q \in live : Content(q)' = Content(q)
  BY <1>1 DEF Content, pool, clients
<1> QED BY <1>2, <1>3, <1>4, <1>5, <1>6 DEF IInv

LEMMA StutterInv ==
    ASSUME IInv, UNCHANGED vars
    PROVE  IInv' /\ UNCHANGED live /\ \A q \in live : Content(q)' = Content(q)
<1>1. UNCHANGED <<pool, disk, next_page_id, log, clients>>
  BY DEF vars
<1>2. TypeOK'
  BY <1>1 DEF IInv, TypeOK, pool, log, clients
<1>3. FramesPartitioned'
  BY <1>1 DEF IInv, FramesPartitioned, pool
<1>4. PinsProtect'
  BY <1>1, HoldersSame DEF IInv, PinsProtect, pool, clients
<1>5. Coherent'
  BY <1>1 DEF IInv, Coherent, pool, clients
<1>6. UNCHANGED live /\ \A q \in live : Content(q)' = Content(q)
  BY <1>1 DEF Content, pool, clients
<1> QED BY <1>2, <1>3, <1>4, <1>5, <1>6 DEF IInv

LEMMA NextInv == IInv /\ [Next]_vars => IInv'
<1> SUFFICES ASSUME IInv, [Next]_vars PROVE IInv'
  OBVIOUS
<1>1. CASE \E c \in Client, p \in Page : FetchHit(c, p)
  BY <1>1, FetchHitInv
<1>2. CASE \E c \in Client, p \in Page : FetchMiss(c, p)
  BY <1>2, FetchMissInv
<1>3. CASE \E c \in Client, p \in Page, dirty \in BOOLEAN : UnpinPage(c, p, dirty)
  BY <1>3, UnpinPageInv
<1>4. CASE \E c \in Client, p \in Page : WriteData(c, p)
  BY <1>4, WriteDataInv
<1>5. CASE \E c \in Client : NewPage(c)
  BY <1>5, NewPageInv
<1>6. CASE \E p \in Page : FlushPage(p)
  BY <1>6, FlushPageInv
<1>7. CASE \E p \in Page : DeletePage(p)
  BY <1>7, DeletePageInv
<1>8. CASE \E p \in Page : Unlink(p)
  BY <1>8, UnlinkInv
<1>9. CASE FlushLog
  BY <1>9, FlushLogInv
<1>10. CASE UNCHANGED vars
  BY <1>10, StutterInv
<1> QED BY <1>1, <1>2, <1>3, <1>4, <1>5, <1>6, <1>7, <1>8, <1>9, <1>10 DEF Next

LEMMA Invariance == Spec => []IInv
<1> QED BY InitInv, NextInv, PTL DEF Spec

-----------------------------------------------------------------------------
(* Theorems.                                                               *)

\* The fields of the pool, the page file and the log keep their types.
THEOREM TypeCorrect == Spec => []TypeOK
<1>1. IInv => TypeOK
  BY DEF IInv
<1> QED BY <1>1, Invariance, PTL

\* For every pool size: no operation of the buffer pool loses a frame, puts one
\* into two lists, evicts a pinned one or leaves the page table wrong.
THEOREM FramesNeverLost == Spec => []FramesPartitioned
<1>1. IInv => FramesPartitioned
  BY DEF IInv
<1> QED BY <1>1, Invariance, PTL

\* For any number of clients: the page of a pinned frame does not change
\* under the client that pinned it, and pin_count_ counts the holders.
THEOREM PinnedPagesStay == Spec => []PinsProtect
<1>1. IInv => PinsProtect
  BY DEF IInv
<1> QED BY <1>1, Invariance, PTL

\* What a clean victim is dropped without: its content is in the file.
THEOREM CleanPagesOnDisk == Spec => []Coherent
<1>1. IInv => Coherent
  BY DEF IInv
<1> QED BY <1>1, Invariance, PTL

LEMMA WriteBackAhead ==
    ASSUME IInv, WriteAhead, NEW f \in Frame,
           is_dirty[f] => data[f] <= persistent_lsn
    PROVE  \A q \in Page : WriteBack(f).data[q] > 0 => WriteBack(f).data[q] <= persistent_lsn
<1>1. /\ disk \in [data : [Page -> Nat], size : Nat, good : BOOLEAN] /\ disk.good
      /\ page_id[f] \in Page \cup {InvalidPage} /\ InvalidPage \notin Page
  BY DEF IInv, TypeOK, Coherent, InvalidPage, Page
<1>2. CASE is_dirty[f]
  <2>1. page_id[f] \in Page
    BY <1>1, <1>2 DEF IInv, FramesPartitioned
  <2>2. WriteBack(f).data = [disk.data EXCEPT ![page_id[f]] = data[f]]
    BY <1>1, <1>2 DEF WriteBack, WritePage
  <2> QED BY <2>1, <2>2, <1>1, <1>2 DEF WriteAhead
<1>3. CASE ~is_dirty[f]
  BY <1>3 DEF WriteBack, WriteAhead
<1> QED BY <1>2, <1>3

LEMMA NextWriteAhead ==
    ASSUME ~ForceFlush, IInv, WriteAhead, [Next]_vars
    PROVE  WriteAhead'
<1>1. ASSUME NEW c \in Client, NEW p \in Page, FetchMiss(c, p) PROVE WriteAhead'
  <2>1. PICK f \in Frame :
          /\ is_dirty[f] => data[f] <= persistent_lsn
          /\ disk' = StreamAfterRead(WriteBack(f), p)
    BY <1>1 DEF FetchMiss
  <2>2. persistent_lsn' = persistent_lsn
    BY <1>1 DEF FetchMiss, log
  <2>3. disk'.data = WriteBack(f).data
    <3>1. PICK d : d = WriteBack(f)
      OBVIOUS
    <3>2. d \in [data : [Page -> Nat], size : Nat, good : BOOLEAN]
      BY <3>1 DEF IInv, TypeOK, FramesPartitioned, Coherent, WriteBack, WritePage,
                  InvalidPage, Page
    <3> QED BY <3>1, <3>2, <2>1 DEF StreamAfterRead
  <2> QED BY <2>1, <2>2, <2>3, WriteBackAhead DEF WriteAhead
<1>2. ASSUME NEW c \in Client, NewPage(c) PROVE WriteAhead'
  <2>1. PICK f \in Frame :
          /\ is_dirty[f] => data[f] <= persistent_lsn
          /\ disk' = WriteBack(f)
    BY <1>2 DEF NewPage
  <2>2. persistent_lsn' = persistent_lsn
    BY <1>2 DEF NewPage, log
  <2> QED BY <2>1, <2>2, WriteBackAhead DEF WriteAhead
<1>3. ASSUME NEW p \in Page, FlushPage(p) PROVE WriteAhead'
  <2>1. PICK v : v = data[page_table[p]]
    OBVIOUS
  <2>2. v <= persistent_lsn /\ disk' = WritePage(disk, p, v) /\ persistent_lsn' = persistent_lsn
    BY <1>3, <2>1 DEF FlushPage, log
  <2>3. disk \in [data : [Page -> Nat], size : Nat, good : BOOLEAN] /\ disk.good
    BY DEF IInv, TypeOK, Coherent
  <2>4. disk'.data = [disk.data EXCEPT ![p] = v]
    BY <2>2, <2>3 DEF WritePage
  <2> QED BY <2>2, <2>3, <2>4 DEF WriteAhead
<1>4. ASSUME FlushLog PROVE WriteAhead'
  <2>1. disk' = disk /\ persistent_lsn' \in (persistent_lsn + 1)..(next_lsn - 1)
    BY <1>4 DEF FlushLog
  <2>2. persistent_lsn \in Int /\ next_lsn \in Int /\ disk.data \in [Page -> Nat]
    BY DEF IInv, TypeOK
  <2> QED BY <2>1, <2>2 DEF WriteAhead
<1>5. ASSUME UNCHANGED <<disk, persistent_lsn>> PROVE WriteAhead'
  BY <1>5 DEF WriteAhead
<1>6. ASSUME NEW c \in Client, NEW p \in Page,
             FetchHit(c, p) \/ (\E dirty \in BOOLEAN : UnpinPage(c, p, dirty)) \/ WriteData(c, p)
      PROVE  UNCHANGED <<disk, persistent_lsn>>
  BY <1>6 DEF FetchHit, UnpinPage, WriteData, log
<1>7. ASSUME NEW p \in Page, DeletePage(p) \/ Unlink(p)
      PROVE  UNCHANGED <<disk, persistent_lsn>>
  BY <1>7 DEF DeletePage, Unlink, log
<1>8. ASSUME UNCHANGED vars PROVE UNCHANGED <<disk, persistent_lsn>>
  BY <1>8 DEF vars, log
<1> QED BY <1>1, <1>2, <1>3, <1>4, <1>5, <1>6, <1>7, <1>8 DEF Next

\* Write-ahead logging holds for every pool, as long as FlushPage, which does
\* not look at the log, is not called for a page with unlogged changes.
THEOREM LogBeforeData == ~ForceFlush => (Spec => []WriteAhead)
<1> SUFFICES ASSUME ~ForceFlush PROVE Spec => []WriteAhead
  OBVIOUS
<1>1. Init => WriteAhead
  BY DEF Init, WriteAhead
<1>2. IInv /\ WriteAhead /\ [Next]_vars => WriteAhead'
  BY NextWriteAhead
<1> QED BY <1>1, <1>2, Invariance, PTL DEF Spec

-----------------------------------------------------------------------------
(* The pool implements the page store.                                     *)

\* The page store's variables in terms of the pool's.
stored == [p \in live |-> Content(p)]
views == [c \in Client |-> [p \in Page |-> View(c, p)]]

LEMMA StoreInit == Init => Store!Init
<1> SUFFICES ASSUME Init PROVE Store!Init
  OBVIOUS
<1>1. stored = [p \in {} |-> 0]
  BY DEF Init, stored
<1>2. views = [c \in Client |-> [p \in Page |-> -1]]
  BY DEF Init, views, View
<1>3. next_lsn = 1
  BY DEF Init
<1> QED BY <1>1, <1>2, <1>3 DEF Store!Init, Store!Nothing, stored, views

\* A client that has no pointer to a page sees nothing of it.
LEMMA ViewNothing ==
    ASSUME IInv, NEW c \in Client, NEW p \in Page
    PROVE  View(c, p) = -1 <=> held[c][p] = NoFrame
<1>1. held[c][p] # NoFrame => held[c][p] \in Frame
  BY DEF IInv, TypeOK
<1>2. held[c][p] # NoFrame => data[held[c][p]] \in Nat
  BY <1>1 DEF IInv, TypeOK
<1> QED BY <1>2 DEF View

\* One client's view of one page is replaced.
LEMMA ViewReplaced ==
    ASSUME NEW c \in Client, NEW p \in Page, NEW v,
           \A d \in Client, q \in Page : View(d, q)' = IF d = c /\ q = p THEN v ELSE View(d, q)
    PROVE  views' = [views EXCEPT ![c][p] = v]
<1>1. views' = [d \in Client |-> [q \in Page |-> View(d, q)']]
  BY DEF views
<1>2. [views EXCEPT ![c][p] = v]
        = [d \in Client |-> [q \in Page |-> IF d = c /\ q = p THEN v ELSE View(d, q)]]
  BY ZenonT(20) DEF views
<1> QED BY <1>1, <1>2

\* Pointers and frames do not change: every client sees what it saw.
LEMMA ViewsSame ==
    ASSUME UNCHANGED <<held, data>>
    PROVE  UNCHANGED views
<1>1. \A d \in Client, q \in Page : View(d, q)' = View(d, q)
  BY DEF View
<1> QED BY <1>1 DEF views

\* A frame taken for page p is nobody's: the other views stay, and the client
\* reads what is now in the frame.
LEMMA ViewTaken ==
    ASSUME IInv, NEW c \in Client, NEW p \in Page, NEW f \in Frame,
           TakeFrame(f), Pinned(c, p, f), \A g \in Frame \ {f} : data'[g] = data[g]
    PROVE  views' = [views EXCEPT ![c][p] = data'[f]]
<1>1. pin_count[f] = 0
  BY TakeFrameFacts DEF IInv
<1>2. \A d \in Client, q \in Page : held[d][q] # f
  BY <1>1, Unheld DEF IInv
<1>3. /\ \A d \in Client, q \in Page : held'[d][q] = IF d = c /\ q = p THEN f ELSE held[d][q]
      /\ \A d \in Client, q \in Page : held[d][q] \in Frame \cup {NoFrame}
      /\ NoFrame \notin Frame
  BY DEF IInv, TypeOK, Pinned, NoFrame, Frame
<1>4. \A d \in Client, q \in Page : View(d, q)' = IF d = c /\ q = p THEN data'[f] ELSE View(d, q)
  BY <1>2, <1>3 DEF View
<1> QED BY <1>4, ViewReplaced

LEMMA StoreFetch ==
    ASSUME IInv, NEW c \in Client, NEW p \in Page, FetchHit(c, p) \/ FetchMiss(c, p)
    PROVE  Store!Fetch(c, p)
<1>1. /\ p \in live /\ live' = live /\ next_lsn' = next_lsn /\ held[c][p] = NoFrame
      /\ \A q \in live : Content(q)' = Content(q)
  BY FetchHitInv, FetchMissInv DEF FetchHit, FetchMiss, log
<1>2. stored' = stored
  BY <1>1 DEF stored
<1>3. views' = [views EXCEPT ![c][p] = Content(p)]
  <2>1. CASE FetchHit(c, p)
    <3>1. page_table[p] # NoFrame /\ data' = data /\ held' = [held EXCEPT ![c][p] = page_table[p]]
      BY <2>1 DEF FetchHit, Pinned
    <3>2. \A d \in Client, q \in Page :
            View(d, q)' = IF d = c /\ q = p THEN Content(p) ELSE View(d, q)
      BY <3>1 DEF IInv, TypeOK, View, Content
    <3> QED BY <3>2, ViewReplaced
  <2>2. CASE FetchMiss(c, p)
    <3>1. PICK f \in Frame :
            /\ TakeFrame(f) /\ Pinned(c, p, f) /\ Install(f, p)
            /\ data' = [data EXCEPT ![f] = ReadPage(WriteBack(f), p, data[f])]
      BY ZenonT(60), <2>2 DEF FetchMiss
    <3>2. \A g \in Frame \ {f} : data'[g] = data[g]
      BY <3>1 DEF IInv, TypeOK
    <3>3. views' = [views EXCEPT ![c][p] = data'[f]]
      BY <3>1, <3>2, ViewTaken
    <3>4. page_table'[p] = f /\ f # NoFrame
      BY <3>1 DEF Install, NoFrame, Frame
    <3>5. Content(p)' = data'[f]
      BY <3>4 DEF Content
    <3> QED BY ZenonT(20), <3>3, <3>5, <1>1
  <2> QED BY <2>1, <2>2
<1>4. p \in DOMAIN stored /\ stored[p] = Content(p)
  BY <1>1 DEF stored
<1>5. views[c][p] = -1
  BY <1>1, ViewNothing DEF views
<1> QED BY <1>1, <1>2, <1>3, <1>4, <1>5 DEF Store!Fetch, Store!Nothing, stored, views

LEMMA StoreNew ==
    ASSUME IInv, NEW c \in Client, NewPage(c)
    PROVE  \E p \in Page : Store!New(c, p)
<1>1. PICK p \in Page : p \notin live /\ live' = live \cup {p} /\ Content(p)' = 0
  BY NewPageInv
<1>2. \A q \in live : Content(q)' = Content(q)
  BY NewPageInv
<1>3. stored' = [q \in DOMAIN stored \cup {p} |-> IF q = p THEN 0 ELSE stored[q]]
  BY <1>1, <1>2 DEF stored
<1>4. p = next_page_id /\ next_lsn' = next_lsn
  <2>1. live' = live \cup {next_page_id} /\ next_lsn' = next_lsn
    BY DEF NewPage, log
  <2> QED BY <2>1, <1>1
<1>5. PICK f \in Frame : TakeFrame(f) /\ Pinned(c, p, f) /\ data' = [data EXCEPT ![f] = 0]
  BY ZenonT(60), <1>4 DEF NewPage
<1>6. views' = [views EXCEPT ![c][p] = 0]
  <2>1. data'[f] = 0 /\ \A g \in Frame \ {f} : data'[g] = data[g]
    BY <1>5 DEF IInv, TypeOK
  <2>2. views' = [views EXCEPT ![c][p] = data'[f]]
    BY <1>5, <2>1, ViewTaken
  <2> QED BY <2>1, <2>2
<1>7. p \notin DOMAIN stored
  BY <1>1 DEF stored
<1>8. Store!New(c, p)
  BY ZenonT(20), <1>3, <1>4, <1>6, <1>7 DEF Store!New, stored, views
<1> QED BY <1>8

LEMMA StoreWrite ==
    ASSUME IInv, NEW c \in Client, NEW p \in Page, WriteData(c, p)
    PROVE  Store!Write(c, p)
<1>d. PICK f, n : f = held[c][p] /\ n = next_lsn
  OBVIOUS
<1>1. /\ f # NoFrame /\ f \in Frame /\ page_id[f] = p
      /\ data' = [data EXCEPT ![f] = n] /\ next_lsn' = n + 1 /\ held' = held /\ live' = live
  BY <1>d, HeldResident DEF WriteData, IInv
<1>2. Content(p)' = n /\ \A q \in live \ {p} : Content(q)' = Content(q)
  BY <1>d, WriteDataInv
<1>3. stored' = [q \in DOMAIN stored |-> IF q = p THEN n ELSE stored[q]]
  BY <1>1, <1>2 DEF stored
<1>4. ASSUME NEW d \in Client, NEW q \in Page
      PROVE  View(d, q)' = IF q = p /\ View(d, q) # -1 THEN n ELSE View(d, q)
  <2>1. CASE held[d][q] = NoFrame
    BY <2>1, <1>1 DEF View
  <2>2. CASE held[d][q] # NoFrame
    <3>1. /\ held[d][q] \in Frame /\ page_id[held[d][q]] = q
          /\ page_table[q] = held[d][q] /\ page_table[p] = f
      BY <2>2, <1>d, <1>1, HeldResident DEF IInv
    <3>2. held[d][q] = f <=> q = p
      BY <3>1, <1>1
    <3>3. View(d, q) # -1
      BY <2>2, ViewNothing
    <3>4. data'[held[d][q]] = IF held[d][q] = f THEN n ELSE data[held[d][q]]
      BY <3>1, <1>1 DEF IInv, TypeOK
    <3> QED BY <2>2, <3>2, <3>3, <3>4, <1>1 DEF View
  <2> QED BY <2>1, <2>2
<1>5. views' = [d \in Client |-> [q \in Page |->
            IF q = p /\ views[d][q] # -1 THEN n ELSE views[d][q]]]
  <2>1. views' = [d \in Client |-> [q \in Page |-> View(d, q)']]
    BY DEF views
  <2> QED BY <2>1, <1>4 DEF views
<1>6. views[c][p] # -1
  BY <1>d, <1>1, ViewNothing DEF views
<1> QED BY <1>d, <1>1, <1>3, <1>5, <1>6 DEF Store!Write, Store!Nothing, stored, views

LEMMA StoreUnpin ==
    ASSUME IInv, NEW c \in Client, NEW p \in Page, NEW dirty \in BOOLEAN,
           UnpinPage(c, p, dirty)
    PROVE  Store!Unpin(c, p)
<1>1. /\ held[c][p] # NoFrame /\ held' = [held EXCEPT ![c][p] = NoFrame]
      /\ data' = data /\ next_lsn' = next_lsn
  BY DEF UnpinPage, log
<1>2. live' = live /\ \A q \in live : Content(q)' = Content(q)
  BY UnpinPageInv
<1>3. stored' = stored
  BY <1>2 DEF stored
<1>4. \A d \in Client, q \in Page : View(d, q)' = IF d = c /\ q = p THEN -1 ELSE View(d, q)
  BY <1>1 DEF IInv, TypeOK, View
<1>5. views' = [views EXCEPT ![c][p] = -1]
  BY <1>4, ViewReplaced
<1>6. views[c][p] # -1
  BY <1>1, ViewNothing DEF views
<1> QED BY <1>1, <1>3, <1>5, <1>6 DEF Store!Unpin, Store!Nothing, stored, views

LEMMA StoreDrop ==
    ASSUME IInv, NEW p \in Page, Unlink(p)
    PROVE  Store!Drop(p)
<1>1. p \in live /\ live' = live \ {p} /\ \A q \in live : Content(q)' = Content(q)
  BY UnlinkInv
<1>2. p \in DOMAIN stored /\ stored' = [q \in DOMAIN stored \ {p} |-> stored[q]]
  BY <1>1 DEF stored
<1>3. UNCHANGED <<held, data>> /\ next_lsn' = next_lsn
  BY DEF Unlink, pool, log
<1> QED BY <1>2, <1>3, ViewsSame DEF Store!Drop, stored, views

\* Flushes, deletions of pages nobody refers to and log writes are not seen.
LEMMA StoreStutter ==
    ASSUME IInv, (\E p \in Page : FlushPage(p) \/ DeletePage(p)) \/ FlushLog \/ UNCHANGED vars
    PROVE  UNCHANGED <<stored, next_lsn, views>>
<1>1. live' = live /\ \A q \in live : Content(q)' = Content(q)
  BY FlushPageInv, DeletePageInv, FlushLogInv, StutterInv
<1>2. UNCHANGED <<held, data>> /\ next_lsn' = next_lsn
  BY DEF FlushPage, DeletePage, FlushLog, vars, pool, log, clients
<1>3. stored' = stored
  BY <1>1 DEF stored
<1> QED BY <1>2, <1>3, ViewsSame

LEMMA StoreStep ==
    ASSUME IInv, [Next]_vars
    PROVE  [Store!Next]_<<stored, next_lsn, views>>
<1>1. ASSUME NEW c \in Client, NEW p \in Page,
             FetchHit(c, p) \/ FetchMiss(c, p) \/ WriteData(c, p)
                \/ \E dirty \in BOOLEAN : UnpinPage(c, p, dirty)
      PROVE  Store!Next
  <2>1. Store!Fetch(c, p) \/ Store!Write(c, p) \/ Store!Unpin(c, p)
    BY <1>1, StoreFetch, StoreWrite, StoreUnpin
  <2> QED BY <2>1 DEF Store!Next
<1>2. ASSUME NEW c \in Client, NewPage(c) PROVE Store!Next
  BY <1>2, StoreNew DEF Store!Next
<1>3. ASSUME NEW p \in Page, Unlink(p) PROVE Store!Next
  BY <1>3, StoreDrop DEF Store!Next
<1> QED BY <1>1, <1>2, <1>3, StoreStutter DEF Next

\* For every pool size and any number of clients: a client that fetches a page
\* sees the content last written to it, however the pool has moved it between
\* its frames and the file (FetchPage, UnpinPage, FlushPage, NewPage,
\* DeletePage), and as long as it holds the page only a client's write changes
\* what it sees; evictions, flushes and log writes cannot be seen.
THEOREM PoolIsPageStore == Spec => StoreSpec
<1>1. IInv /\ [Next]_vars => [Store!Next]_Store!store_vars
  BY StoreStep DEF Store!store_vars, stored, views
<1> QED BY Invariance, StoreInit, <1>1, PTL DEF Spec, StoreSpec, Store!Spec

-----------------------------------------------------------------------------
(* The reader-writer latch.                                                *)

\* reader_count_ counts the readers inside, the flag stands for one entered
\* writer, and a writer holds the latch only when no reader does.
RWInv ==
    /\ RWTypeOK
    /\ IsFiniteSet(Reading) /\ reader_count = Cardinality(Reading)
    /\ writer_entered <=> Entered # {}
    /\ \A t, u \in Entered : t = u
    /\ Writing # {} => reader_count = 0

Asleep == AsleepOnReader \cup AsleepOnWriter

\* The sets after thread t went to p and sleeping threads woke up.
Moved(t, p) ==
    /\ pc' \in [Thread -> Place]
    /\ p = "reading" => Reading' = Reading \cup {t}
    /\ p # "reading" => Reading' = Reading \ {t}
    /\ p = "writing" => Writing' = Writing \cup {t}
    /\ p # "writing" => Writing' = Writing \ {t}
    /\ p \in {"drain", "drain_wait", "writing"} => Entered' = Entered \cup {t}
    /\ p \notin {"drain", "drain_wait", "writing"} => Entered' = Entered \ {t}

\* A step moves its own thread and wakes sleeping ones; only the former
\* changes who holds the latch and who has entered.
LEMMA MoveSets ==
    ASSUME RWTypeOK, NEW t \in Thread, NEW p \in Place, NEW W \in SUBSET Asleep,
           pc' = Move(t, p, W)
    PROVE  Moved(t, p)
<1>1. \A u \in Thread : pc[u] \in Place /\ Awake(pc[u]) \in Place
  BY DEF RWTypeOK, Awake, Place
<1>2. \A u \in W : /\ pc[u] \in {"enter_wait", "read_wait", "drain_wait"}
                   /\ Awake(pc[u]) = "enter" \/ Awake(pc[u]) = "read" \/ Awake(pc[u]) = "drain"
                   /\ pc[u] = "drain_wait" <=> Awake(pc[u]) = "drain"
  BY DEF Asleep, AsleepOnReader, AsleepOnWriter, Awake
<1>3. pc' \in [Thread -> Place]
  BY <1>1 DEF Move
<1>4. /\ pc'[t] = p
      /\ \A u \in Thread : u # t /\ u \notin W => pc'[u] = pc[u]
      /\ \A u \in W : u # t => pc'[u] = Awake(pc[u])
  BY DEF Move, Asleep, AsleepOnReader, AsleepOnWriter
<1>5. W \subseteq Thread
  BY DEF Asleep, AsleepOnReader, AsleepOnWriter
<1>6. \A u \in Thread \ {t} : /\ pc'[u] = "reading" <=> pc[u] = "reading"
                              /\ pc'[u] = "writing" <=> pc[u] = "writing"
                              /\ pc'[u] \in {"drain", "drain_wait", "writing"} <=>
                                 pc[u] \in {"drain", "drain_wait", "writing"}
  BY <1>2, <1>4, <1>5
<1>7. /\ p = "reading" => Reading' = Reading \cup {t}
      /\ p # "reading" => Reading' = Reading \ {t}
  BY <1>4, <1>6 DEF Reading
<1>8. /\ p = "writing" => Writing' = Writing \cup {t}
      /\ p # "writing" => Writing' = Writing \ {t}
  BY <1>4, <1>6 DEF Writing
<1>9. /\ p \in {"drain", "drain_wait", "writing"} => Entered' = Entered \cup {t}
      /\ p \notin {"drain", "drain_wait", "writing"} => Entered' = Entered \ {t}
  BY <1>4, <1>6 DEF Entered
<1> QED BY <1>3, <1>7, <1>8, <1>9 DEF Moved

LEMMA InitIInv == RWInit => RWInv
<1> SUFFICES ASSUME RWInit PROVE RWInv
  OBVIOUS
<1>1. RWTypeOK
  <2>1. reader_count \in 0..max_readers
    BY MaxReadersAssumption DEF RWInit
  <2>2. writer_entered \in BOOLEAN
    BY ZenonT(60) DEF RWInit
  <2>3. pc \in [Thread -> Place]
    BY DEF RWInit, Place
  <2> QED BY <2>1, <2>2, <2>3, ZenonT(60) DEF RWTypeOK
<1>2. Reading = {} /\ Writing = {} /\ Entered = {}
  BY DEF RWInit, Reading, Writing, Entered
<1>3. IsFiniteSet(Reading) /\ Cardinality(Reading) = 0
  BY <1>2, FS_EmptySet
<1> QED BY <1>1, <1>2, <1>3 DEF RWInv, RWInit

LEMMA WritersEntered ==
    ASSUME RWInv
    PROVE  /\ Writing \subseteq Entered
           /\ reader_count \in Nat
           /\ reader_count = 0 <=> Reading = {}
           /\ ~writer_entered => Writing = {}
<1>1. Writing \subseteq Entered
  BY DEF Writing, Entered
<1>2. reader_count \in Nat
  BY DEF RWInv, RWTypeOK
<1>3. reader_count = 0 <=> Reading = {}
  BY FS_EmptySet DEF RWInv
<1> QED BY <1>1, <1>2, <1>3 DEF RWInv

\* The effect of each step on the counter, the flag and the three sets.
LEMMA StepEffect ==
    ASSUME RWInv, NEW t \in Thread, Step(t) \/ SpuriousWakeup(t)
    PROVE  /\ pc' \in [Thread -> Place]
           /\ \/ UNCHANGED <<reader_count, writer_entered, Reading, Writing, Entered>>
              \/ /\ ~writer_entered /\ writer_entered' /\ UNCHANGED <<reader_count, Reading>>
                 /\ Entered' = {t}
                 /\ Writing' = IF reader_count > 0 THEN {} ELSE {t}
              \/ /\ UNCHANGED <<reader_count, writer_entered, Reading, Entered>>
                 /\ t \in Entered /\ reader_count = 0 /\ Writing' = {t}
              \/ /\ Writing = {t} /\ writer_entered' = FALSE
                 /\ UNCHANGED <<reader_count, Reading>>
                 /\ Entered' = {} /\ Writing' = {}
              \/ /\ ~writer_entered /\ reader_count # max_readers
                 /\ UNCHANGED <<writer_entered, Writing, Entered>>
                 /\ reader_count' = reader_count + 1
                 /\ t \notin Reading /\ Reading' = Reading \cup {t}
              \/ /\ UNCHANGED <<writer_entered, Writing, Entered>>
                 /\ reader_count' = reader_count - 1
                 /\ t \in Reading /\ Reading' = Reading \ {t}
<1>0. RWTypeOK
  BY DEF RWInv
<1>w. {} \in SUBSET Asleep /\ AsleepOnReader \in SUBSET Asleep /\ AsleepOnWriter \in SUBSET Asleep
  BY DEF Asleep
<1>1. CASE WLock(t)
  <2>1. pc[t] \notin {"reading", "writing", "drain", "drain_wait"}
    BY <1>1 DEF WLock
  <2>2. t \notin Reading /\ t \notin Writing /\ t \notin Entered
    BY <2>1 DEF Reading, Writing, Entered
  <2>3. CASE writer_entered
    <3>1. pc' = Move(t, "enter_wait", {}) /\ UNCHANGED <<reader_count, writer_entered>>
      BY <1>1, <2>3 DEF WLock
    <3>2. "enter_wait" \in Place
      BY DEF Place
    <3>3. /\ pc' \in [Thread -> Place] /\ Reading' = Reading
          /\ Writing' = Writing /\ Entered' = Entered
      <4>m. Moved(t, "enter_wait")
        BY <3>1, <3>2, <2>2, <1>0, <1>w, MoveSets, ZenonT(60)
      <4> QED BY <4>m, <3>1, <3>2, <2>2 DEF Moved
    <3> QED BY <3>1, <3>3
  <2>4. CASE ~writer_entered
    <3>1. /\ writer_entered' = TRUE /\ UNCHANGED reader_count
          /\ pc' = Move(t, IF reader_count > 0 THEN "drain_wait" ELSE "writing", {})
      BY <1>1, <2>4 DEF WLock
    <3>2. Entered = {} /\ Writing = {}
      <4>1. Entered = {}
        BY <2>4, ZenonT(60) DEF RWInv
      <4> QED BY <4>1, WritersEntered
    <3>3. CASE reader_count > 0
      <4>1. pc' = Move(t, "drain_wait", {}) /\ "drain_wait" \in Place
        BY <3>1, <3>3 DEF Place
      <4>2. /\ pc' \in [Thread -> Place] /\ Reading' = Reading
            /\ Writing' = {} /\ Entered' = {t}
        <5>m. Moved(t, "drain_wait")
          BY <4>1, <3>2, <2>2, <1>0, <1>w, MoveSets, ZenonT(60)
        <5> QED BY <5>m, <4>1, <3>2, <2>2 DEF Moved
      <4> QED BY ZenonT(60), <4>2, <3>1, <3>3, <2>4
    <3>4. CASE ~(reader_count > 0)
      <4>1. pc' = Move(t, "writing", {}) /\ "writing" \in Place
        BY <3>1, <3>4 DEF Place
      <4>2. /\ pc' \in [Thread -> Place] /\ Reading' = Reading
            /\ Writing' = {t} /\ Entered' = {t}
        <5>m. Moved(t, "writing")
          BY <4>1, <3>2, <2>2, <1>0, <1>w, MoveSets, ZenonT(60)
        <5> QED BY <5>m, <4>1, <3>2, <2>2 DEF Moved
      <4> QED BY ZenonT(60), <4>2, <3>1, <3>4, <2>4
    <3> QED BY ZenonT(60), <3>3, <3>4
  <2> QED BY ZenonT(60), <2>3, <2>4
<1>2. CASE Drain(t)
  <2>1. t \notin Reading /\ t \notin Writing /\ t \in Entered
    BY <1>2 DEF Drain, Reading, Writing, Entered
  <2>2. Writing = {}
    <3>1. \A u \in Entered : u = t
      BY <2>1, ZenonT(60) DEF RWInv
    <3> QED BY <3>1, <2>1, WritersEntered
  <2>3. UNCHANGED <<reader_count, writer_entered>>
    BY <1>2 DEF Drain
  <2>4. CASE reader_count > 0
    <3>1. pc' = Move(t, "drain_wait", {}) /\ "drain_wait" \in Place
      BY <1>2, <2>4 DEF Drain, Place
    <3>2. /\ pc' \in [Thread -> Place] /\ Reading' = Reading
          /\ Writing' = Writing /\ Entered' = Entered
      <4>m. Moved(t, "drain_wait")
        BY <3>1, <2>1, <1>0, <1>w, MoveSets, ZenonT(60)
      <4> QED BY <4>m, <3>1, <2>1 DEF Moved
    <3> QED BY <3>2, <2>3
  <2>5. CASE ~(reader_count > 0)
    <3>1. pc' = Move(t, "writing", {}) /\ "writing" \in Place
      BY <1>2, <2>5 DEF Drain, Place
    <3>2. reader_count = 0
      BY <2>5, WritersEntered
    <3>3. /\ pc' \in [Thread -> Place] /\ Reading' = Reading
          /\ Writing' = {t} /\ Entered' = Entered
      <4>m. Moved(t, "writing")
        BY <3>1, <2>1, <2>2, <1>0, <1>w, MoveSets, ZenonT(60)
      <4> QED BY <4>m, <3>1, <2>1, <2>2 DEF Moved
    <3> QED BY <3>2, <3>3, <2>1, <2>3
  <2> QED BY ZenonT(60), <2>4, <2>5
<1>3. CASE WUnlock(t)
  <2>1. t \notin Reading /\ t \in Writing /\ t \in Entered
    BY <1>3 DEF WUnlock, Reading, Writing, Entered
  <2>2. Entered = {t} /\ Writing = {t}
    <3>1. \A u \in Entered : u = t
      BY <2>1, ZenonT(60) DEF RWInv
    <3> QED BY <3>1, <2>1, WritersEntered
  <2>3. /\ writer_entered' = FALSE /\ UNCHANGED reader_count
        /\ pc' = Move(t, "out", AsleepOnReader) /\ "out" \in Place
    BY <1>3 DEF WUnlock, Place
  <2>4. /\ pc' \in [Thread -> Place] /\ Reading' = Reading
        /\ Writing' = {} /\ Entered' = {}
    <3>m. Moved(t, "out")
      BY <2>1, <2>2, <2>3, <1>0, <1>w, MoveSets, ZenonT(60)
    <3> QED BY <3>m, <2>1, <2>2, <2>3 DEF Moved
  <2> QED BY <2>2, <2>3, <2>4
<1>4. CASE RLock(t)
  <2>1. t \notin Reading /\ t \notin Writing /\ t \notin Entered
    BY <1>4 DEF RLock, Reading, Writing, Entered
  <2>2. CASE writer_entered \/ reader_count = max_readers
    <3>1. /\ pc' = Move(t, "read_wait", {}) /\ "read_wait" \in Place
          /\ UNCHANGED <<reader_count, writer_entered>>
      BY <1>4, <2>2 DEF RLock, Place
    <3>2. /\ pc' \in [Thread -> Place] /\ Reading' = Reading
          /\ Writing' = Writing /\ Entered' = Entered
      <4>m. Moved(t, "read_wait")
        BY <3>1, <2>1, <1>0, <1>w, MoveSets, ZenonT(60)
      <4> QED BY <4>m, <3>1, <2>1 DEF Moved
    <3> QED BY <3>1, <3>2
  <2>3. CASE ~(writer_entered \/ reader_count = max_readers)
    <3>1. /\ pc' = Move(t, "reading", {}) /\ "reading" \in Place
          /\ reader_count' = reader_count + 1 /\ UNCHANGED writer_entered
      BY <1>4, <2>3 DEF RLock, Place
    <3>2. /\ pc' \in [Thread -> Place] /\ Reading' = Reading \cup {t}
          /\ Writing' = Writing /\ Entered' = Entered
      <4>m. Moved(t, "reading")
        BY <3>1, <2>1, <1>0, <1>w, MoveSets, ZenonT(60)
      <4> QED BY <4>m, <3>1, <2>1 DEF Moved
    <3> QED BY <3>1, <3>2, <2>1, <2>3
  <2> QED BY ZenonT(60), <2>2, <2>3
<1>5. CASE RUnlock(t)
  <2>1. t \in Reading /\ t \notin Writing /\ t \notin Entered
    BY <1>5 DEF RUnlock, Reading, Writing, Entered
  <2>2. PICK W \in LeaveNotifies : pc' = Move(t, "out", W)
    BY <1>5 DEF RUnlock
  <2>3. W \in SUBSET Asleep /\ "out" \in Place
    BY DEF LeaveNotifies, NotifyOne, Asleep, Place
  <2>4. reader_count' = reader_count - 1 /\ UNCHANGED writer_entered
    BY <1>5 DEF RUnlock
  <2>5. /\ pc' \in [Thread -> Place] /\ Reading' = Reading \ {t}
        /\ Writing' = Writing /\ Entered' = Entered
    <3>m. Moved(t, "out")
      BY <2>1, <2>2, <2>3, <1>0, MoveSets, ZenonT(60)
    <3> QED BY <3>m, <2>1, <2>2, <2>3 DEF Moved
  <2> QED BY <2>1, <2>4, <2>5
<1>6. CASE SpuriousWakeup(t)
  <2>1. /\ pc' = Move(t, Awake(pc[t]), {})
        /\ pc[t] \in {"enter_wait", "read_wait", "drain_wait"}
        /\ UNCHANGED <<reader_count, writer_entered>>
    BY <1>6 DEF SpuriousWakeup, AsleepOnReader, AsleepOnWriter
  <2>2. t \notin Reading /\ t \notin Writing /\ (t \in Entered <=> pc[t] = "drain_wait")
    BY <2>1 DEF Reading, Writing, Entered
  <2>3. /\ Awake(pc[t]) \in Place \ {"reading", "writing"}
        /\ Awake(pc[t]) \in {"drain", "drain_wait", "writing"} <=> pc[t] = "drain_wait"
    BY <2>1 DEF Awake, Place
  <2>4. /\ pc' \in [Thread -> Place] /\ Reading' = Reading
        /\ Writing' = Writing /\ Entered' = Entered
    <3>m. Moved(t, Awake(pc[t]))
      BY <2>1, <2>2, <2>3, <1>0, <1>w, MoveSets, ZenonT(60)
    <3> QED BY <3>m, <2>1, <2>2, <2>3 DEF Moved
  <2> QED BY <2>1, <2>4
<1> QED BY ZenonT(60), <1>1, <1>2, <1>3, <1>4, <1>5, <1>6 DEF Step

LEMMA StepIInv ==
    ASSUME RWInv, NEW t \in Thread, Step(t) \/ SpuriousWakeup(t)
    PROVE  RWInv'
<1>1. /\ IsFiniteSet(Reading) /\ reader_count = Cardinality(Reading)
      /\ reader_count \in 0..max_readers /\ max_readers \in Nat
      /\ writer_entered \in BOOLEAN
  BY MaxReadersAssumption DEF RWInv, RWTypeOK
<1>2. pc' \in [Thread -> Place]
  BY ZenonT(60), StepEffect
<1>3. CASE UNCHANGED <<reader_count, writer_entered, Reading, Writing, Entered>>
  BY <1>2, <1>3, ZenonT(60) DEF RWInv, RWTypeOK
<1>4. CASE /\ ~writer_entered /\ writer_entered' /\ UNCHANGED <<reader_count, Reading>>
           /\ Entered' = {t}
           /\ Writing' = IF reader_count > 0 THEN {} ELSE {t}
  <2>1. RWTypeOK'
    BY <1>1, <1>2, <1>4, StepEffect DEF RWTypeOK, Step, WLock, Drain, WUnlock, RLock, RUnlock,
       SpuriousWakeup, RWInv
  <2>2. Writing' # {} => reader_count' = 0
    BY <1>1, <1>4
  <2>3. (writer_entered <=> Entered # {})' /\ (\A v, u \in Entered : v = u)'
    BY <1>4, ZenonT(60)
  <2>4. (IsFiniteSet(Reading) /\ reader_count = Cardinality(Reading))'
    BY <1>1, <1>4
  <2> QED BY <2>1, <2>2, <2>3, <2>4, ZenonT(60) DEF RWInv
<1>5. CASE /\ UNCHANGED <<reader_count, writer_entered, Reading, Entered>>
           /\ t \in Entered /\ reader_count = 0 /\ Writing' = {t}
  BY <1>2, <1>5, ZenonT(60) DEF RWInv, RWTypeOK
<1>6. CASE /\ Writing = {t} /\ writer_entered' = FALSE
           /\ UNCHANGED <<reader_count, Reading>>
           /\ Entered' = {} /\ Writing' = {}
  BY <1>2, <1>6, ZenonT(60) DEF RWInv, RWTypeOK
<1>7. CASE /\ ~writer_entered /\ reader_count # max_readers
           /\ UNCHANGED <<writer_entered, Writing, Entered>>
           /\ reader_count' = reader_count + 1
           /\ t \notin Reading /\ Reading' = Reading \cup {t}
  <2>1. reader_count' \in 0..max_readers
    BY <1>1, <1>7
  <2>2. IsFiniteSet(Reading') /\ reader_count' = Cardinality(Reading')
    BY <1>1, <1>7, FS_AddElement
  <2>3. Writing = {}
    BY <1>7, WritersEntered
  <2> QED BY <2>1, <2>2, <2>3, <1>2, <1>7, ZenonT(60) DEF RWInv, RWTypeOK
<1>8. CASE /\ UNCHANGED <<writer_entered, Writing, Entered>>
           /\ reader_count' = reader_count - 1
           /\ t \in Reading /\ Reading' = Reading \ {t}
  <2>1. reader_count # 0
    BY <1>8, WritersEntered
  <2>2. reader_count' \in 0..max_readers
    BY <1>1, <1>8, <2>1
  <2>3. IsFiniteSet(Reading') /\ reader_count' = Cardinality(Reading')
    BY <1>1, <1>8, FS_RemoveElement
  <2>4. Writing = {}
    BY <2>1 DEF RWInv
  <2> QED BY <2>2, <2>3, <2>4, <1>2, <1>8, ZenonT(60) DEF RWInv, RWTypeOK
<1> QED BY ZenonT(60), <1>3, <1>4, <1>5, <1>6, <1>7, <1>8, StepEffect

LEMMA NextIInv == RWInv /\ [RWNext]_rwVars => RWInv'
<1> SUFFICES ASSUME RWInv, [RWNext]_rwVars PROVE RWInv'
  OBVIOUS
<1>1. CASE RWNext
  BY <1>1, StepIInv DEF RWNext
<1>2. CASE UNCHANGED rwVars
  BY <1>2, ZenonT(60) DEF rwVars, RWInv, RWTypeOK, Reading, Writing, Entered
<1> QED BY <1>1, <1>2

\* The counter stays within its type and the places are the ones of the code.
THEOREM RWTypeCorrect == RWSpec => []RWTypeOK
<1>1. RWInv => RWTypeOK
  BY DEF RWInv
<1> QED BY <1>1, InitIInv, NextIInv, PTL DEF RWSpec

LEMMA InitLatch == RWInit => LatchImplemented!Init
BY DEF RWInit, LatchImplemented!Init, Reading, Writing

LEMMA StepLatch ==
    ASSUME RWInv, NEW t \in Thread, Step(t) \/ SpuriousWakeup(t)
    PROVE  LatchImplemented!Next \/ UNCHANGED LatchImplemented!vars
<1> USE DEF LatchImplemented!vars
<1> SUFFICES \/ LatchImplemented!RLatch(t) \/ LatchImplemented!RUnlatch(t)
             \/ LatchImplemented!WLatch(t) \/ LatchImplemented!WUnlatch(t)
             \/ UNCHANGED LatchImplemented!vars
  BY DEF LatchImplemented!Next
<1>3. CASE UNCHANGED <<reader_count, writer_entered, Reading, Writing, Entered>>
  BY <1>3
<1>4. CASE /\ ~writer_entered /\ writer_entered' /\ UNCHANGED <<reader_count, Reading>>
           /\ Entered' = {t}
           /\ Writing' = IF reader_count > 0 THEN {} ELSE {t}
  <2>1. Writing = {} /\ reader_count \in Nat
    BY <1>4, WritersEntered
  <2>2. CASE reader_count > 0
    BY <2>1, <2>2, <1>4
  <2>3. CASE reader_count = 0
    <3>1. Reading = {} /\ Writing' = {t}
      BY <2>3, <1>4, WritersEntered
    <3> QED BY <3>1, <2>1, <1>4 DEF LatchImplemented!WLatch
  <2> QED BY <2>1, <2>2, <2>3
<1>5. CASE /\ UNCHANGED <<reader_count, writer_entered, Reading, Entered>>
           /\ t \in Entered /\ reader_count = 0 /\ Writing' = {t}
  <2>1. Reading = {} /\ Writing \subseteq Entered
    BY <1>5, WritersEntered
  <2>2. Writing = {} \/ Writing = {t}
    BY <2>1, <1>5, ZenonT(60) DEF RWInv
  <2> QED BY <2>1, <2>2, <1>5 DEF LatchImplemented!WLatch
<1>6. CASE /\ Writing = {t} /\ writer_entered' = FALSE
           /\ UNCHANGED <<reader_count, Reading>>
           /\ Entered' = {} /\ Writing' = {}
  BY <1>6 DEF LatchImplemented!WUnlatch
<1>7. CASE /\ ~writer_entered /\ reader_count # max_readers
           /\ UNCHANGED <<writer_entered, Writing, Entered>>
           /\ reader_count' = reader_count + 1
           /\ t \notin Reading /\ Reading' = Reading \cup {t}
  <2>1. Writing = {}
    BY <1>7, WritersEntered
  <2> QED BY <2>1, <1>7 DEF LatchImplemented!RLatch
<1>8. CASE /\ UNCHANGED <<writer_entered, Writing, Entered>>
           /\ reader_count' = reader_count - 1
           /\ t \in Reading /\ Reading' = Reading \ {t}
  BY <1>8 DEF LatchImplemented!RUnlatch
<1> QED BY ZenonT(60), <1>3, <1>4, <1>5, <1>6, <1>7, <1>8, StepEffect

\* RLock, RUnlock, WLock and WUnlock implement readers-or-one-writer
\* exclusion for any number of threads.
THEOREM LatchCorrect == RWSpec => LatchSpec
<1>1. RWInv /\ [RWNext]_rwVars => [LatchImplemented!Next]_LatchImplemented!vars
  <2> SUFFICES ASSUME RWInv, [RWNext]_rwVars
               PROVE  LatchImplemented!Next \/ UNCHANGED LatchImplemented!vars
    OBVIOUS
  <2>1. CASE RWNext
    BY <2>1, StepLatch DEF RWNext
  <2>2. CASE UNCHANGED rwVars
    BY <2>2 DEF rwVars, LatchImplemented!vars, Reading, Writing
  <2> QED BY <2>1, <2>2
<1> QED BY <1>1, InitLatch, InitIInv, NextIInv, PTL DEF RWSpec, LatchSpec, LatchImplemented!Spec

-----------------------------------------------------------------------------
(* Wakeups.                                                                *)

\* max_readers_ is UINT_MAX: there are never as many threads waiting as it
\* would take for a reader to find the latch full.
FewThreads == IsFiniteSet(Thread) /\ Cardinality(Thread) <= max_readers

\* Who sleeps after thread t went to p and the threads of W woke up.
MovedAsleep(t, p, W) ==
    /\ p \in {"enter_wait", "read_wait"} => AsleepOnReader' = (AsleepOnReader \ W) \cup {t}
    /\ p \notin {"enter_wait", "read_wait"} => AsleepOnReader' = (AsleepOnReader \ W) \ {t}
    /\ p = "drain_wait" => AsleepOnWriter' = (AsleepOnWriter \ W) \cup {t}
    /\ p # "drain_wait" => AsleepOnWriter' = (AsleepOnWriter \ W) \ {t}

LEMMA MoveAsleep ==
    ASSUME NEW t \in Thread, NEW p \in Place, NEW W \in SUBSET Asleep,
           pc' = Move(t, p, W)
    PROVE  MovedAsleep(t, p, W)
<1>1. W \subseteq Thread
  BY DEF Asleep, AsleepOnReader, AsleepOnWriter
<1>2. /\ pc'[t] = p
      /\ \A u \in Thread : u # t /\ u \notin W => pc'[u] = pc[u]
      /\ \A u \in W : u # t => pc'[u] = Awake(pc[u])
  BY <1>1 DEF Move
<1>3. \A u \in W : Awake(pc[u]) \in {"enter", "read", "drain"}
  BY DEF Asleep, AsleepOnReader, AsleepOnWriter, Awake
<1>4. \A u \in Thread \ {t} :
        /\ pc'[u] \in {"enter_wait", "read_wait"} <=>
           pc[u] \in {"enter_wait", "read_wait"} /\ u \notin W
        /\ pc'[u] = "drain_wait" <=> pc[u] = "drain_wait" /\ u \notin W
  BY <1>2, <1>3
<1> QED BY <1>2, <1>4 DEF MovedAsleep, AsleepOnReader, AsleepOnWriter

LEMMA StepWakeup ==
    ASSUME FewThreads, RWInv, NoLostWakeup, NEW t \in Thread, Step(t) \/ SpuriousWakeup(t)
    PROVE  NoLostWakeup'
<1>w. {} \in SUBSET Asleep /\ AsleepOnReader \in SUBSET Asleep /\ AsleepOnWriter \in SUBSET Asleep
  BY DEF Asleep
<1>1. CASE WLock(t)
  <2>1. CASE writer_entered
    <3>1. /\ pc' = Move(t, "enter_wait", {}) /\ "enter_wait" \in Place
          /\ UNCHANGED <<reader_count, writer_entered>>
      BY <1>1, <2>1 DEF WLock, Place
    <3>2. MovedAsleep(t, "enter_wait", {})
      BY <3>1, <1>w, MoveAsleep, ZenonT(60)
    <3>3. AsleepOnWriter' \subseteq AsleepOnWriter
      BY <3>2 DEF MovedAsleep
    <3> QED BY <3>1, <3>3, <2>1 DEF NoLostWakeup
  <2>2. CASE ~writer_entered
    <3>1. /\ writer_entered' = TRUE /\ UNCHANGED reader_count
          /\ pc' = Move(t, IF reader_count > 0 THEN "drain_wait" ELSE "writing", {})
      BY <1>1, <2>2 DEF WLock
    <3>2. CASE reader_count > 0
      BY <3>1, <3>2 DEF NoLostWakeup
    <3>3. CASE ~(reader_count > 0)
      <4>1. pc' = Move(t, "writing", {}) /\ "writing" \in Place
        BY <3>1, <3>3 DEF Place
      <4>2. MovedAsleep(t, "writing", {})
        BY <4>1, <1>w, MoveAsleep, ZenonT(60)
      <4>3. AsleepOnWriter' \subseteq AsleepOnWriter
        BY <4>2 DEF MovedAsleep
      <4> QED BY <4>3, <3>1 DEF NoLostWakeup
    <3> QED BY <3>2, <3>3
  <2> QED BY <2>1, <2>2
<1>2. CASE Drain(t)
  <2>1. UNCHANGED <<reader_count, writer_entered>>
    BY <1>2 DEF Drain
  <2>2. PICK p \in {"drain_wait", "writing"} :
          pc' = Move(t, p, {}) /\ (p = "drain_wait" => reader_count > 0)
    BY <1>2 DEF Drain
  <2>3. p \in Place
    BY DEF Place
  <2>4. MovedAsleep(t, p, {})
    BY <2>2, <2>3, <1>w, MoveAsleep, ZenonT(60)
  <2>5. AsleepOnReader' \subseteq AsleepOnReader
    BY <2>4 DEF MovedAsleep
  <2>6. p = "writing" => AsleepOnWriter' \subseteq AsleepOnWriter
    BY <2>4 DEF MovedAsleep
  <2> QED BY <2>1, <2>2, <2>5, <2>6 DEF NoLostWakeup
<1>3. CASE WUnlock(t)
  <2>1. pc' = Move(t, "out", AsleepOnReader) /\ "out" \in Place /\ UNCHANGED reader_count
    BY <1>3 DEF WUnlock, Place
  <2>2. MovedAsleep(t, "out", AsleepOnReader)
    BY <2>1, <1>w, MoveAsleep, ZenonT(60)
  <2>3. AsleepOnReader' = {} /\ AsleepOnWriter' \subseteq AsleepOnWriter
    BY <2>2 DEF MovedAsleep
  <2> QED BY <2>1, <2>3 DEF NoLostWakeup
<1>4. CASE RLock(t)
  <2>1. UNCHANGED writer_entered
    BY <1>4 DEF RLock
  <2>2. CASE writer_entered \/ reader_count = max_readers
    <3>1. reader_count # max_readers
      <4>1. Reading \in SUBSET Thread /\ t \notin Reading
        BY <1>4 DEF Reading, RLock
      <4>2. /\ Cardinality(Reading) <= Cardinality(Thread)
            /\ Cardinality(Thread) = Cardinality(Reading) => Thread = Reading
        BY <4>1, FS_Subset, ZenonT(60) DEF FewThreads
      <4>3. Cardinality(Thread) \in Nat /\ max_readers \in Nat
        BY FS_CardinalityType, MaxReadersAssumption DEF FewThreads
      <4>4. reader_count = Cardinality(Reading) /\ reader_count \in Nat
        BY WritersEntered DEF RWInv
      <4> QED BY <4>1, <4>2, <4>3, <4>4 DEF FewThreads
    <3>2. writer_entered
      BY <2>2, <3>1
    <3>3. pc' = Move(t, "read_wait", {}) /\ "read_wait" \in Place /\ UNCHANGED reader_count
      BY <1>4, <2>2 DEF RLock, Place
    <3>4. MovedAsleep(t, "read_wait", {})
      BY <3>3, <1>w, MoveAsleep, ZenonT(60)
    <3>5. AsleepOnWriter' \subseteq AsleepOnWriter
      BY <3>4 DEF MovedAsleep
    <3> QED BY <3>2, <3>3, <3>5, <2>1 DEF NoLostWakeup
  <2>3. CASE ~(writer_entered \/ reader_count = max_readers)
    <3>1. pc' = Move(t, "reading", {}) /\ "reading" \in Place /\ reader_count' = reader_count + 1
      BY <1>4, <2>3 DEF RLock, Place
    <3>2. MovedAsleep(t, "reading", {})
      BY <3>1, <1>w, MoveAsleep, ZenonT(60)
    <3>3. AsleepOnReader' \subseteq AsleepOnReader
      BY <3>2 DEF MovedAsleep
    <3>4. reader_count' > 0
      BY <3>1, WritersEntered
    <3> QED BY <3>3, <3>4, <2>1 DEF NoLostWakeup
  <2> QED BY <2>2, <2>3
<1>5. CASE RUnlock(t)
  <2>1. reader_count' = reader_count - 1 /\ UNCHANGED writer_entered
    BY <1>5 DEF RUnlock
  <2>2. PICK W \in LeaveNotifies : pc' = Move(t, "out", W)
    BY <1>5 DEF RUnlock
  <2>3. W \in SUBSET Asleep /\ "out" \in Place
    BY DEF LeaveNotifies, NotifyOne, Asleep, Place
  <2>4. MovedAsleep(t, "out", W)
    BY <2>2, <2>3, MoveAsleep, ZenonT(60)
  <2>5. /\ AsleepOnReader' \subseteq AsleepOnReader
        /\ AsleepOnWriter' \subseteq AsleepOnWriter \ W
    BY <2>4 DEF MovedAsleep
  <2>6. reader_count \in Nat /\ reader_count # 0
    BY <1>5, WritersEntered DEF RUnlock, Reading
  <2>7. CASE reader_count = 1 /\ AsleepOnWriter # {}
    <3>1. AsleepOnWriter \subseteq Entered
      BY DEF AsleepOnWriter, Entered
    <3>2. writer_entered /\ \A u, v \in AsleepOnWriter : u = v
      BY <3>1, <2>7, ZenonT(60) DEF RWInv
    <3>3. \E u \in AsleepOnWriter : W = {u}
      BY <3>2, <2>2, <2>7 DEF LeaveNotifies, NotifyOne
    <3>4. AsleepOnWriter' = {}
      BY <3>2, <3>3, <2>5
    <3> QED BY <3>4, <2>1, <2>5 DEF NoLostWakeup
  <2>8. CASE ~(reader_count = 1 /\ AsleepOnWriter # {})
    <3>1. AsleepOnWriter' # {} => reader_count' > 0
      BY <2>1, <2>5, <2>6, <2>8
    <3> QED BY <3>1, <2>1, <2>5 DEF NoLostWakeup
  <2> QED BY <2>7, <2>8
<1>6. CASE SpuriousWakeup(t)
  <2>1. /\ pc' = Move(t, Awake(pc[t]), {}) /\ UNCHANGED <<reader_count, writer_entered>>
        /\ Awake(pc[t]) \in {"enter", "read", "drain"}
    BY <1>6 DEF SpuriousWakeup, AsleepOnReader, AsleepOnWriter, Awake
  <2>2. PICK p \in {"enter", "read", "drain"} : pc' = Move(t, p, {})
    BY <2>1
  <2>3. p \in Place
    BY DEF Place
  <2>4. MovedAsleep(t, p, {})
    BY <2>2, <2>3, <1>w, MoveAsleep, ZenonT(60)
  <2>5. AsleepOnReader' \subseteq AsleepOnReader /\ AsleepOnWriter' \subseteq AsleepOnWriter
    BY <2>4 DEF MovedAsleep
  <2> QED BY <2>1, <2>5 DEF NoLostWakeup
<1> QED BY <1>1, <1>2, <1>3, <1>4, <1>5, <1>6 DEF Step

\* notify_all in WUnlock and notify_one in RUnlock wake everybody who can go
\* on, for any number of threads below max_readers_.
THEOREM NoLostWakeups == FewThreads => (RWSpec => []NoLostWakeup)
<1> SUFFICES ASSUME FewThreads PROVE RWSpec => []NoLostWakeup
  OBVIOUS
<1>1. RWInit => NoLostWakeup
  BY DEF RWInit, NoLostWakeup, AsleepOnReader, AsleepOnWriter
<1>2. RWInv /\ NoLostWakeup /\ [RWNext]_rwVars => NoLostWakeup'
  <2> SUFFICES ASSUME RWInv, NoLostWakeup, [RWNext]_rwVars PROVE NoLostWakeup'
    OBVIOUS
  <2>1. CASE RWNext
    BY <2>1, StepWakeup DEF RWNext
  <2>2. CASE UNCHANGED rwVars
    BY <2>2 DEF rwVars, NoLostWakeup, AsleepOnReader, AsleepOnWriter
  <2> QED BY <2>1, <2>2
<1> QED BY <1>1, <1>2, InitIInv, NextIInv, PTL DEF RWSpec
=============================================================================
