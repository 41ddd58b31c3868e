------------------------------- MODULE Latch ---------------------------------
(***************************************************************************)
(* What the pages' users expect of Page::RLatch and Page::WLatch: a set of *)
(* readers or one writer.                                                  *)
(***************************************************************************)
CONSTANT Thread

VARIABLES readers, writers

vars == <<readers, writers>>

Init == readers = {} /\ writers = {}

RLatch(t) ==
    /\ writers = {}
    /\ t \notin readers
    /\ readers' = readers \cup {t}
    /\ UNCHANGED writers

RUnlatch(t) ==
    /\ t \in readers
    /\ readers' = readers \ {t}
    /\ UNCHANGED writers

WLatch(t) ==
    /\ readers = {} /\ writers = {}
    /\ writers' = {t}
    /\ UNCHANGED readers

WUnlatch(t) ==
    /\ writers = {t}
    /\ writers' = {}
    /\ UNCHANGED readers

Next == \E t \in Thread : RLatch(t) \/ RUnlatch(t) \/ WLatch(t) \/ WUnlatch(t)

Spec == Init /\ [][Next]_vars
=============================================================================
