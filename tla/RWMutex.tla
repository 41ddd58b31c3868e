------------------------------ MODULE RWMutex --------------------------------
(***************************************************************************)
(* The reader-writer latch of a page (include/common/rwmutex.h).  A writer *)
(* first enters, which keeps new readers out, then waits for the readers   *)
(* inside to leave.  Readers and entering writers sleep on the condition   *)
(* variable reader_, an entered writer on writer_.                         *)
(*                                                                         *)
(* mutex_ makes the code between two waits a step.                         *)
(***************************************************************************)
EXTENDS Integers, FiniteSets

CONSTANTS
    Thread,
    max_readers     \* UINT_MAX in the code

ASSUME MaxReadersAssumption == max_readers \in Nat \ {0}

VARIABLES
    reader_count,
    writer_entered,
    pc              \* where each thread is

rwVars == <<reader_count, writer_entered, pc>>

\* "enter", "drain" and "read": awake in the first loop of WLock, its second
\* one and the loop of RLock; "..._wait": asleep there.
Place == {"out", "enter", "enter_wait", "drain", "drain_wait", "writing",
          "read", "read_wait", "reading"}

RWTypeOK ==
    /\ reader_count \in 0..max_readers
    /\ writer_entered \in BOOLEAN
    /\ pc \in [Thread -> Place]

RWInit ==
    /\ reader_count = 0
    /\ writer_entered = FALSE
    /\ pc = [t \in Thread |-> "out"]

\* The threads asleep on reader_ and on writer_, and where they wake up.
AsleepOnReader == {t \in Thread : pc[t] \in {"enter_wait", "read_wait"}}
AsleepOnWriter == {t \in Thread : pc[t] = "drain_wait"}

Awake(p) ==
    CASE p = "enter_wait" -> "enter"
      [] p = "drain_wait" -> "drain"
      [] p = "read_wait"  -> "read"
      [] OTHER            -> p

\* pc after the threads of W are notified and t goes to p.
Move(t, p, W) == [u \in Thread |-> IF u = t THEN p ELSE IF u \in W THEN Awake(pc[u]) ELSE pc[u]]

\* notify_one wakes some thread if one is asleep.
NotifyOne(S) == {{u} : u \in S} \cup (IF S = {} THEN {{}} ELSE {})

-----------------------------------------------------------------------------

WLock(t) ==
    /\ pc[t] \in {"out", "enter"}
    /\ \/ /\ writer_entered
          /\ pc' = Move(t, "enter_wait", {})
          /\ UNCHANGED writer_entered
       \/ /\ ~writer_entered
          /\ writer_entered' = TRUE
          /\ pc' = Move(t, IF reader_count > 0 THEN "drain_wait" ELSE "writing", {})
    /\ UNCHANGED reader_count

\* Mutant: if instead of while around writer_.wait.
DrainWithoutTest(t) ==
    /\ pc[t] = "drain"
    /\ pc' = Move(t, "writing", {})
    /\ UNCHANGED <<reader_count, writer_entered>>

\* WLock after a wait on writer_.
Drain(t) ==
    /\ pc[t] = "drain"
    /\ pc' = Move(t, IF reader_count > 0 THEN "drain_wait" ELSE "writing", {})
    /\ UNCHANGED <<reader_count, writer_entered>>

\* Mutant: one of the sleeping threads is notified.
WUnlockNotifiesOne(t) ==
    /\ pc[t] = "writing"
    /\ writer_entered' = FALSE
    /\ \E W \in NotifyOne(AsleepOnReader) : pc' = Move(t, "out", W)
    /\ UNCHANGED reader_count

WUnlock(t) ==
    /\ pc[t] = "writing"
    /\ writer_entered' = FALSE
    /\ pc' = Move(t, "out", AsleepOnReader)
    /\ UNCHANGED reader_count

\* Mutant: readers are let in while the entered writer waits for the others.
RLockPassesWriter(t) ==
    /\ pc[t] \in {"out", "read"}
    /\ \/ /\ reader_count = max_readers \/ \E u \in Thread : pc[u] = "writing"
          /\ pc' = Move(t, "read_wait", {})
          /\ UNCHANGED reader_count
       \/ /\ reader_count # max_readers /\ \A u \in Thread : pc[u] # "writing"
          /\ reader_count' = reader_count + 1
          /\ pc' = Move(t, "reading", {})
    /\ UNCHANGED writer_entered

RLock(t) ==
    /\ pc[t] \in {"out", "read"}
    /\ \/ /\ writer_entered \/ reader_count = max_readers
          /\ pc' = Move(t, "read_wait", {})
          /\ UNCHANGED reader_count
       \/ /\ ~writer_entered /\ reader_count # max_readers
          /\ reader_count' = reader_count + 1
          /\ pc' = Move(t, "reading", {})
    /\ UNCHANGED writer_entered

\* The threads a reader notifies when it leaves.
LeaveNotifies ==
    IF writer_entered
    THEN IF reader_count = 1 THEN NotifyOne(AsleepOnWriter) ELSE {{}}
    ELSE IF reader_count = max_readers THEN NotifyOne(AsleepOnReader) ELSE {{}}

RUnlock(t) ==
    /\ pc[t] = "reading"
    /\ reader_count' = reader_count - 1
    /\ \E W \in LeaveNotifies : pc' = Move(t, "out", W)
    /\ UNCHANGED writer_entered

\* A wait may end without a notification.
SpuriousWakeup(t) ==
    /\ t \in AsleepOnReader \cup AsleepOnWriter
    /\ pc' = Move(t, Awake(pc[t]), {})
    /\ UNCHANGED <<reader_count, writer_entered>>

Step(t) == WLock(t) \/ Drain(t) \/ WUnlock(t) \/ RLock(t) \/ RUnlock(t)

RWNext == \E t \in Thread : Step(t) \/ SpuriousWakeup(t)

RWSpec == RWInit /\ [][RWNext]_rwVars

\* A thread that is awake runs and gets mutex_, and one that holds the latch
\* lets it go; nobody has to ask for it.
Continue(t) == pc[t] # "out" /\ Step(t)

RWLiveSpec == RWSpec /\ \A t \in Thread : WF_rwVars(Continue(t))

-----------------------------------------------------------------------------
(* Properties.                                                             *)

Reading == {t \in Thread : pc[t] = "reading"}
Writing == {t \in Thread : pc[t] = "writing"}
Entered == {t \in Thread : pc[t] \in {"drain", "drain_wait", "writing"}}

\* RLock and WLock give readers-or-one-writer exclusion, with the counter and
\* the flag that stand for the holders changed in separate critical sections.
LatchImplemented == INSTANCE Latch WITH readers <- Reading, writers <- Writing
LatchSpec == LatchImplemented!Spec

\* WUnlock's notify_all and RUnlock's two notify_one calls suffice, as long
\* as max_readers_ is out of reach: who sleeps on reader_ sleeps because of
\* an entered writer, and an entered writer sleeps because of a reader.
NoLostWakeup ==
    /\ AsleepOnReader # {} => writer_entered
    /\ AsleepOnWriter # {} => reader_count > 0

\* A writer that has entered gets the latch: no reader that comes later can
\* make it wait longer.
EnteredWriterGetsLatch ==
    \A t \in Thread : pc[t] \in {"drain", "drain_wait"} ~> pc[t] = "writing"

\* Behind an entered writer nobody sleeps for ever: WUnlock wakes the readers
\* and writers that came meanwhile.
SleepersWake ==
    \A t \in Thread : pc[t] \in {"enter_wait", "read_wait"} ~> pc[t] \in {"enter", "read"}
=============================================================================
