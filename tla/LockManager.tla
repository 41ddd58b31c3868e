----------------------------- MODULE LockManager -----------------------------
(***************************************************************************)
(* The tuple-level lock manager (concurrency/lock_manager.cpp), together   *)
(* with the part of a transaction it owns: the state and the two lock      *)
(* sets.  One mutex protects the whole table, so a call is one atomic step *)
(* up to the point where it sleeps on the condition variable; a sleeping   *)
(* call continues in a step of its own once it has been notified.          *)
(*                                                                         *)
(* Every transaction runs on one thread, and callers consult the lock sets *)
(* before they ask for a lock (page/table_page.cpp), as the header asks.   *)
(***************************************************************************)
EXTENDS Integers, Sequences, FiniteSets, Functions

CONSTANTS
    Txn,        \* transaction ids; a smaller id is an older transaction
    Rid,        \* record ids
    Strict,     \* strict_2PL_
    Calls,      \* the lock operations the clients use
    CntMod      \* exclusive_cnt is a size_t: arithmetic is modulo CntMod

ASSUME TxnAssumption == Txn \subseteq Nat
ASSUME StrictAssumption == Strict \in BOOLEAN
ASSUME CallsAssumption == Calls \subseteq {"S", "X", "U"}
ASSUME CntModAssumption == CntMod \in Nat /\ CntMod > 1

VARIABLES
    lock_table,     \* rid -> exclusive_cnt, oldest, list of requests
    state,          \* txn -> TransactionState
    shared,         \* txn -> shared_lock_set_
    exclusive,      \* txn -> exclusive_lock_set_
    call,           \* txn -> the lock call its thread sleeps in
    notified,       \* sleeping threads the condition variable has woken
    ret             \* txn -> what its last call returned

vars == <<lock_table, state, shared, exclusive, call, notified, ret>>

NoTxn == -1
NotBlocked == [op |-> "none"]
Request == [txn_id : Txn, mode : {"S", "X"}, granted : BOOLEAN]
Waiting == [exclusive_cnt : 0..(CntMod - 1), oldest : Txn \cup {NoTxn},
            list : Seq(Request)]
BlockedCall == [op : {"S", "X", "U"}, rid : Rid]

TypeOK ==
    /\ lock_table \in [Rid -> Waiting]
    /\ state \in [Txn -> {"GROWING", "SHRINKING", "COMMITTED", "ABORTED"}]
    /\ shared \in [Txn -> SUBSET Rid]
    /\ exclusive \in [Txn -> SUBSET Rid]
    /\ call \in [Txn -> BlockedCall \cup {NotBlocked}]
    /\ notified \subseteq {t \in Txn : call[t] # NotBlocked}
    /\ ret \in [Txn -> {"none", "true", "false"}]

Init ==
    /\ lock_table = [r \in Rid |->
            [exclusive_cnt |-> 0, oldest |-> NoTxn, list |-> <<>>]]
    /\ state = [t \in Txn |-> "GROWING"]
    /\ shared = [t \in Txn |-> {}]
    /\ exclusive = [t \in Txn |-> {}]
    /\ call = [t \in Txn |-> NotBlocked]
    /\ notified = {}
    /\ ret = [t \in Txn |-> "none"]

-----------------------------------------------------------------------------
(* The request list of a rid.                                              *)

\* A request of t that waits, and one that is granted.
Pending(t, m) == [txn_id |-> t, mode |-> m, granted |-> FALSE]
HeldReq(t, m) == [txn_id |-> t, mode |-> m, granted |-> TRUE]

\* The mode of the request a call queues.
ModeOf(op) == IF op = "S" THEN "S" ELSE "X"

\* Positions of the requests of transaction t.
Own(list, t) == {i \in 1..Len(list) : list[i].txn_id = t}

\* Mutant: the predicate looks at `granted` only, never at the mode.
SharedReadyAnyMode(list, t) ==
    \E i \in Own(list, t) : \A j \in 1..(i - 1) : list[j].txn_id # t /\ list[j].granted

\* The predicate LockShared waits for: t's request is in the list and every
\* request before it is shared and granted.
SharedReady(list, t) ==
    \E i \in Own(list, t) : \A j \in 1..(i - 1) :
        list[j].txn_id # t /\ list[j].mode = "S" /\ list[j].granted

\* Mutant: an exclusive request waits for the exclusive ones before it only.
FrontReadyPastShared(list, t) ==
    \E i \in Own(list, t) : \A j \in 1..(i - 1) : list[j].mode = "S"

\* The predicate LockExclusive and LockUpgrade wait for.
FrontReady(list, t) == list # <<>> /\ list[1].txn_id = t

Ready(list, op, t) ==
    IF op = "S" THEN SharedReady(list, t) ELSE FrontReady(list, t)

\* Mutant: list.front() is marked whoever it belongs to.
GrantFront(list, t) ==
    [i \in 1..Len(list) |->
        IF i = 1 THEN HeldReq(list[i].txn_id, list[i].mode) ELSE list[i]]

\* `granted = true` on t's request.
Grant(list, t) ==
    [i \in 1..Len(list) |->
        IF list[i].txn_id = t THEN HeldReq(t, list[i].mode) ELSE list[i]]

Sleepers == {u \in Txn : call[u] # NotBlocked}

-----------------------------------------------------------------------------
(* The tail every lock call shares: cond.wait on its predicate, then the   *)
(* grant.  `w` is the entry of rid r with t's request queued in it.        *)

\* Mutant: an upgrade leaves the rid in the shared lock set.
GrantedKeepsShared(t, r, op, w) ==
    /\ lock_table' = [lock_table EXCEPT ![r] = [w EXCEPT !.list = Grant(w.list, t)]]
    /\ shared' = [shared EXCEPT ![t] = IF op = "S" THEN @ \cup {r} ELSE @]
    /\ exclusive' = [exclusive EXCEPT ![t] = IF op = "S" THEN @ ELSE @ \cup {r}]
    /\ call' = [call EXCEPT ![t] = NotBlocked]
    /\ notified' = (IF op = "S" THEN Sleepers ELSE notified) \ {t}
    /\ ret' = [ret EXCEPT ![t] = "true"]
    /\ UNCHANGED state

\* The grant: mark the request, record the lock, notify after a shared one.
Granted(t, r, op, w) ==
    /\ lock_table' = [lock_table EXCEPT ![r] = [w EXCEPT !.list = Grant(w.list, t)]]
    /\ shared' = [shared EXCEPT ![t] = IF op = "S" THEN @ \cup {r} ELSE @ \ {r}]
    /\ exclusive' = [exclusive EXCEPT ![t] = IF op = "S" THEN @ ELSE @ \cup {r}]
    /\ call' = [call EXCEPT ![t] = NotBlocked]
    /\ notified' = (IF op = "S" THEN Sleepers ELSE notified) \ {t}
    /\ ret' = [ret EXCEPT ![t] = "true"]
    /\ UNCHANGED state

\* The predicate is false: sleep until the next notification.
Sleep(t, r, op, w) ==
    /\ lock_table' = [lock_table EXCEPT ![r] = w]
    /\ call' = [call EXCEPT ![t] = [op |-> op, rid |-> r]]
    /\ notified' = notified \ {t}
    /\ ret' = [ret EXCEPT ![t] = "none"]
    /\ UNCHANGED <<state, shared, exclusive>>

WaitThenGrant(t, r, op, w) ==
    \/ Ready(w.list, op, t) /\ Granted(t, r, op, w)
    \/ ~Ready(w.list, op, t) /\ Sleep(t, r, op, w)

\* `txn->SetState(ABORTED); return false`
Die(t) ==
    /\ state' = [state EXCEPT ![t] = "ABORTED"]
    /\ ret' = [ret EXCEPT ![t] = "false"]
    /\ UNCHANGED <<lock_table, shared, exclusive, call, notified>>

\* `return false` that leaves the transaction as it is
Refuse(t) ==
    /\ ret' = [ret EXCEPT ![t] = "false"]
    /\ UNCHANGED <<lock_table, state, shared, exclusive, call, notified>>

\* A lock call of a thread that is not blocked.  The state is ABORTED or
\* GROWING: in any other the call stops at its assertion.
Callable(t, op) ==
    /\ op \in Calls
    /\ call[t] = NotBlocked
    /\ state[t] \in {"GROWING", "ABORTED"}

-----------------------------------------------------------------------------
LockShared(t, r) ==
    LET w == lock_table[r]
        dies == w.oldest # NoTxn /\ w.exclusive_cnt # 0 /\ t > w.oldest
    IN  /\ Callable(t, "S")
        /\ r \notin shared[t] \cup exclusive[t]
        /\ \/ state[t] = "ABORTED" /\ Refuse(t)
           \/ state[t] = "GROWING" /\ dies /\ Die(t)
           \/ /\ state[t] = "GROWING" /\ ~dies
              /\ WaitThenGrant(t, r, "S",
                    [w EXCEPT !.oldest = IF @ = NoTxn \/ @ > t THEN t ELSE @,
                              !.list = Append(@, Pending(t, "S"))])

\* Mutant: no wait-die check in LockExclusive.
LockExclusiveWaits(t, r) ==
    /\ Callable(t, "X")
    /\ r \notin shared[t] \cup exclusive[t]
    /\ \/ state[t] = "ABORTED" /\ Refuse(t)
       \/ /\ state[t] = "GROWING"
          /\ WaitThenGrant(t, r, "X",
                [lock_table[r] EXCEPT !.oldest = t,
                                      !.exclusive_cnt = (@ + 1) % CntMod,
                                      !.list = Append(@, Pending(t, "X"))])

LockExclusive(t, r) ==
    LET w == lock_table[r]
        dies == w.oldest # NoTxn /\ t > w.oldest
    IN  /\ Callable(t, "X")
        /\ r \notin shared[t] \cup exclusive[t]
        /\ \/ state[t] = "ABORTED" /\ Refuse(t)
           \/ state[t] = "GROWING" /\ dies /\ Die(t)
           \/ /\ state[t] = "GROWING" /\ ~dies
              /\ WaitThenGrant(t, r, "X",
                    [w EXCEPT !.oldest = t,
                              !.exclusive_cnt = (@ + 1) % CntMod,
                              !.list = Append(@, Pending(t, "X"))])

\* tgt is the first exclusive request from src on, or the end of the list.
UpgradeTarget(list, src, tgt) ==
    /\ tgt \in src..(Len(list) + 1)
    /\ tgt <= Len(list) => list[tgt].mode = "X"
    /\ \A j \in src..(tgt - 1) : list[j].mode # "X"

\* Insert the exclusive request before tgt and erase src: the requests
\* between the two move one place forward.
MoveToTarget(list, src, tgt) ==
    [k \in 1..Len(list) |->
        IF k < src \/ k >= tgt THEN list[k]
        ELSE IF k = tgt - 1
             THEN Pending(list[src].txn_id, "X")
             ELSE list[k + 1]]

LockUpgrade(t, r) ==
    /\ Callable(t, "U")
    /\ r \in shared[t]
    /\ \/ state[t] = "ABORTED" /\ Refuse(t)
       \/ /\ state[t] = "GROWING"
          /\ LET w == lock_table[r]
             IN  \E src \in Own(w.list, t), tgt \in 1..(Len(w.list) + 1) :
                    /\ UpgradeTarget(w.list, src, tgt)
                    /\ \/ /\ \E i \in 1..(tgt - 1) : w.list[i].txn_id < t
                          /\ Refuse(t)
                       \/ /\ \A i \in 1..(tgt - 1) : w.list[i].txn_id >= t
                          /\ WaitThenGrant(t, r, "U",
                                [w EXCEPT !.list = MoveToTarget(@, src, tgt)])

\* A notified thread evaluates its predicate again.
Wake(t) ==
    /\ t \in notified
    /\ WaitThenGrant(t, call[t].rid, call[t].op, lock_table[call[t].rid])

\* The condition variable may wake a thread nobody notified.
SpuriousWakeup(t) ==
    /\ call[t] # NotBlocked
    /\ t \notin notified
    /\ notified' = notified \cup {t}
    /\ UNCHANGED <<lock_table, state, shared, exclusive, call, ret>>

\* std::list::erase: s without its i-th element.
EraseAt(s, i) == SubSeq(s, 1, i - 1) \o SubSeq(s, i + 1, Len(s))

\* The body of Release: what the count becomes and whether to notify vary in
\* the mutants below.
ReleaseWith(t, r, Cnt(_), Notify(_, _)) ==
    LET w == lock_table[r]
    IN  \/ Own(w.list, t) = {} /\ UNCHANGED <<lock_table, notified>>
        \/ \E i \in Own(w.list, t) :
            /\ lock_table' = [lock_table EXCEPT ![r] =
                    [w EXCEPT !.exclusive_cnt =
                                  IF w.list[i].mode = "X" THEN Cnt(@) ELSE @,
                              !.list = EraseAt(@, i)]]
            /\ notified' = IF Notify(i, w.list[i].mode) THEN Sleepers ELSE notified

\* Mutant: the counter is never decremented.
ReleaseUncounted(t, r) ==
    ReleaseWith(t, r, LAMBDA c : c, LAMBDA i, m : i = 1 \/ m = "X")

\* Mutant: only the release of an exclusive lock notifies.
ReleaseQuiet(t, r) ==
    ReleaseWith(t, r, LAMBDA c : (c - 1) % CntMod, LAMBDA i, m : m = "X")

\* The request of t leaves the list of r; entry and `oldest` stay.
Release(t, r) ==
    LET w == lock_table[r]
    IN  \/ /\ Own(w.list, t) = {}
           /\ UNCHANGED <<lock_table, notified>>
        \/ \E i \in Own(w.list, t) :
            /\ lock_table' = [lock_table EXCEPT ![r] =
                    [w EXCEPT !.exclusive_cnt =
                                  IF w.list[i].mode = "X" THEN (@ - 1) % CntMod ELSE @,
                              !.list = EraseAt(@, i)]]
            /\ notified' = IF i = 1 \/ w.list[i].mode = "X"
                           THEN Sleepers ELSE notified

\* Mutant: without strict two-phase locking a transaction goes on growing.
UnlockGrowing(t, r) ==
    /\ call[t] = NotBlocked
    /\ r \in shared[t] \cup exclusive[t]
    /\ ~Strict \/ state[t] \in {"COMMITTED", "ABORTED"}
    /\ ret' = [ret EXCEPT ![t] = "true"]
    /\ Release(t, r)
    /\ UNCHANGED <<shared, exclusive, call, state>>

Unlock(t, r) ==
    /\ call[t] = NotBlocked
    /\ r \in shared[t] \cup exclusive[t]
    /\ UNCHANGED <<shared, exclusive, call>>
    /\ \/ /\ Strict /\ state[t] \notin {"COMMITTED", "ABORTED"}
          /\ state' = [state EXCEPT ![t] = "ABORTED"]
          /\ ret' = [ret EXCEPT ![t] = "false"]
          /\ UNCHANGED <<lock_table, notified>>
       \/ /\ ~Strict \/ state[t] \in {"COMMITTED", "ABORTED"}
          /\ state' = [state EXCEPT ![t] =
                            IF ~Strict /\ @ = "GROWING" THEN "SHRINKING" ELSE @]
          /\ ret' = [ret EXCEPT ![t] = "true"]
          /\ Release(t, r)

\* TransactionManager::Commit and ::Abort first set the state; Commit may
\* also be called for a transaction a lock call has already aborted.
EndTransaction(t, s) ==
    /\ call[t] = NotBlocked
    /\ state[t] \notin {"COMMITTED", s}
    /\ state' = [state EXCEPT ![t] = s]
    /\ UNCHANGED <<lock_table, shared, exclusive, call, notified, ret>>

Next ==
    \E t \in Txn :
        \/ \E r \in Rid : LockShared(t, r) \/ LockExclusive(t, r)
                          \/ LockUpgrade(t, r) \/ Unlock(t, r)
        \/ Wake(t)
        \/ SpuriousWakeup(t)
        \/ \E s \in {"COMMITTED", "ABORTED"} : EndTransaction(t, s)

Spec == Init /\ [][Next]_vars

\* A step of t's thread other than asking for a lock: it wakes up, ends the
\* transaction, or, in Commit or Abort, unlocks what is in the lock sets.
Proceed(t) ==
    \/ Wake(t)
    \/ \E s \in {"COMMITTED", "ABORTED"} : EndTransaction(t, s)
    \/ state[t] \in {"COMMITTED", "ABORTED"} /\ \E r \in Rid : Unlock(t, r)

\* A thread that can proceed is scheduled in the end.
Fairness == \A t \in Txn : WF_vars(Proceed(t))

-----------------------------------------------------------------------------
(* Safety.                                                                 *)

\* The granted requests of a list are a prefix of it, and a prefix of more
\* than one is all shared.
Ordered(list) ==
    \A j \in 1..Len(list) : list[j].granted =>
        \A i \in 1..(j - 1) :
            list[j].mode = "S" /\ list[i].mode = "S" /\ list[i].granted

\* Lock compatibility, read off the queue.  It is the order LockShared,
\* LockExclusive, LockUpgrade and Unlock must keep between them for an
\* exclusive lock to exclude every other lock on the rid.
GrantOrder == \A r \in Rid : Ordered(lock_table[r].list)

Requests(r) == Range(lock_table[r].list)

Holds(t, r, m) == HeldReq(t, m) \in Requests(r)

\* A transaction has at most one request on a rid.
Distinct(list) ==
    \A i, j \in 1..Len(list) : list[i].txn_id = list[j].txn_id => i = j

\* Requests and the callers' records agree: one request per transaction and
\* rid; a granted one is in the lock set of its mode, one that is not belongs
\* to a call that is blocked on this rid.
RequestsOwned ==
    \A r \in Rid :
        /\ Distinct(lock_table[r].list)
        /\ \A q \in Requests(r) :
            IF q.granted
            THEN r \in (IF q.mode = "S" THEN shared[q.txn_id] ELSE exclusive[q.txn_id])
            ELSE call[q.txn_id] # NotBlocked /\ call[q.txn_id].rid = r

\* While a transaction grows, every rid of its exclusive lock set is locked
\* exclusively by it, and every rid of its shared lock set is locked by it
\* but while its own upgrade of that rid is blocked: no caller acts on a
\* lock that the queues do not know, as LockUpgrade's assertions require.
LockSetsBacked ==
    \A t \in Txn : state[t] = "GROWING" =>
        /\ \A r \in exclusive[t] : Holds(t, r, "X")
        /\ \A r \in shared[t] :
                Holds(t, r, "S") \/ call[t] = [op |-> "U", rid |-> r]

\* No lost wakeup: a thread asleep in cond.wait whose predicate has become
\* true has been notified, although Unlock notifies only when it removed the
\* first or an exclusive request, and an exclusive grant does not notify.
NoLostWakeup ==
    \A t \in Txn : call[t] # NotBlocked /\ t \notin notified =>
        ~Ready(lock_table[call[t].rid].list, call[t].op, t)

\* A blocked call has a request in its mode that is not granted, so the
\* assertions after cond.wait hold and a grant marks the right request.
BlockedQueued ==
    \A t \in Txn : call[t] # NotBlocked =>
        Pending(t, ModeOf(call[t].op)) \in Requests(call[t].rid)

\* u's request stands before t's, and t cannot be granted while it does.
Blocks(u, t) ==
    /\ call[t] # NotBlocked
    /\ LET list == lock_table[call[t].rid].list
       IN  \E i \in Own(list, u), k \in Own(list, t) :
              i < k /\ (call[t].op # "S" \/ list[i].mode = "X")

\* Wait-die: a transaction waits only for younger ones.
WaitsOnlyForYounger == \A t, u \in Txn : Blocks(u, t) => t < u

\* "use wait-die to prevent deadlocks" (lock_manager.h): no set of blocked
\* transactions in which each is blocked by another one of the set.
NoDeadlock ==
    ~\E D \in SUBSET Txn :
        D # {} /\ \A t \in D : \E u \in D : Blocks(u, t)

\* "this set contains rid of shared-locked tuples by this transaction"
\* (transaction.h): what a growing transaction has in its shared lock set no
\* other transaction has locked exclusively.
SharedSetProtects ==
    \A t, u \in Txn : \A r \in Rid :
        t # u /\ state[t] = "GROWING" /\ r \in shared[t] => ~Holds(u, r, "X")

\* "how many exclusive requests" (lock_manager.h): what exclusive_cnt counts.
ExclusiveCntExact ==
    \A r \in Rid :
        lock_table[r].exclusive_cnt =
            Cardinality({i \in 1..Len(lock_table[r].list) :
                            lock_table[r].list[i].mode = "X"})

\* An exclusive request for a rid nobody has a request on succeeds, which
\* TablePage::InsertTuple asserts of a slot it has found free.
FreeRidGranted ==
    [][\A t \in Txn, r \in Rid :
        lock_table[r].list = <<>> /\ LockExclusive(t, r) /\ state[t] = "GROWING"
            => ret'[t] = "true"]_vars

-----------------------------------------------------------------------------
(* Liveness.                                                               *)

\* A lock call that sleeps on the condition variable returns in the end:
\* wait-die leaves no cycle of waiting clients and Unlock notifies whenever a
\* predicate may have become true.
EveryCallReturns == \A t \in Txn : call[t] # NotBlocked ~> call[t] = NotBlocked
=============================================================================
