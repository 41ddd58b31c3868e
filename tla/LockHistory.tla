----------------------------- MODULE LockHistory -----------------------------
(***************************************************************************)
(* The lock manager with two history variables: every lock ever granted on *)
(* a rid, and the order this imposes between transactions.  They record    *)
(* what the lock manager does and never influence it.                      *)
(***************************************************************************)
EXTENDS LockManager

VARIABLES
    ever,       \* rid -> the <<txn, mode>> pairs ever granted on it
    before      \* <<u, t>>: u held a lock that conflicts with a later one of t

hvars == <<vars, ever, before>>

HInit ==
    /\ Init
    /\ ever = [r \in Rid |-> {}]
    /\ before = {}

\* The locks held on r, as <<txn, mode>> pairs.
HeldOn(r) == {<<q.txn_id, q.mode>> : q \in {q \in Requests(r) : q.granted}}

Conflict(g, h) == g[1] # h[1] /\ "X" \in {g[2], h[2]}

HNext ==
    /\ Next
    /\ IF lock_table' = lock_table THEN UNCHANGED <<ever, before>> ELSE
       /\ ever' = [r \in Rid |-> ever[r] \cup HeldOn(r)']
       /\ before' = before \cup
            {e \in Txn \X Txn :
                \E r \in Rid : \E g \in ever[r], h \in HeldOn(r)' \ HeldOn(r) :
                    Conflict(g, h) /\ e = <<g[1], h[1]>>}

HSpec == HInit /\ [][HNext]_hvars

HLiveSpec == HSpec /\ Fairness

\* Two-phase locking gives conflict-serializable executions: the transactions
\* can be ordered so that every conflicting pair of granted locks follows the
\* order.  (A finite relation is acyclic iff no non-empty set has in it a
\* predecessor of each of its members.)  About the order in which LockShared,
\* LockExclusive and Unlock grant and release locks.
Serializable ==
    ~\E D \in SUBSET Txn :
        D # {} /\ \A t \in D : \E u \in D : <<u, t>> \in before
=============================================================================
