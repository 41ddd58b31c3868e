------------------------------ MODULE PageStore ------------------------------
(***************************************************************************)
(* What the buffer pool promises its clients: a set of pages that exist,   *)
(* each with the content last written to it, and a view of that content    *)
(* for every client that has the page.  Only a client that has a page      *)
(* changes it, and each change is a new one.  Where a page resides, and    *)
(* when it moves between memory and disk, cannot be seen.                  *)
(***************************************************************************)
EXTENDS Integers

CONSTANTS
    Page,
    Client

Nothing == -1

VARIABLES
    store,      \* the pages that exist -> the number of their last change
    changes,    \* the number of the next change; a new page has content 0
    seen        \* client -> page -> what it reads, or Nothing if it has it not

store_vars == <<store, changes, seen>>

New(c, p) ==
    /\ p \notin DOMAIN store
    /\ store' = [q \in DOMAIN store \cup {p} |-> IF q = p THEN 0 ELSE store[q]]
    /\ seen' = [seen EXCEPT ![c][p] = 0]
    /\ UNCHANGED changes

\* A client that asks for a page gets the content last written to it.
Fetch(c, p) ==
    /\ p \in DOMAIN store
    /\ seen[c][p] = Nothing
    /\ seen' = [seen EXCEPT ![c][p] = store[p]]
    /\ UNCHANGED <<store, changes>>

\* A change is seen by every client that has the page.
Write(c, p) ==
    /\ seen[c][p] # Nothing
    /\ changes' = changes + 1
    /\ store' = [q \in DOMAIN store |-> IF q = p THEN changes ELSE store[q]]
    /\ seen' = [d \in Client |-> [q \in Page |->
            IF q = p /\ seen[d][q] # Nothing THEN changes ELSE seen[d][q]]]

Unpin(c, p) ==
    /\ seen[c][p] # Nothing
    /\ seen' = [seen EXCEPT ![c][p] = Nothing]
    /\ UNCHANGED <<store, changes>>

Drop(p) ==
    /\ p \in DOMAIN store
    /\ store' = [q \in DOMAIN store \ {p} |-> store[q]]
    /\ UNCHANGED <<changes, seen>>

Init ==
    /\ store = [p \in {} |-> 0]
    /\ changes = 1
    /\ seen = [c \in Client |-> [p \in Page |-> Nothing]]

Next ==
    \/ \E c \in Client, p \in Page :
        New(c, p) \/ Fetch(c, p) \/ Write(c, p) \/ Unpin(c, p)
    \/ \E p \in Page : Drop(p)

Spec == Init /\ [][Next]_store_vars
=============================================================================
