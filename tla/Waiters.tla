------------------------------- MODULE Waiters -------------------------------
(***************************************************************************)
(* The queue of waiters of an asyncio lock or semaphore: served from its   *)
(* head, and left from any place by a waiter that is cancelled.            *)
(***************************************************************************)
EXTENDS Integers, Sequences

\* A cancelled waiter leaves its queue, wherever it stands in it.
Without(q, c) ==
    LET i == CHOOSE i \in DOMAIN q : q[i] = c
    IN  [j \in 1 .. Len(q) - 1 |-> IF j < i THEN q[j] ELSE q[j + 1]]

\* The queue q lists the members of S and nobody else, each once.
Lists(q, S) ==
    /\ \A i, j \in DOMAIN q : q[i] = q[j] => i = j
    /\ \A i \in DOMAIN q : q[i] \in S
    /\ \A c \in S : \E i \in DOMAIN q : q[i] = c
=============================================================================
