------------------------------- MODULE Budget -------------------------------
(***************************************************************************)
(* What the daily budget promises, one table of reservations and a date:   *)
(* a reservation is entered only while the live rows of its owner and day  *)
(* leave room for it, and is settled once.  BudgetLedger (threads, lock,   *)
(* SQLite transactions) and BilledCall (the calls that spend) implement    *)
(* this specification.                                                     *)
(***************************************************************************)
EXTENDS BudgetRows

VARIABLES
    day,   \* the current UTC date
    rows   \* budget_reservations, one row per call

vars == <<day, rows>>

-----------------------------------------------------------------------------
Init ==
    /\ day = 0
    /\ rows = [c \in Calls |-> NoRow]

\* The date of a reservation is read before the ledger's lock is waited for,
\* so it may be older than today.
Reserve(c, d) ==
    /\ rows[c].status = "absent"
    /\ d <= day
    /\ Fits(rows, c, d)
    /\ rows' = Entered(rows, c, d)
    /\ UNCHANGED day

Settle(c, s) ==
    /\ rows[c].status = "reserved"
    /\ rows' = Settled(rows, c, s)
    /\ UNCHANGED day

Prune ==
    /\ rows' = Pruned(rows, day)
    /\ UNCHANGED day

NewDay ==
    /\ day < MaxDay
    /\ day' = day + 1
    /\ UNCHANGED rows

Next ==
    \/ \E c \in Calls, d \in Days : Reserve(c, d)
    \/ \E c \in Calls, s \in Outcomes : Settle(c, s)
    \/ Prune
    \/ NewDay

Spec == Init /\ [][Next]_vars
=============================================================================
