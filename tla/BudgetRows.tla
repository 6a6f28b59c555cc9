----------------------------- MODULE BudgetRows -----------------------------
(***************************************************************************)
(* The table budget_reservations and what the ledger computes from it.     *)
(*                                                                         *)
(* Amounts are whole cost units.  The sum the code computes with SELECT    *)
(* SUM(amount_usd) is the cardinality of the set of units of the live      *)
(* rows, a definition without recursion that can be proved about.          *)
(***************************************************************************)
EXTENDS Callers

CONSTANTS
    CostOf,      \* the estimate of each call, in cost units
    DailyLimit,  \* DAILY_BUDGET_USD; 0 means no limit, as in build_state_stores
    MaxDay,      \* bound: the last UTC date of the model
    PruneAge     \* STATE_PRUNE_MAX_AGE_DAYS

ASSUME CostAssumption == CostOf \in [Calls -> Nat]
ASSUME LimitAssumption == DailyLimit \in Nat
ASSUME DayAssumption == MaxDay \in Nat /\ PruneAge \in Nat

-----------------------------------------------------------------------------
Days == 0 .. MaxDay
Outcomes == {"committed", "released"}
Statuses == {"absent", "reserved"} \cup Outcomes
Row == [status: Statuses, date: Days]
NoRow == [status |-> "absent", date |-> 0]

\* The cost units of a set of calls, and their number.
Units(S) == UNION {{c} \X (1 .. CostOf[c]) : c \in S}
Amount(S) == Cardinality(Units(S))

IsLive(row) == row.status \in {"reserved", "committed"}

\* The calls whose rows the SELECT of reserve() adds up.
LiveCalls(table, o, d) ==
    {c \in Calls : OwnerOf[c] = o /\ table[c].date = d /\ IsLive(table[c])}

Spent(table, o, d) == Amount(LiveCalls(table, o, d))

Fits(table, c, d) ==
    \/ DailyLimit = 0
    \/ Spent(table, OwnerOf[c], d) + CostOf[c] <= DailyLimit

WithinLimit(table) ==
    DailyLimit # 0 => \A o \in Owners, d \in Days : Spent(table, o, d) <= DailyLimit

Entered(table, c, d) == [table EXCEPT ![c] = [status |-> "reserved", date |-> d]]

\* The UPDATE of _set_status names the row by id, whatever its status; it
\* finds nothing when the row has been pruned.
Settled(table, c, s) ==
    IF table[c].status = "absent" THEN table ELSE [table EXCEPT ![c].status = s]

\* Mutant: rows are pruned a day early.
PrunedEarly(table, today) ==
    [c \in Calls |-> IF table[c].date + PruneAge <= today THEN NoRow ELSE table[c]]

Pruned(table, today) ==
    [c \in Calls |-> IF table[c].date + PruneAge < today THEN NoRow ELSE table[c]]
=============================================================================
