--------------------------- MODULE OwnershipRows ---------------------------
(***************************************************************************)
(* The table task_ownership of SQLiteTaskOwnershipStore: rows keyed by a   *)
(* namespace (a provider, "mcp" or "mcp-execution") and an id.  Each       *)
(* operator is one closure of the store; the table is a set of rows.       *)
(***************************************************************************)
EXTENDS Naturals

CONSTANTS
    Principals,       \* (tenant, principal) pairs
    LocalPrincipals,  \* those of the stdio transport (AuthContext.is_local)
    RetentionDays     \* STATE_PRUNE_MAX_AGE_DAYS

ASSUME PrincipalAssumption == LocalPrincipals \subseteq Principals
ASSUME RetentionAssumption == RetentionDays \in Nat

OwnerRow(keys, days) == [key : keys, owner : Principals, at : days]

RowsOf(rows, k) == {r \in rows : r.key = k}
HasRow(rows, k) == RowsOf(rows, k) # {}

\* INSERT ... ON CONFLICT DO NOTHING: the first claim wins.
Claimed(rows, k, o, day) ==
    IF HasRow(rows, k) THEN rows ELSE rows \cup {[key |-> k, owner |-> o, at |-> day]}

\* INSERT ... ON CONFLICT DO UPDATE: the last record wins, created_at stays.
Recorded(rows, k, o, day) ==
    (rows \ RowsOf(rows, k))
        \cup {[key |-> k, owner |-> o, at |-> d] :
                 d \in IF HasRow(rows, k) THEN {r.at : r \in RowsOf(rows, k)} ELSE {day}}

\* Mutant: an id without a row is open to everybody.
MayUseUnclaimed(rows, k, o) == \A r \in RowsOf(rows, k) : r.owner = o

\* require_owner(): an id without a row is open to local principals only.
MayUse(rows, k, o) ==
    /\ HasRow(rows, k) \/ o \in LocalPrincipals
    /\ \A r \in RowsOf(rows, k) : r.owner = o

\* list_task_ids()
OwnedKeys(rows, space, o) == {r.key : r \in {q \in rows : q.key[1] = space /\ q.owner = o}}

\* Mutant: rows go on the last day of the retention.
PrunedRowsEarly(rows, day) == {r \in rows : r.at + RetentionDays > day}

\* prune(): DELETE ... WHERE created_at < now - max_age_days.
PrunedRows(rows, day) == {r \in rows : r.at + RetentionDays >= day}
=============================================================================
