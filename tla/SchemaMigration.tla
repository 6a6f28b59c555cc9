--------------------------- MODULE SchemaMigration ---------------------------
(***************************************************************************)
(* _ensure_schema() of the ownership store and of the artifact cache: the  *)
(* table of an older release, without a provider column, is renamed,       *)
(* copied into the new one and dropped, one statement at a time.           *)
(*                                                                         *)
(* sqlite3 begins a transaction at the first INSERT and not before, so a   *)
(* RENAME or CREATE ahead of it is committed at once.  The process may die *)
(* between any two statements, and the older release may be started again. *)
(***************************************************************************)
EXTENDS Naturals

CONSTANTS MigratedTasks, MaxWrites   \* bound: writes by the older release

ASSUME MigrationAssumption == MaxWrites \in Nat \ {0}

VARIABLES
    disk,     \* the two tables as committed
    view,     \* the two tables as the connection sees them
    release,  \* what runs, and where its migration is
    latest    \* the last row written for each task, 0 if none (history)

migrationVars == <<disk, view, release, latest>>

\* A table is a form and a row per task, 0 where it has none.
Rows == [MigratedTasks -> 0 .. MaxWrites]
NoRows == [t \in MigratedTasks |-> 0]
Database == [form : {"absent", "old", "new"}, rows : Rows, hasLegacy : BOOLEAN, legacy : Rows]
EmptyDatabase == [form |-> "absent", rows |-> NoRows, hasLegacy |-> FALSE, legacy |-> NoRows]
Releases == {"none", "old", "inspecting", "creating", "copying", "dropping", "serving"}

MigrationTypeOK == {disk, view} \subseteq Database /\ release \in Releases /\ latest \in Rows

MigrationInit ==
    disk = EmptyDatabase /\ view = EmptyDatabase /\ release = "none" /\ latest = NoRows

-----------------------------------------------------------------------------
\* INSERT OR REPLACE INTO one table SELECT from the other.
Replaced(into, from) == [t \in MigratedTasks |-> IF from[t] # 0 THEN from[t] ELSE into[t]]

\* A statement outside a transaction is on disk at once.
AutoCommit(db) == view' = db /\ disk' = db
InTransaction(db) == view' = db /\ UNCHANGED disk

\* The older release: it creates its table and writes rows; into the new table,
\* whose provider it does not know, it could not write.
StartOld ==
    /\ release = "none" /\ disk.form # "new"
    /\ AutoCommit([disk EXCEPT !.form = "old"])
    /\ release' = "old" /\ UNCHANGED latest

WriteOld(t) ==
    /\ release = "old"
    /\ latest[t] < MaxWrites
    /\ latest' = [latest EXCEPT ![t] = @ + 1]
    /\ AutoCommit([disk EXCEPT !.rows[t] = latest[t] + 1])
    /\ UNCHANGED release

StartNew == release = "none" /\ release' = "inspecting" /\ UNCHANGED <<disk, view, latest>>

\* PRAGMA table_info, sqlite_master; the renaming is committed, the merge into
\* what an earlier attempt renamed is not.
MoveOldRows ==
    /\ release = "inspecting" /\ release' = "creating"
    /\ \/ view.form # "old" /\ UNCHANGED <<disk, view>>
       \/ /\ view.form = "old" /\ ~ view.hasLegacy
          /\ AutoCommit([view EXCEPT !.form = "absent", !.rows = NoRows,
                                     !.hasLegacy = TRUE, !.legacy = view.rows])
       \/ /\ view.form = "old" /\ view.hasLegacy
          /\ InTransaction([view EXCEPT !.form = "absent", !.rows = NoRows,
                                        !.legacy = Replaced(view.legacy, view.rows)])
    /\ UNCHANGED latest

\* CREATE TABLE IF NOT EXISTS, within the transaction if one has begun.
CreateNew ==
    /\ release = "creating" /\ release' = "copying"
    /\ LET db == [view EXCEPT !.form = "new"]
       IN  IF view = disk THEN AutoCommit(db) ELSE InTransaction(db)
    /\ UNCHANGED latest

\* Mutant: only rows that this start has moved are copied.
LegacyLeftMoved == view.hasLegacy /\ view # disk
\* legacy_exists.
LegacyLeft == view.hasLegacy

CopyRows ==
    /\ release = "copying"
    /\ IF LegacyLeft
       THEN /\ InTransaction([view EXCEPT !.rows = Replaced(view.rows, view.legacy)])
            /\ release' = "dropping"
       ELSE AutoCommit(view) /\ release' = "serving"
    /\ UNCHANGED latest

\* DROP TABLE and the commit of the with block.
DropLegacy ==
    /\ release = "dropping" /\ release' = "serving"
    /\ AutoCommit([view EXCEPT !.hasLegacy = FALSE, !.legacy = NoRows])
    /\ UNCHANGED latest

\* record() of the new release.
WriteNew(t) ==
    /\ release = "serving" /\ latest[t] < MaxWrites
    /\ latest' = [latest EXCEPT ![t] = @ + 1]
    /\ AutoCommit([view EXCEPT !.rows[t] = latest[t] + 1])
    /\ UNCHANGED release

\* The process ends or dies: what was not committed is gone.
Die == release # "none" /\ release' = "none" /\ view' = disk /\ UNCHANGED <<disk, latest>>

MigrationNext ==
    \/ StartOld \/ StartNew \/ MoveOldRows \/ CreateNew \/ CopyRows \/ DropLegacy \/ Die
    \/ \E t \in MigratedTasks : WriteOld(t) \/ WriteNew(t)

MigrationSpec == MigrationInit /\ [][MigrationNext]_migrationVars

-----------------------------------------------------------------------------
(* Property                                                                *)

\* Whatever was interrupted and whichever release ran in between, a server that
\* is up knows the last owner of every task, and only once.
MigrationKeepsRows ==
    release = "serving" => view = disk /\ ~ view.hasLegacy /\ view.rows = latest
=============================================================================
