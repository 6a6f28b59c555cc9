---------------------------- MODULE BudgetLedger ----------------------------
(***************************************************************************)
(* BudgetLedger of runtime.py, at the grain of its database statements.    *)
(*                                                                         *)
(* A task that calls reserve, commit or release waits for the store's      *)
(* asyncio.Lock, hands a closure to a worker thread (asyncio.to_thread)    *)
(* and awaits it with the lock held (_run_locked).  The closure runs its   *)
(* statements one by one on the shared connection: reserve is SELECT SUM,  *)
(* INSERT, COMMIT; commit and release are UPDATE, COMMIT.                  *)
(*                                                                         *)
(* A task may be cancelled at any of its awaits.  Cancelling it while the  *)
(* closure runs leaves the `async with` and so frees the lock, but cannot  *)
(* stop the thread, which goes on with its statements.                     *)
(*                                                                         *)
(* Abstracted: SQLite statements succeed (no SQLITE_BUSY from another      *)
(* connection), worker threads are always available, amounts are units.    *)
(***************************************************************************)
EXTENDS BudgetRows

CONSTANT Free  \* the lock's value when no task holds it

ASSUME FreeAssumption == Free \notin Calls

VARIABLES
    day,         \* the UTC date
    rows,        \* the table as the connection sees it
    disk,        \* the table as committed
    pc,          \* where each call's task is
    date,        \* usage_date, read when reserve() is called
    target,      \* the status a settling call asks for
    lock,        \* the holder of the asyncio.Lock, or Free
    thread,      \* the next statement of the call's closure
    abandoned    \* history: calls cancelled while their closure ran

vars == <<day, rows, disk, pc, date, target, lock, thread, abandoned>>

\* The abstract budget, whose table is the committed one.
Promise == INSTANCE Budget WITH rows <- disk

-----------------------------------------------------------------------------
Tasks == {"idle", "reserving", "refused", "reserved", "settling", "settled", "gone"}
Awaiting == {"reserving", "settling"}      \* suspended inside _run_locked
Statements == {"select", "insert", "update", "commit"}
Threads == {"none", "over", "done"} \cup Statements

Running(c) == thread[c] \in Statements

TypeOK ==
    /\ day \in Days
    /\ rows \in [Calls -> Row]
    /\ disk \in [Calls -> Row]
    /\ pc \in [Calls -> Tasks]
    /\ date \in [Calls -> Days]
    /\ target \in [Calls -> Outcomes]
    /\ lock \in Calls \cup {Free}
    /\ thread \in [Calls -> Threads]
    /\ abandoned \subseteq Calls

Init ==
    /\ day = 0
    /\ rows = [c \in Calls |-> NoRow]
    /\ disk = rows
    /\ pc = [c \in Calls |-> "idle"]
    /\ date = [c \in Calls |-> 0]
    /\ target = [c \in Calls |-> "released"]
    /\ lock = Free
    /\ thread = [c \in Calls |-> "none"]
    /\ abandoned = {}

-----------------------------------------------------------------------------
(* The tasks, on the event loop.                                           *)

CallReserve(c) ==
    /\ pc[c] = "idle"
    /\ pc' = [pc EXCEPT ![c] = "reserving"]
    /\ date' = [date EXCEPT ![c] = day]
    /\ UNCHANGED <<day, rows, disk, target, lock, thread, abandoned>>

CallSettle(c, s) ==
    /\ pc[c] = "reserved"
    /\ pc' = [pc EXCEPT ![c] = "settling"]
    /\ target' = [target EXCEPT ![c] = s]
    /\ UNCHANGED <<day, rows, disk, date, lock, thread, abandoned>>

\* Mutant: _run_locked without its `async with lock`.
StartThreadUnlocked(c) ==
    /\ pc[c] \in Awaiting
    /\ thread[c] = "none"
    /\ lock' = c
    /\ thread' = [thread EXCEPT ![c] = IF pc[c] = "reserving" THEN "select" ELSE "update"]
    /\ UNCHANGED <<day, rows, disk, pc, date, target, abandoned>>

\* The lock is granted and the closure handed to a worker thread.
StartThread(c) ==
    /\ pc[c] \in Awaiting
    /\ lock = Free
    /\ lock' = c
    /\ thread' = [thread EXCEPT ![c] = IF pc[c] = "reserving" THEN "select" ELSE "update"]
    /\ UNCHANGED <<day, rows, disk, pc, date, target, abandoned>>

\* The closure's result, or its BudgetExceededError, reaches the task.
Resume(c) ==
    /\ lock = c
    /\ thread[c] \in {"done", "over"}
    /\ pc' = [pc EXCEPT ![c] = IF thread[c] = "over" THEN "refused"
                               ELSE IF pc[c] = "reserving" THEN "reserved"
                               ELSE "settled"]
    /\ lock' = Free
    /\ thread' = [thread EXCEPT ![c] = "none"]
    /\ UNCHANGED <<day, rows, disk, date, target, abandoned>>

\* Cancelled while no closure runs: waiting for the lock, between reserve and
\* settle, or with the closure finished and its result not yet delivered.
Cancel(c) ==
    /\ pc[c] \in Awaiting \cup {"reserved"}
    /\ ~Running(c)
    /\ pc' = [pc EXCEPT ![c] = "gone"]
    /\ lock' = IF lock = c THEN Free ELSE lock
    /\ thread' = [thread EXCEPT ![c] = "none"]
    /\ UNCHANGED <<day, rows, disk, date, target, abandoned>>

\* Mutant: the lock is not released when the awaiting task is cancelled.
AbandonLocked(c) ==
    /\ pc[c] \in Awaiting
    /\ Running(c)
    /\ pc' = [pc EXCEPT ![c] = "gone"]
    /\ abandoned' = abandoned \cup {c}
    /\ UNCHANGED <<day, rows, disk, date, target, lock, thread>>

\* Cancelled while the closure runs: the lock is freed, the thread goes on.
Abandon(c) ==
    /\ pc[c] \in Awaiting
    /\ Running(c)
    /\ pc' = [pc EXCEPT ![c] = "gone"]
    /\ lock' = Free
    /\ abandoned' = abandoned \cup {c}
    /\ UNCHANGED <<day, rows, disk, date, target, thread>>

-----------------------------------------------------------------------------
(* The closures, in worker threads.                                        *)

Select(c) ==
    /\ thread[c] = "select"
    /\ thread' = [thread EXCEPT ![c] =
                    IF Fits(rows, c, date[c]) THEN "insert" ELSE "over"]
    /\ UNCHANGED <<day, rows, disk, pc, date, target, lock, abandoned>>

\* Mutant: reserve() returns without connection.commit().
InsertUncommitted(c) ==
    /\ thread[c] = "insert"
    /\ rows' = Entered(rows, c, date[c])
    /\ thread' = [thread EXCEPT ![c] = "done"]
    /\ UNCHANGED <<day, disk, pc, date, target, lock, abandoned>>

Insert(c) ==
    /\ thread[c] = "insert"
    /\ rows' = Entered(rows, c, date[c])
    /\ thread' = [thread EXCEPT ![c] = "commit"]
    /\ UNCHANGED <<day, disk, pc, date, target, lock, abandoned>>

Update(c) ==
    /\ thread[c] = "update"
    /\ rows' = Settled(rows, c, target[c])
    /\ thread' = [thread EXCEPT ![c] = "commit"]
    /\ UNCHANGED <<day, disk, pc, date, target, lock, abandoned>>

\* COMMIT ends the connection's transaction, whoever's statements are in it.
Commit(c) ==
    /\ thread[c] = "commit"
    /\ disk' = rows
    /\ thread' = [thread EXCEPT ![c] = "done"]
    /\ UNCHANGED <<day, rows, pc, date, target, lock, abandoned>>

\* An abandoned closure returns to nobody.
ThreadExit(c) ==
    /\ pc[c] = "gone"
    /\ thread[c] \in {"done", "over"}
    /\ thread' = [thread EXCEPT ![c] = "none"]
    /\ UNCHANGED <<day, rows, disk, pc, date, target, lock, abandoned>>

-----------------------------------------------------------------------------
\* prune(), called by the state sweeper: DELETE and COMMIT under the lock.
Prune ==
    /\ lock = Free
    /\ rows' = Pruned(rows, day)
    /\ disk' = rows'
    /\ UNCHANGED <<day, pc, date, target, lock, thread, abandoned>>

NewDay ==
    /\ day < MaxDay
    /\ day' = day + 1
    /\ UNCHANGED <<rows, disk, pc, date, target, lock, thread, abandoned>>

\* Mutant: the open transaction is not rolled back.
CrashKeeping ==
    /\ pc' = [c \in Calls |-> IF pc[c] \in Awaiting \cup {"reserved"} THEN "gone" ELSE pc[c]]
    /\ lock' = Free
    /\ thread' = [c \in Calls |-> "none"]
    /\ UNCHANGED <<day, rows, disk, date, target, abandoned>>

\* The process dies: tasks, threads and the open transaction are lost.  Calls
\* not yet made will find a restarted server.
Crash ==
    /\ pc' = [c \in Calls |-> IF pc[c] \in Awaiting \cup {"reserved"} THEN "gone" ELSE pc[c]]
    /\ rows' = disk
    /\ lock' = Free
    /\ thread' = [c \in Calls |-> "none"]
    /\ UNCHANGED <<day, disk, date, target, abandoned>>

Closure(c) == Select(c) \/ Insert(c) \/ Update(c) \/ Commit(c) \/ ThreadExit(c)

Next ==
    \/ \E c \in Calls :
          \/ CallReserve(c)
          \/ \E s \in Outcomes : CallSettle(c, s)
          \/ StartThread(c) \/ Resume(c)
          \/ Cancel(c) \/ Abandon(c)
          \/ Select(c) \/ Insert(c) \/ Update(c) \/ Commit(c) \/ ThreadExit(c)
    \/ Prune \/ NewDay \/ Crash

\* The event loop runs every ready task and the executor every closure.  A
\* weakly fair lock is enough: a call takes it at most twice.
Fairness ==
    \A c \in Calls : WF_vars(StartThread(c)) /\ WF_vars(Resume(c)) /\ WF_vars(Closure(c))

Spec == Init /\ [][Next]_vars
FairSpec == Spec /\ Fairness

-----------------------------------------------------------------------------
(* Properties.                                                             *)

\* What the calls that were never abandoned have spent.
KeptSpent(table, o, d) ==
    Amount(LiveCalls(table, o, d) \ abandoned)

\* The check of reserve() holds against every interleaving: whatever
\* abandoned closures write, the other calls of an owner never reserve more
\* than the daily limit, neither in the open transaction nor on disk (so not
\* after a crash either).
LimitWithoutAbandoned ==
    DailyLimit # 0 =>
        \A o \in Owners, d \in Days :
            KeptSpent(rows, o, d) <= DailyLimit /\ KeptSpent(disk, o, d) <= DailyLimit

\* The lock does its work until a task is abandoned: a closure that somebody
\* still waits for runs alone among such closures, its task being the one
\* inside `async with lock`.
AwaitedThreadHoldsLock ==
    \A c \in Calls : Running(c) /\ c \notin abandoned => lock = c /\ pc[c] \in Awaiting

\* What a task was told survives a crash: a reservation it was given, and a
\* status it saw set, are in the committed table unless pruned for age.
AnswerIsDurable ==
    \A c \in Calls :
        /\ pc[c] \in {"reserved", "settling"} =>
              \/ disk[c].status = "absent" /\ date[c] + PruneAge < day
              \/ disk[c].date = date[c] /\ IsLive(disk[c])
              \/ pc[c] = "settling" /\ disk[c].status = target[c]
        /\ pc[c] = "settled" =>
              \/ disk[c].status = "absent" /\ date[c] + PruneAge < day
              \/ disk[c] = [status |-> target[c], date |-> date[c]]

\* As long as no closure has been abandoned the ledger implements the budget:
\* what the statements of one closure do is, on disk, one atomic step.
ImplementsBudget ==
    /\ Promise!Init
    /\ [][abandoned' = {} => Promise!Next]_(Promise!vars)

\* A task that waits for the ledger is answered or cancelled; an abandoned
\* thread does not keep the lock from the others.
AnswersArrive ==
    \A c \in Calls : pc[c] \in Awaiting ~> pc[c] \notin Awaiting

\* Claimed by docs/runtime.md: a reservation that would exceed the limit is
\* rejected, so the live rows of an owner and day never exceed it.
DailyLimitHolds == WithinLimit(disk)
=============================================================================
