----------------------------- MODULE BilledCall -----------------------------
(***************************************************************************)
(* A billable provider call from the tool handler to the ownership record: *)
(* billed_provider_slot of runtime.py around call_with_retry of            *)
(* providers/retry.py around a gateway that creates a task                 *)
(* (execute_seedance_create and execute_seed3d_create).                    *)
(*                                                                         *)
(*   reserve -> acquire permits -> HTTP attempts -> give permits back      *)
(*           -> commit or release -> record the task's owner               *)
(*                                                                         *)
(* Many calls run at once, any of them may be cancelled at any await (by   *)
(* the client or by the timeout of gather_with_timeout), and the process   *)
(* may die between any two steps.  A ledger or ownership statement whose   *)
(* task is cancelled still takes effect if its thread had been started.    *)
(*                                                                         *)
(* Ledger operations are atomic here; BudgetLedger says when they are.     *)
(* The provider is external: each attempt is answered by one of Answers,   *)
(* having executed the request or not.                                     *)
(***************************************************************************)
EXTENDS BudgetRows, ProviderLimiters

CONSTANT MaxAttempts   \* RetryPolicy.max_attempts

ASSUME AttemptsAssumption == MaxAttempts \in Nat \ {0}

VARIABLES
    day,       \* the UTC date
    rows,      \* the budget_reservations table
    phase,     \* where each call is
    usage,     \* usage_date of its reservation
    attempt,   \* HTTP attempts made
    verdict,   \* how its last attempt left billed_provider_slot
    charges,   \* history: attempts that the provider executed
    lost,      \* history: an executed attempt was reported as failed, unambiguously
    owned      \* the created task has an ownership record

callVars == <<phase, usage, attempt, verdict, charges, lost, owned>>
vars == <<limiterVars, day, rows, callVars>>

Promise == INSTANCE Budget

-----------------------------------------------------------------------------
Phases == {"idle", "refused", "slot", "calling", "backoff", "settling", "recording",
           "done", "failed", "cancelled", "crashed"}
Ended == {"refused", "done", "failed", "cancelled", "crashed"}
InSlot == {"slot", "calling", "backoff"}
Verdicts == {"none", "success", "ambiguous", "failure"}

\* What a gateway's create_task may meet: success, a 2xx whose body cannot be
\* read (INVALID_RESPONSE), a timeout, a refused connection, a transport error
\* after the connection was made, and the statuses 429, 5xx and other 4xx.
Answer(kind, executed) == [kind |-> kind, executed |-> executed]
Answers ==
    {Answer(k, TRUE) : k \in {"ok", "unreadable", "timeout", "transport", "5xx"}}
    \cup {Answer(k, FALSE) : k \in {"timeout", "connect", "transport", "429", "5xx", "4xx"}}

\* NormalizedProviderError.retryable and .ambiguous_completion of a mutation.
Retryable(a) == a.kind \in {"connect", "transport", "429", "5xx"}
Ambiguous(a) == a.kind \in {"timeout", "5xx"}

Verdict(a) ==
    IF a.kind = "ok" THEN "success" ELSE IF Ambiguous(a) THEN "ambiguous" ELSE "failure"

\* billed_provider_slot: commit after success and after an ambiguous error.
TargetOf(v) == IF v = "failure" THEN "released" ELSE "committed"

CallsTypeOK ==
    /\ LimitersTypeOK
    /\ day \in Days
    /\ rows \in [Calls -> Row]
    /\ phase \in [Calls -> Phases]
    /\ usage \in [Calls -> Days]
    /\ attempt \in [Calls -> 0 .. MaxAttempts]
    /\ verdict \in [Calls -> Verdicts]
    /\ charges \in [Calls -> 0 .. MaxAttempts]
    /\ lost \in [Calls -> BOOLEAN]
    /\ owned \in [Calls -> BOOLEAN]

Init ==
    /\ LimitersInit
    /\ day = 0
    /\ rows = [c \in Calls |-> NoRow]
    /\ phase = [c \in Calls |-> "idle"]
    /\ usage = [c \in Calls |-> 0]
    /\ attempt = [c \in Calls |-> 0]
    /\ verdict = [c \in Calls |-> "none"]
    /\ charges = [c \in Calls |-> 0]
    /\ lost = [c \in Calls |-> FALSE]
    /\ owned = [c \in Calls |-> FALSE]

Goto(c, p) == phase' = [phase EXCEPT ![c] = p]

-----------------------------------------------------------------------------
(* billed_provider_slot: entry.                                            *)

\* Mutant: the limit is not checked before the row is entered.
ReserveUnchecked(c) ==
    /\ phase[c] = "idle"
    /\ rows' = Entered(rows, c, day)
    /\ usage' = [usage EXCEPT ![c] = day]
    /\ Enter(c)
    /\ Goto(c, "slot")
    /\ UNCHANGED <<day, attempt, verdict, charges, lost, owned>>

Reserve(c) ==
    /\ phase[c] = "idle"
    /\ Promise!Reserve(c, day)
    /\ usage' = [usage EXCEPT ![c] = day]
    /\ Enter(c)
    /\ Goto(c, "slot")
    /\ UNCHANGED <<attempt, verdict, charges, lost, owned>>

\* BudgetExceededError, before anything is sent.
Refuse(c) ==
    /\ phase[c] = "idle"
    /\ ~Fits(rows, c, day)
    /\ Goto(c, "refused")
    /\ UNCHANGED <<limiterVars, day, rows, usage, attempt, verdict, charges, lost, owned>>

Acquire(c) ==
    /\ phase[c] = "slot"
    /\ Lookup(c) \/ TakeProvider(c) \/ TakePrincipal(c)
    /\ UNCHANGED <<day, rows, callVars>>

-----------------------------------------------------------------------------
(* call_with_retry: attempts.                                              *)

Dispatch(c) ==
    /\ \/ phase[c] = "slot" /\ at[c] = "in"
       \/ phase[c] = "backoff"
    /\ attempt' = [attempt EXCEPT ![c] = @ + 1]
    /\ Goto(c, "calling")
    /\ UNCHANGED <<limiterVars, day, rows, usage, verdict, charges, lost, owned>>

\* The provider's side of an attempt answered by a.
Executed(c, a) ==
    /\ charges' = [charges EXCEPT ![c] = IF a.executed THEN @ + 1 ELSE @]
    /\ lost' = [lost EXCEPT ![c] = @ \/ (a.executed /\ Verdict(a) = "failure")]

\* Mutant: a retry of what may have been done already.
WillRetryBlindly(c, a) == a.kind # "ok" /\ attempt[c] < MaxAttempts

WillRetry(c, a) == Retryable(a) /\ ~Ambiguous(a) /\ attempt[c] < MaxAttempts

Retry(c, a) ==
    /\ phase[c] = "calling"
    /\ WillRetry(c, a)
    /\ Executed(c, a)
    /\ Goto(c, "backoff")
    /\ UNCHANGED <<limiterVars, day, rows, usage, attempt, verdict, owned>>

\* Mutant: the owner is recorded before the reservation is committed.
ReturnRecording(c, a) ==
    /\ phase[c] = "calling"
    /\ ~WillRetry(c, a)
    /\ Executed(c, a)
    /\ Leave(c)
    /\ verdict' = [verdict EXCEPT ![c] = Verdict(a)]
    /\ Goto(c, IF Verdict(a) = "success" THEN "recording" ELSE "settling")
    /\ UNCHANGED <<day, rows, usage, attempt, owned>>

\* The attempt's result or error leaves the slot: the permits go back first.
Return(c, a) ==
    /\ phase[c] = "calling"
    /\ ~WillRetry(c, a)
    /\ Executed(c, a)
    /\ Leave(c)
    /\ verdict' = [verdict EXCEPT ![c] = Verdict(a)]
    /\ Goto(c, "settling")
    /\ UNCHANGED <<day, rows, usage, attempt, owned>>

-----------------------------------------------------------------------------
(* billed_provider_slot: exit, and the handler after it.                   *)

AfterSettle(c) == IF verdict[c] = "success" THEN "recording" ELSE "failed"

Settle(c) ==
    /\ phase[c] = "settling"
    /\ rows' = Settled(rows, c, TargetOf(verdict[c]))
    /\ Goto(c, AfterSettle(c))
    /\ UNCHANGED <<limiterVars, day, usage, attempt, verdict, charges, lost, owned>>

Record(c) ==
    /\ phase[c] = "recording"
    /\ owned' = [owned EXCEPT ![c] = TRUE]
    /\ Goto(c, "done")
    /\ UNCHANGED <<limiterVars, day, rows, usage, attempt, verdict, charges, lost>>

-----------------------------------------------------------------------------
(* Cancellation.  CancelledError is no Exception: no handler of the slot   *)
(* catches it, only the `async with` of the permits unwinds.               *)

\* Mutant: the permits are not given back to the semaphores.
CancelLeaking(c) ==
    /\ phase[c] \in InSlot
    /\ at' = [at EXCEPT ![c] = "out"]
    /\ Goto(c, "cancelled")
    /\ UNCHANGED <<provFree, provQueue, prinFree, prinQueue, cached, made, sem>>
    /\ UNCHANGED <<day, rows, usage, attempt, verdict, charges, lost, owned>>

CancelInSlot(c) ==
    /\ phase[c] \in InSlot
    /\ Withdraw(c) \/ Leave(c)
    /\ \/ UNCHANGED charges
       \/ phase[c] = "calling" /\ charges' = [charges EXCEPT ![c] = @ + 1]
    /\ Goto(c, "cancelled")
    /\ UNCHANGED <<day, rows, usage, attempt, verdict, lost, owned>>

\* Waiting for a store's lock: the statement is never run.
CancelWaiting(c) ==
    /\ phase[c] \in {"settling", "recording"}
    /\ Goto(c, "cancelled")
    /\ UNCHANGED <<limiterVars, day, rows, usage, attempt, verdict, charges, lost, owned>>

\* In the store's thread: the statement takes effect for nobody.
AbandonReserve(c) ==
    /\ phase[c] = "idle"
    /\ Promise!Reserve(c, day)
    /\ usage' = [usage EXCEPT ![c] = day]
    /\ Goto(c, "cancelled")
    /\ UNCHANGED <<limiterVars, attempt, verdict, charges, lost, owned>>

AbandonSettle(c) ==
    /\ phase[c] = "settling"
    /\ rows' = Settled(rows, c, TargetOf(verdict[c]))
    /\ Goto(c, "cancelled")
    /\ UNCHANGED <<limiterVars, day, usage, attempt, verdict, charges, lost, owned>>

AbandonRecord(c) ==
    /\ phase[c] = "recording"
    /\ owned' = [owned EXCEPT ![c] = TRUE]
    /\ Goto(c, "cancelled")
    /\ UNCHANGED <<limiterVars, day, rows, usage, attempt, verdict, charges, lost>>

-----------------------------------------------------------------------------
\* The process dies and starts again: tables stay, tasks and semaphores are
\* lost; the provider may have executed the requests in flight.
Crash ==
    /\ \E S \in SUBSET {c \in Calls : phase[c] = "calling"} :
          charges' = [c \in Calls |-> IF c \in S THEN charges[c] + 1 ELSE charges[c]]
    /\ phase' = [c \in Calls |-> IF phase[c] \in Ended \cup {"idle"} THEN phase[c] ELSE "crashed"]
    /\ at' = [c \in Calls |-> "out"]
    /\ provFree' = [p \in Providers |-> ProviderLimit]
    /\ provQueue' = [p \in Providers |-> <<>>]
    /\ prinFree' = [s \in Owners \X Gens |-> PrincipalLimit]
    /\ prinQueue' = [s \in Owners \X Gens |-> <<>>]
    /\ cached' = [o \in Owners |-> 0]
    /\ made' = [o \in Owners |-> 0]
    /\ sem' = [c \in Calls |-> 0]
    /\ UNCHANGED <<day, rows, usage, attempt, verdict, lost, owned>>

NewDay == Promise!NewDay /\ UNCHANGED <<limiterVars, callVars>>

\* The state sweeper.
Prune == Promise!Prune /\ UNCHANGED <<limiterVars, callVars>>

ExpirePrincipal(o) == Expire(o) /\ UNCHANGED <<day, rows, callVars>>

Step(c) ==
    \/ Reserve(c) \/ Refuse(c) \/ Acquire(c) \/ Dispatch(c)
    \/ \E a \in Answers : Retry(c, a) \/ Return(c, a)
    \/ Settle(c) \/ Record(c)

Interrupt(c) ==
    \/ CancelInSlot(c) \/ CancelWaiting(c)
    \/ AbandonReserve(c) \/ AbandonSettle(c) \/ AbandonRecord(c)

Next ==
    \/ \E c \in Calls : Step(c) \/ Interrupt(c)
    \/ \E o \in Owners : ExpirePrincipal(o)
    \/ NewDay \/ Prune \/ Crash

\* Ready tasks run, attempts are answered or time out, sleeps end.
Fairness == \A c \in Calls : WF_vars(phase[c] # "idle" /\ Step(c))

Spec == Init /\ [][Next]_vars
FairSpec == Spec /\ Fairness

-----------------------------------------------------------------------------
(* Properties.                                                             *)

\* Pruned for age: the row and what it counted are history.
Aged(c) == usage[c] + PruneAge < day

\* What the provider executed is counted against the budget, through
\* timeouts, server errors, retries, cancellations and crashes, as long as no
\* executed attempt was reported as a plain failure.
ExecutedIsCounted ==
    \A c \in Calls : charges[c] > 0 /\ ~lost[c] => IsLive(rows[c]) \/ Aged(c)

\* The retry loop never executes a call twice, with the same exception.
ExecutedOnce ==
    \A c \in Calls : charges[c] <= 1 \/ lost[c]

\* The point of the ledger: what was really executed for an owner on a day
\* stays within the daily limit, with the same exception.
ExecutedWithinLimit ==
    DailyLimit # 0 =>
        \A o \in Owners, d \in Days :
            d + PruneAge >= day =>
                Amount({c \in Calls : /\ OwnerOf[c] = o /\ usage[c] = d
                                      /\ charges[c] > 0 /\ ~lost[c]}) <= DailyLimit

\* A task that somebody owns has been paid for: the ownership record is
\* written after the reservation is committed, and neither is undone.
OwnedIsCommitted ==
    \A c \in Calls : owned[c] => rows[c].status = "committed" \/ Aged(c)

\* A call has permits, or a place in a queue for them, only while it is in the
\* slot: not while it waits for a store, and not after it ended, however it did.
PermitsOnlyInSlot ==
    \A c \in Calls : /\ at[c] # "out" <=> phase[c] \in InSlot
                     /\ phase[c] \in {"calling", "backoff"} => at[c] = "in"

\* Every ledger step of the calls is a step of the abstract budget.
ImplementsBudget == Promise!Spec

\* Whatever happens to other calls, each call ends: no permit and no queue
\* place is left behind by one that failed or was cancelled.
CallsEnd ==
    \A c \in Calls : phase[c] # "idle" ~> phase[c] \in Ended

\* Claimed by domain/errors.py and docs/runtime.md: only what can be safely
\* retried is retried, so no call is executed twice.
RetriesAreSafe == \A c \in Calls : charges[c] <= 1
=============================================================================
