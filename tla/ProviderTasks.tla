--------------------------- MODULE ProviderTasks ---------------------------
(***************************************************************************)
(* The tools that list, cancel and delete provider tasks: Seedance's and   *)
(* the ones shared by Hyper3D and Hitem3D, which do the same.              *)
(*                                                                         *)
(* Cancel and delete are one HTTP DELETE whose meaning depends on the      *)
(* task's status when it arrives: a queued task is cancelled, the record   *)
(* of a finished one is removed, others refuse.  The tool reads the status *)
(* in an earlier request and compares it with what its caller expects; the *)
(* task lives on in between and between the attempts of call_with_retry.   *)
(* A listing is filtered by the ids the caller owns; the provider takes an *)
(* absent or empty filter for "all".                                       *)
(***************************************************************************)
EXTENDS OwnershipRows

CONSTANTS
    Tasks,              \* provider tasks
    TaskOwner,          \* who created each (its row in task_ownership)
    Requests,           \* requests of callers
    CallerOf,           \* who makes each
    MaxDeleteAttempts   \* RetryPolicy.max_attempts

ASSUME TasksAssumption ==
    TaskOwner \in [Tasks -> Principals] /\ CallerOf \in [Requests -> Principals]
ASSUME DeleteAttemptsAssumption == MaxDeleteAttempts \in Nat \ {0}

VARIABLES
    taskRows,   \* the rows of "modelark" in task_ownership
    status,     \* the provider's tasks
    req,        \* per request: what it asks, where it is, its attempts
    effect,     \* per request: its DELETEs that took effect, see Effects (history)
    listed      \* per request: tasks it was shown (history)

taskVars == <<taskRows, status, req, effect, listed>>

-----------------------------------------------------------------------------
Cancelable == {"queued"}
Deletable == {"succeeded", "failed", "expired"}
Statuses == Cancelable \cup Deletable \cup {"running", "cancelled", "removed"}
Asks == [mode : {"cancel"}, expected : Cancelable] \cup [mode : {"delete"}, expected : Deletable]
TaskKey(t) == <<"modelark", t>>
OwnedTasks(o) == {t \in Tasks : TaskKey(t) \in OwnedKeys(taskRows, "modelark", o)}

\* A request ends with an answer ("ok", "error") or without one ("gone").
ReqPlaces == {"idle", "fetch", "delete", "list", "ok", "error", "gone"}
InProgress == {"fetch", "delete", "list"}
Filters == SUBSET Tasks
Effects == [task : Tasks, ask : Asks, before : Statuses, after : Statuses]

NoAsk == [at |-> "idle", ask |-> [mode |-> "cancel", expected |-> "queued"],
          task |-> CHOOSE t \in Tasks : TRUE, filter |-> {}, attempts |-> 0]

TasksTypeOK ==
    /\ taskRows \subseteq OwnerRow({TaskKey(t) : t \in Tasks}, {0})
    /\ status \in [Tasks -> Statuses]
    /\ req \in [Requests -> [at : ReqPlaces, ask : Asks, task : Tasks \cup {NoAsk.task},
                             filter : Filters, attempts : 0 .. MaxDeleteAttempts - 1]]
    /\ \A r \in Requests : effect[r] \subseteq Effects
    /\ listed \in [Requests -> SUBSET Tasks]

TasksInit ==
    /\ taskRows = {[key |-> TaskKey(t), owner |-> TaskOwner[t], at |-> 0] : t \in Tasks}
    /\ status = [t \in Tasks |-> "queued"]
    /\ req = [r \in Requests |-> NoAsk]
    /\ effect = [r \in Requests |-> {}]
    /\ listed = [r \in Requests |-> {}]

-----------------------------------------------------------------------------
(* Cancel and delete                                                       *)

To(r, place) == req' = [req EXCEPT ![r].at = place]
\* A request that has ended keeps nothing.
End(r, place) == req' = [req EXCEPT ![r] = [NoAsk EXCEPT !.at = place]]

\* The input's validator pairs mode and expected status; require_owner().
AskChange(r, t, ask) ==
    /\ req[r].at = "idle"
    /\ IF MayUse(taskRows, TaskKey(t), CallerOf[r])
       THEN req' = [req EXCEPT ![r] = [NoAsk EXCEPT !.ask = ask, !.task = t, !.at = "fetch"]]
       ELSE End(r, "error")
    /\ UNCHANGED <<taskRows, status, effect, listed>>

\* Mutant: any status the mode accepts will do.
MatchesMode(r) == status[req[r].task] \in IF req[r].ask.mode = "cancel" THEN Cancelable ELSE Deletable

\* get_task() and the comparison with the expected status; another status, a
\* record that is gone and a provider that fails are errors.
MatchesExpected(r) == status[req[r].task] = req[r].ask.expected
FetchStatus(r) ==
    /\ req[r].at = "fetch"
    /\ \/ End(r, "error")
       \/ status[req[r].task] # "removed" /\ MatchesExpected(r) /\ To(r, "delete")
    /\ UNCHANGED <<taskRows, status, effect, listed>>

\* What the provider does with a DELETE (external).
Applicable(t) == status[t] \in Cancelable \cup Deletable
Applied(t) == IF status[t] \in Cancelable THEN "cancelled" ELSE "removed"
Execute(r) ==
    LET t == req[r].task
    IN  /\ Applicable(t)
        /\ status' = [status EXCEPT ![t] = Applied(t)]
        /\ effect' = [effect EXCEPT ![r] = @ \cup
              {[task |-> t, ask |-> req[r].ask, before |-> status[t], after |-> Applied(t)]}]


\* call_with_retry: after 429 or a transport error there is another attempt,
\* after a timeout, a 5xx (ambiguous for a mutation) or a 4xx there is not.
RetryOrFail(r) ==
    IF req[r].attempts + 1 < MaxDeleteAttempts
    THEN req' = [req EXCEPT ![r].attempts = @ + 1]
    ELSE End(r, "error")

\* The DELETE is executed and answered.
DeleteAnswered(r) ==
    /\ req[r].at = "delete"
    /\ Execute(r)
    /\ End(r, "ok")
    /\ UNCHANGED <<taskRows, listed>>

\* The DELETE is executed and its answer lost: transport error, or timeout or 5xx.
DeleteUnanswered(r) ==
    /\ req[r].at = "delete"
    /\ Execute(r)
    /\ RetryOrFail(r) \/ End(r, "error")
    /\ UNCHANGED <<taskRows, listed>>

\* It is not executed: 429 or no connection, or a task that refuses (4xx) or a
\* provider that fails.
DeleteFails(r) ==
    /\ req[r].at = "delete"
    /\ RetryOrFail(r) \/ End(r, "error")
    /\ UNCHANGED <<taskRows, status, effect, listed>>

-----------------------------------------------------------------------------
(* Listing                                                                 *)

\* list_task_ids() narrows what a remote caller asks for (all of its tasks when
\* it names none); when nothing is left it is answered without the provider.
Narrowed(o, named, all) ==
    IF o \in LocalPrincipals THEN named ELSE IF all THEN OwnedTasks(o) ELSE named \cap OwnedTasks(o)
NeedsProviderAlways(o, filter) == TRUE  \* Mutant: an empty filter is sent on.
NeedsProvider(o, filter) == o \in LocalPrincipals \/ filter # {}
AskList(r, named, all) ==
    LET filter == Narrowed(CallerOf[r], named, all)
    IN  /\ req[r].at = "idle"
        /\ all => named = {}
        /\ IF NeedsProvider(CallerOf[r], filter)
           THEN req' = [req EXCEPT ![r].filter = filter, ![r].at = "list"]
           ELSE End(r, "ok")
        /\ UNCHANGED <<taskRows, status, effect, listed>>

\* The provider's page: without a filter every task of the account.
ListAnswered(r) ==
    /\ req[r].at = "list"
    /\ listed' = [listed EXCEPT ![r] =
          {t \in Tasks : status[t] # "removed" /\ (req[r].filter # {} => t \in req[r].filter)}]
    /\ End(r, "ok")
    /\ UNCHANGED <<taskRows, status, effect>>
ListFails(r) ==
    /\ req[r].at = "list"
    /\ End(r, "error")
    /\ UNCHANGED <<taskRows, status, effect, listed>>

-----------------------------------------------------------------------------
(* Around them                                                             *)

\* The client is gone or the process dies, whatever the provider still does
\* with a request that was sent.
Interrupt(r) ==
    /\ req[r].at \in InProgress
    /\ End(r, "gone")
    /\ \/ UNCHANGED <<status, effect>>
       \/ req[r].at = "delete" /\ Execute(r)
    /\ UNCHANGED <<taskRows, listed>>

\* The provider's own life of a task.
Advances(s) ==
    IF s = "queued" THEN {"running", "expired"}
    ELSE IF s = "running" THEN {"succeeded", "failed", "expired"} ELSE {}
Advance(t) ==
    /\ \E s \in Advances(status[t]) : status' = [status EXCEPT ![t] = s]
    /\ UNCHANGED <<taskRows, req, effect, listed>>

\* prune() of the ownership rows, by age.
ForgetOwner(t) ==
    /\ HasRow(taskRows, TaskKey(t))
    /\ taskRows' = taskRows \ RowsOf(taskRows, TaskKey(t))
    /\ UNCHANGED <<status, req, effect, listed>>

TasksNext ==
    \/ \E r \in Requests :
          \/ \E t \in Tasks, ask \in Asks : AskChange(r, t, ask)
          \/ FetchStatus(r) \/ DeleteAnswered(r) \/ DeleteUnanswered(r) \/ DeleteFails(r)
          \/ \E named \in Filters, all \in BOOLEAN : AskList(r, named, all)
          \/ ListAnswered(r) \/ ListFails(r) \/ Interrupt(r)
    \/ \E t \in Tasks : Advance(t) \/ ForgetOwner(t)

TasksSpec == TasksInit /\ [][TasksNext]_taskVars

-----------------------------------------------------------------------------
(* Properties                                                              *)

\* In mode "delete" the record removed is in the status its caller expected,
\* although the status was read in an earlier request: the statuses the mode
\* accepts are final.
DeletesAreExpected ==
    \A r \in Requests : \A e \in effect[r] :
        e.ask.mode = "delete" => e.before = e.ask.expected /\ e.after = "removed"

\* A remote caller changes and sees its own tasks only, also when its ownership
\* rows are pruned and nothing is left to filter by.
TasksArePrivate ==
    \A r \in Requests : CallerOf[r] \notin LocalPrincipals =>
        \A t \in listed[r] \cup {e.task : e \in effect[r]} : TaskOwner[t] = CallerOf[r]
=============================================================================
