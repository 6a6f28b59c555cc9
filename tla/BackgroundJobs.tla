--------------------------- MODULE BackgroundJobs ---------------------------
(***************************************************************************)
(* Background jobs: ark_job_submit / get / cancel and the protocol's own   *)
(* task requests (TenantTasksExtension), the ownership claims that guard   *)
(* them, and guard_task_execution in the worker.                           *)
(*                                                                         *)
(* The queue and its results are the FastMCP task backend, which is        *)
(* external: it delivers a job, delivers it again when it believes the     *)
(* worker lost, and forgets it some days after it was created.  The server *)
(* claims a job under "mcp" for its submitter after it is enqueued, and    *)
(* under "mcp-execution" when a required job first reaches its handler.    *)
(* Job ids are fresh, so a claim never meets the row of another principal. *)
(***************************************************************************)
EXTENDS OwnershipRows, FiniteSets

CONSTANTS
    Jobs,            \* background jobs, named by their ids
    SubmitterOf,     \* who submits each
    NativeJobs,      \* submitted by a task-augmented tools/call, not ark_job_submit
    RequiredJobs,    \* their tools run as tasks only and are guarded
    MaxDeliveries,   \* bound: deliveries of one job
    DeliveryDays,    \* days after its creation in which the backend delivers a job
    MaxJobDay        \* bound: last day

ASSUME JobsAssumption ==
    SubmitterOf \in [Jobs -> Principals] /\ NativeJobs \subseteq Jobs /\ RequiredJobs \subseteq Jobs
ASSUME DeliveryAssumption == MaxDeliveries \in Nat /\ DeliveryDays \in Nat /\ MaxJobDay \in Nat
\* The queue must not outlive the claims: "the queue, database and configured
\* snapshot encryption key must stay together" (docs/runtime.md).
ASSUME ClaimsOutliveQueue == DeliveryDays <= RetentionDays

VARIABLES
    jobRows,    \* task_ownership
    jobDay,     \* the date
    submit,     \* where the submission of each job is
    backend,    \* what the backend says of each job
    born,       \* the day each job was enqueued
    attempt,    \* where each delivery of each job is
    started,    \* deliveries that entered the handler (history)
    shown       \* <<principal, job>>: remote principals shown another's job (history)

jobVars == <<jobRows, jobDay, submit, backend, born, attempt, started, shown>>

-----------------------------------------------------------------------------
Deliveries == 1 .. MaxDeliveries
SubmitPlaces == {"idle", "enqueued", "claimed", "accepted", "failed"}
BackendStates == {"none", "queued", "working", "completed", "failed", "cancelled", "forgotten"}
AttemptPlaces == {"none", "fetched", "claimed", "refused", "running", "over"}
Alive == {"fetched", "claimed", "refused", "running"}
Terminal == {"completed", "failed", "cancelled", "forgotten"}

Strangers == {q \in (Principals \ LocalPrincipals) \X Jobs : q[1] # SubmitterOf[q[2]]}

OwnerKey(j) == <<"mcp", j>>
ExecutionKey(j) == <<"mcp-execution", j>>
JobKeys == {"mcp", "mcp-execution"} \X Jobs

JobsTypeOK ==
    /\ jobRows \subseteq OwnerRow(JobKeys, 0 .. MaxJobDay)
    /\ jobDay \in 0 .. MaxJobDay
    /\ submit \in [Jobs -> SubmitPlaces]
    /\ backend \in [Jobs -> BackendStates]
    /\ born \in [Jobs -> 0 .. MaxJobDay]
    /\ attempt \in [Jobs \X Deliveries -> AttemptPlaces]
    /\ started \subseteq Jobs \X Deliveries
    /\ shown \subseteq Principals \X Jobs

JobsInit ==
    /\ jobRows = {}
    /\ jobDay = 0
    /\ submit = [j \in Jobs |-> "idle"]
    /\ backend = [j \in Jobs |-> "none"]
    /\ born = [j \in Jobs |-> 0]
    /\ attempt = [d \in Jobs \X Deliveries |-> "none"]
    /\ started = {}
    /\ shown = {}

-----------------------------------------------------------------------------
(* Submission                                                              *)

\* BackgroundJobBridge.submit() or the extension's tools/call: the job is in
\* the queue before anybody owns it.  (An unknown target, a missing scope or
\* arguments that do not fit end the call before this and change nothing.)
Enqueue(j) ==
    /\ submit[j] = "idle"
    /\ submit' = [submit EXCEPT ![j] = "enqueued"]
    /\ backend' = [backend EXCEPT ![j] = "queued"]
    /\ born' = [born EXCEPT ![j] = jobDay]
    /\ UNCHANGED <<jobRows, jobDay, attempt, started, shown>>

\* Mutant: the claim is entered without its namespace.
ClaimOwnerBare(j) ==
    /\ submit[j] = "enqueued"
    /\ submit' = [submit EXCEPT ![j] = "claimed"]
    /\ jobRows' = Claimed(jobRows, j, SubmitterOf[j], jobDay)
    /\ UNCHANGED <<jobDay, backend, born, attempt, started, shown>>

\* claim_mcp_task_owner(): claim() ...
ClaimOwner(j) ==
    /\ submit[j] = "enqueued"
    /\ submit' = [submit EXCEPT ![j] = "claimed"]
    /\ jobRows' = Claimed(jobRows, OwnerKey(j), SubmitterOf[j], jobDay)
    /\ UNCHANGED <<jobDay, backend, born, attempt, started, shown>>

\* ... and require_owner().
Accept(j) ==
    /\ submit[j] = "claimed"
    /\ MayUse(jobRows, OwnerKey(j), SubmitterOf[j])
    /\ submit' = [submit EXCEPT ![j] = "accepted"]
    /\ UNCHANGED <<jobRows, jobDay, backend, born, attempt, started, shown>>

\* tasks_cancel() of the backend: a live delivery is cancelled, and a claim it
\* was making may still be entered by its thread.
CancelledAttempts(j) ==
    [d \in Jobs \X Deliveries |->
        IF d[1] = j /\ attempt[d] \in Alive THEN "over" ELSE attempt[d]]
LateClaims(j) ==
    IF j \in RequiredJobs /\ \E n \in Deliveries : attempt[<<j, n>>] = "fetched"
    THEN {jobRows, Claimed(jobRows, ExecutionKey(j), SubmitterOf[j], jobDay)}
    ELSE {jobRows}
CancelInBackend(j) ==
    /\ backend' = [backend EXCEPT ![j] = IF @ \in {"queued", "working"} THEN "cancelled" ELSE @]
    /\ attempt' = CancelledAttempts(j)
    /\ jobRows' \in LateClaims(j)

\* The claim is refused (its row was pruned while the call was suspended):
\* ark_job_submit cancels the job, the protocol path only answers an error.
RefuseClaim(j) ==
    /\ submit[j] = "claimed"
    /\ ~ MayUse(jobRows, OwnerKey(j), SubmitterOf[j])
    /\ submit' = [submit EXCEPT ![j] = "failed"]
    /\ IF j \in NativeJobs THEN UNCHANGED <<backend, attempt, jobRows>> ELSE CancelInBackend(j)
    /\ UNCHANGED <<jobDay, born, started, shown>>

\* The caller is cancelled or the store fails between the queue and the claim;
\* a claim whose thread has started is entered all the same.
AbortSubmit(j) ==
    /\ submit[j] \in {"enqueued", "claimed"}
    /\ submit' = [submit EXCEPT ![j] = "failed"]
    /\ \/ jobRows' = jobRows
       \/ /\ submit[j] = "enqueued"
          /\ jobRows' = Claimed(jobRows, OwnerKey(j), SubmitterOf[j], jobDay)
    /\ UNCHANGED <<jobDay, backend, born, attempt, started, shown>>

-----------------------------------------------------------------------------
(* The worker                                                              *)

\* The backend delivers a queued job, or a working one again: its worker died
\* or did not renew its lease in time.
Deliver(j, n) ==
    /\ backend[j] \in {"queued", "working"}
    /\ jobDay <= born[j] + DeliveryDays
    /\ attempt[<<j, n>>] = "none"
    /\ \A m \in 1 .. n - 1 : attempt[<<j, m>>] # "none"
    /\ backend' = [backend EXCEPT ![j] = "working"]
    /\ attempt' = [attempt EXCEPT ![<<j, n>>] = "fetched"]
    /\ UNCHANGED <<jobRows, jobDay, submit, born, started, shown>>

\* Mutant: a delivery that finds a claim waits for it to go away.
ClaimExecutionWaiting(j, n) ==
    /\ attempt[<<j, n>>] = "fetched"
    /\ j \in RequiredJobs
    /\ ~ HasRow(jobRows, ExecutionKey(j))
    /\ attempt' = [attempt EXCEPT ![<<j, n>>] = "claimed"]
    /\ jobRows' = Claimed(jobRows, ExecutionKey(j), SubmitterOf[j], jobDay)
    /\ UNCHANGED <<jobDay, submit, backend, born, started, shown>>

\* guard_task_execution(): the first claim may go on.
ClaimExecution(j, n) ==
    /\ attempt[<<j, n>>] = "fetched"
    /\ j \in RequiredJobs
    /\ attempt' = [attempt EXCEPT ![<<j, n>>] =
                      IF HasRow(jobRows, ExecutionKey(j)) THEN "refused" ELSE "claimed"]
    /\ jobRows' = Claimed(jobRows, ExecutionKey(j), SubmitterOf[j], jobDay)
    /\ UNCHANGED <<jobDay, submit, backend, born, started, shown>>

\* The handler begins; an optional task is not guarded.
StartHandler(j, n) ==
    /\ attempt[<<j, n>>] = IF j \in RequiredJobs THEN "claimed" ELSE "fetched"
    /\ attempt' = [attempt EXCEPT ![<<j, n>>] = "running"]
    /\ started' = started \cup {<<j, n>>}
    /\ UNCHANGED <<jobRows, jobDay, submit, backend, born, shown>>

\* Mutant: the claim is released when the delivery ends.
EndAttemptReleasing(j, n) ==
    /\ attempt[<<j, n>>] \in {"refused", "running"}
    /\ attempt' = [attempt EXCEPT ![<<j, n>>] = "over"]
    /\ jobRows' = jobRows \ RowsOf(jobRows, ExecutionKey(j))
    /\ UNCHANGED <<jobDay, submit, backend, born, started, shown>>

\* The delivery ends: a refused one and a failing handler with an error.
\* Nothing of it releases the execution claim.
EndAttempt(j, n) ==
    /\ attempt[<<j, n>>] \in {"refused", "running"}
    /\ attempt' = [attempt EXCEPT ![<<j, n>>] = "over"]
    /\ backend' \in {[backend EXCEPT ![j] = IF @ = "working" THEN s ELSE @] :
                        s \in IF attempt[<<j, n>>] = "refused" THEN {"failed"}
                              ELSE {"completed", "failed"}}
    /\ UNCHANGED <<jobRows, jobDay, submit, born, started, shown>>

-----------------------------------------------------------------------------
(* Requests about a job, and time                                          *)

\* ark_job_get / tasks/get: require_owner(), then what the backend knows.
GetJob(o, j) ==
    /\ MayUse(jobRows, OwnerKey(j), o)
    /\ backend[j] \notin {"none", "forgotten"}
    /\ shown' = shown \cup ({<<o, j>>} \cap Strangers)
    /\ UNCHANGED <<jobRows, jobDay, submit, backend, born, attempt, started>>

\* ark_job_cancel / tasks/cancel.
CancelJob(o, j) ==
    /\ MayUse(jobRows, OwnerKey(j), o)
    /\ backend[j] \in {"queued", "working"}
    /\ CancelInBackend(j)
    /\ UNCHANGED <<jobDay, submit, born, started, shown>>

\* The process dies: its calls and deliveries with it; queue and table survive.
JobsCrash ==
    /\ submit' = [j \in Jobs |-> IF submit[j] \in {"enqueued", "claimed"} THEN "failed" ELSE submit[j]]
    /\ attempt' = [d \in Jobs \X Deliveries |-> IF attempt[d] \in Alive THEN "over" ELSE attempt[d]]
    /\ UNCHANGED <<jobRows, jobDay, backend, born, started, shown>>

\* The backend gives a job up: delivered as often as it delivers, or too old.
Forget(j) ==
    /\ backend[j] # "none" /\ backend[j] # "forgotten"
    /\ \/ jobDay > born[j] + DeliveryDays
       \/ \A n \in Deliveries : attempt[<<j, n>>] = "over"
    /\ backend' = [backend EXCEPT ![j] = "forgotten"]
    /\ UNCHANGED <<jobRows, jobDay, submit, born, attempt, started, shown>>

\* A delivery makes its claim on the day it arrives.
NextJobDay ==
    /\ jobDay < MaxJobDay
    /\ \A d \in Jobs \X Deliveries : attempt[d] # "fetched"
    /\ jobDay' = jobDay + 1
    /\ UNCHANGED <<jobRows, submit, backend, born, attempt, started, shown>>

\* prune() of the sweeper.
PruneOwnership ==
    /\ jobRows' = PrunedRows(jobRows, jobDay)
    /\ jobRows' # jobRows
    /\ UNCHANGED <<jobDay, submit, backend, born, attempt, started, shown>>

Attempt(j, n) ==
    Deliver(j, n) \/ ClaimExecution(j, n) \/ StartHandler(j, n) \/ EndAttempt(j, n)

JobStep(j) ==
    \/ Enqueue(j) \/ ClaimOwner(j) \/ Accept(j) \/ RefuseClaim(j) \/ AbortSubmit(j) \/ Forget(j)
    \/ \E n \in Deliveries : Attempt(j, n)
    \/ \E o \in Principals : GetJob(o, j) \/ CancelJob(o, j)

Surroundings == JobsCrash \/ NextJobDay \/ PruneOwnership

JobsNext == (\E j \in Jobs : JobStep(j)) \/ Surroundings

\* The worker and the backend go on; no date change, crash or request is assumed.
JobsFairness ==
    /\ \A j \in Jobs : WF_jobVars(Forget(j))
    /\ \A j \in Jobs, n \in Deliveries : WF_jobVars(Attempt(j, n))

JobsSpec == JobsInit /\ [][JobsNext]_jobVars /\ JobsFairness

-----------------------------------------------------------------------------
(* Properties                                                              *)

\* A required job's handler, which may buy something, is entered at most once:
\* however deliveries overlap, fail, are cancelled or die, and although claims
\* are pruned by age (guard_task_execution).
StartedOnce ==
    \A j \in RequiredJobs : \A m, n \in Deliveries :
        <<j, m>> \in started /\ <<j, n>> \in started => m = n

\* A remote principal was never shown a job it did not submit, not even in the
\* time between the queue and the claim, or after the claim was pruned
\* (require_mcp_task_owner).
JobsArePrivate ==
    shown = {}

\* Whoever was told "accepted" can ask for the job as long as the backend
\* delivers it: its claim is there and names the submitter.
AcceptedIsOwned ==
    \A j \in Jobs :
        submit[j] = "accepted" /\ jobDay <= born[j] + DeliveryDays
            => \E r \in jobRows : r.key = OwnerKey(j) /\ r.owner = SubmitterOf[j]

\* A job in the queue comes to an end, also one whose worker died after the
\* claim: the next delivery is refused and says so, it does not wait.
JobsEnd == \A j \in Jobs : backend[j] = "queued" ~> backend[j] \in Terminal
=============================================================================
