--------------------------- MODULE OwnershipProofs --------------------------
(***************************************************************************)
(* What belongs to whom: background jobs, provider tasks and object keys,  *)
(* whose rows say who may see and use them, and the migration of the table *)
(* that keeps two of them.  For any number of jobs, tasks, keys, requests  *)
(* and days.                                                               *)
(***************************************************************************)
EXTENDS BackgroundJobs, ProviderTasks, ObjectKeys, SchemaMigration, TLAPS

-----------------------------------------------------------------------------
(***************************************************************************)
(* Background jobs: a required handler starts once, jobs stay private, and *)
(* whoever was told "accepted" owns the job while it can be delivered.     *)
(*                                                                         *)
(* A claim is a row that the sweeper deletes by age, so "started once" is  *)
(* not inductive by itself.  What carries it: a row is not older than its  *)
(* job, a delivery that has not claimed yet is within the queue's days,    *)
(* and rows outlive those days (ClaimsOutliveQueue); hence the row of the  *)
(* delivery that went on is there whenever another one asks.               *)
(***************************************************************************)

\* The delivery has passed guard_task_execution(), now or in an earlier life.
Claimant(j, n) == attempt[<<j, n>>] = "claimed" \/ <<j, n>> \in started

Deliverable(j) == jobDay <= born[j] + DeliveryDays

\* Nothing is known of a job before it is submitted.
IdleIsUnknown ==
    \A j \in Jobs : submit[j] = "idle" =>
        /\ backend[j] = "none"
        /\ \A n \in Deliveries : attempt[<<j, n>>] = "none" /\ <<j, n>> \notin started

DatesAgree ==
    \A j \in Jobs :
        /\ born[j] <= jobDay
        /\ \A n \in Deliveries : attempt[<<j, n>>] = "fetched" => Deliverable(j)

\* A row is about a submitted job, not older than it, and names its submitter.
RowIsSound(r) ==
    /\ submit[r.key[2]] # "idle"
    /\ born[r.key[2]] <= r.at
    /\ r.key[1] = "mcp" => r.owner = SubmitterOf[r.key[2]]
RowsAreSound == \A r \in jobRows : RowIsSound(r)

\* As long as a job may be delivered, what was claimed of it is still there.
ClaimsStand ==
    \A j \in Jobs : Deliverable(j) =>
        /\ submit[j] \in {"claimed", "accepted"} => HasRow(jobRows, OwnerKey(j))
        /\ \A n \in Deliveries : j \in RequiredJobs /\ Claimant(j, n)
                                     => HasRow(jobRows, ExecutionKey(j))

OneClaimant ==
    \A j \in RequiredJobs : \A m, n \in Deliveries : Claimant(j, m) /\ Claimant(j, n) => m = n

JobsInv ==
    /\ JobsTypeOK /\ IdleIsUnknown /\ DatesAgree /\ RowsAreSound /\ ClaimsStand /\ OneClaimant
    /\ JobsArePrivate

-----------------------------------------------------------------------------
(* The table                                                               *)

\* The two keys of a job: its owner's record and its execution claim.
LEMMA KeysOfJob ==
    ASSUME NEW j \in Jobs
    PROVE  /\ OwnerKey(j) \in JobKeys /\ OwnerKey(j)[1] = "mcp" /\ OwnerKey(j)[2] = j
           /\ ExecutionKey(j) \in JobKeys /\ ExecutionKey(j)[1] = "mcp-execution"
           /\ ExecutionKey(j)[2] = j
BY DEF OwnerKey, ExecutionKey, JobKeys

\* A claim leaves the rows that are there and adds its own if there was none.
LEMMA ClaimedRows ==
    ASSUME NEW rows, rows \subseteq OwnerRow(JobKeys, 0 .. MaxJobDay),
           NEW k \in JobKeys, NEW o \in Principals, NEW d \in 0 .. MaxJobDay
    PROVE  /\ Claimed(rows, k, o, d) \subseteq OwnerRow(JobKeys, 0 .. MaxJobDay)
           /\ rows \subseteq Claimed(rows, k, o, d)
           /\ HasRow(Claimed(rows, k, o, d), k)
           /\ \A r \in Claimed(rows, k, o, d) \ rows : r.key = k /\ r.owner = o /\ r.at = d
<1>1. CASE HasRow(rows, k)
  BY <1>1 DEF Claimed
<1>2. CASE ~ HasRow(rows, k)
  <2>. DEFINE row == [key |-> k, owner |-> o, at |-> d]
  <2>1. Claimed(rows, k, o, d) = rows \cup {row}
    BY <1>2 DEF Claimed
  <2>2. /\ row \in OwnerRow(JobKeys, 0 .. MaxJobDay)
        /\ row.key = k /\ row.owner = o /\ row.at = d
    BY DEF OwnerRow
  <2>3. row \in RowsOf(Claimed(rows, k, o, d), k)
    BY <2>1, <2>2 DEF RowsOf
  <2>. QED
    BY <2>1, <2>2, <2>3 DEF HasRow
<1>. QED
  BY <1>1, <1>2

\* More rows answer more questions.
LEMMA HasRowGrows ==
    ASSUME NEW rows, NEW more, rows \subseteq more, NEW k, HasRow(rows, k)
    PROVE  HasRow(more, k)
BY DEF HasRow, RowsOf

-----------------------------------------------------------------------------
(* Steps that change neither the date nor the day a job was born           *)

\* The rows entered are today's and sound, what becomes known is of submitted
\* jobs, and whoever becomes a claimant has the row and is alone.
Calm ==
    /\ UNCHANGED <<jobDay, born, shown>>
    /\ jobRows \subseteq jobRows'
    /\ \A r \in jobRows' \ jobRows :
          /\ submit[r.key[2]] # "idle" /\ r.at = jobDay
          /\ r.key[1] = "mcp" => r.owner = SubmitterOf[r.key[2]]
    /\ \A j \in Jobs :
          /\ submit'[j] = "idle" <=> submit[j] = "idle"
          /\ submit'[j] \in {"claimed", "accepted"}
                => submit[j] \in {"claimed", "accepted"} \/ HasRow(jobRows', OwnerKey(j))
          /\ submit[j] = "idle" =>
                /\ backend'[j] = backend[j]
                /\ \A n \in Deliveries :
                      attempt'[<<j, n>>] = attempt[<<j, n>>] /\ <<j, n>> \notin started'
    /\ \A j \in Jobs, n \in Deliveries :
          /\ attempt'[<<j, n>>] = "fetched" => attempt[<<j, n>>] = "fetched" \/ Deliverable(j)
          /\ j \in RequiredJobs /\ Claimant(j, n)' =>
                \/ Claimant(j, n)
                \/ /\ HasRow(jobRows', ExecutionKey(j))
                   /\ \A m \in Deliveries : Claimant(j, m)' => m = n

\* A step that removes no row keeps the invariant.
LEMMA CalmKeeps == ASSUME JobsInv, JobsTypeOK', Calm PROVE JobsInv'
<1>1. IdleIsUnknown'
  BY DEF JobsInv, IdleIsUnknown, Calm
<1>2. DatesAgree'
  BY DEF JobsInv, DatesAgree, Calm, Deliverable
<1>3. RowsAreSound'
  <2>. SUFFICES ASSUME NEW r \in jobRows' PROVE RowIsSound(r)'
    BY DEF RowsAreSound
  <2>1. r.key \in JobKeys /\ r.key[2] \in Jobs
    BY DEF JobsTypeOK, OwnerRow, JobKeys
  <2>2. CASE r \in jobRows
    BY <2>1, <2>2 DEF JobsInv, RowsAreSound, RowIsSound, Calm
  <2>3. CASE r \notin jobRows
    <3>1. /\ submit[r.key[2]] # "idle" /\ r.at = jobDay
          /\ r.key[1] = "mcp" => r.owner = SubmitterOf[r.key[2]]
      BY <2>3 DEF Calm
    <3>2. born[r.key[2]] <= jobDay
      BY <2>1 DEF JobsInv, DatesAgree
    <3>. QED
      BY <2>1, <3>1, <3>2 DEF RowIsSound, Calm
  <2>. QED
    BY <2>2, <2>3
<1>4. ClaimsStand'
  <2>. SUFFICES ASSUME NEW j \in Jobs, Deliverable(j)'
                PROVE  /\ submit'[j] \in {"claimed", "accepted"} => HasRow(jobRows', OwnerKey(j))
                       /\ \A n \in Deliveries : j \in RequiredJobs /\ Claimant(j, n)'
                              => HasRow(jobRows', ExecutionKey(j))
    BY DEF ClaimsStand
  <2>1. Deliverable(j) /\ jobRows \subseteq jobRows'
    BY DEF Calm, Deliverable
  <2>2. ASSUME submit'[j] \in {"claimed", "accepted"} PROVE HasRow(jobRows', OwnerKey(j))
    BY <2>1, <2>2, HasRowGrows DEF Calm, JobsInv, ClaimsStand
  <2>3. ASSUME NEW n \in Deliveries, j \in RequiredJobs, Claimant(j, n)'
        PROVE  HasRow(jobRows', ExecutionKey(j))
    <3>1. Claimant(j, n) \/ HasRow(jobRows', ExecutionKey(j))
      BY <2>3 DEF Calm
    <3>2. Claimant(j, n) => HasRow(jobRows, ExecutionKey(j))
      BY <2>1, <2>3 DEF JobsInv, ClaimsStand
    <3>. QED
      BY <2>1, <3>1, <3>2, HasRowGrows
  <2>. QED
    BY <2>2, <2>3
<1>5. OneClaimant'
  <2>. SUFFICES ASSUME NEW j \in RequiredJobs, NEW m \in Deliveries, NEW n \in Deliveries,
                       Claimant(j, m)', Claimant(j, n)'
                PROVE  m = n
    BY DEF OneClaimant
  <2>1. j \in Jobs
    BY JobsAssumption
  <2>2. CASE Claimant(j, m) /\ Claimant(j, n)
    BY <2>2 DEF JobsInv, OneClaimant
  <2>3. CASE ~ Claimant(j, m)
    BY <2>1, <2>3 DEF Calm
  <2>4. CASE ~ Claimant(j, n)
    BY <2>1, <2>4 DEF Calm
  <2>. QED
    BY <2>2, <2>3, <2>4
<1>. QED
  BY <1>1, <1>2, <1>3, <1>4, <1>5 DEF JobsInv, JobsArePrivate, Calm

-----------------------------------------------------------------------------
(* The actions                                                             *)

\* What a step does that enters no row, settles no date and starts nothing:
\* submissions and deliveries only move on, to places where they claim nothing.
Quiet ==
    /\ UNCHANGED <<jobRows, jobDay, born, started, shown>>
    /\ \A j \in Jobs :
          /\ submit'[j] = "idle" <=> submit[j] = "idle"
          /\ submit'[j] \in {"claimed", "accepted"} => submit[j] \in {"claimed", "accepted"}
          /\ submit[j] = "idle" => backend'[j] = backend[j]
    /\ \A j \in Jobs, n \in Deliveries :
          /\ attempt'[<<j, n>>] = "fetched" => attempt[<<j, n>>] = "fetched" \/ Deliverable(j)
          /\ attempt'[<<j, n>>] = "claimed" => attempt[<<j, n>>] = "claimed"
          /\ submit[j] = "idle" => attempt'[<<j, n>>] = attempt[<<j, n>>]

\* So does one that leaves the rows, and what was started, alone.
LEMMA QuietKeeps == ASSUME JobsInv, JobsTypeOK', Quiet PROVE JobsInv'
<1>1. Calm
  BY DEF Calm, Quiet, Claimant, JobsInv, IdleIsUnknown
<1>. QED
  BY <1>1, CalmKeeps

\* A job begins unclaimed, on its day.
LEMMA EnqueueKeeps == ASSUME JobsInv, NEW i \in Jobs, Enqueue(i) PROVE JobsInv'
<1>. USE DEF Enqueue
<1>1. JobsTypeOK /\ submit[i] = "idle" /\ jobDay \in Nat
  BY DeliveryAssumption DEF JobsInv, JobsTypeOK
<1>2. /\ submit' = [submit EXCEPT ![i] = "enqueued"] /\ born' = [born EXCEPT ![i] = jobDay]
      /\ backend' = [backend EXCEPT ![i] = "queued"]
  OBVIOUS
<1>3. JobsTypeOK'
  BY <1>1, <1>2 DEF JobsTypeOK, SubmitPlaces, BackendStates
<1>4. IdleIsUnknown'
  BY <1>1, <1>2 DEF JobsInv, JobsTypeOK, IdleIsUnknown
<1>5. DatesAgree'
  <2>. SUFFICES ASSUME NEW j \in Jobs
                PROVE  /\ born'[j] <= jobDay
                       /\ \A n \in Deliveries : attempt[<<j, n>>] = "fetched" => Deliverable(j)'
    BY DEF DatesAgree
  <2>1. CASE j = i
    BY <1>1, <1>2, <2>1 DEF JobsInv, JobsTypeOK, IdleIsUnknown
  <2>2. CASE j # i
    BY <1>1, <1>2, <2>2 DEF JobsInv, JobsTypeOK, DatesAgree, Deliverable
  <2>. QED
    BY <2>1, <2>2
<1>6. RowsAreSound'
  <2>. SUFFICES ASSUME NEW r \in jobRows PROVE RowIsSound(r)'
    BY DEF RowsAreSound
  <2>1. RowIsSound(r) /\ r.key[2] \in Jobs /\ r.key[2] # i
    BY <1>1 DEF JobsInv, RowsAreSound, RowIsSound, JobsTypeOK, OwnerRow, JobKeys
  <2>. QED
    BY <1>1, <1>2, <2>1 DEF RowIsSound, JobsTypeOK
<1>7. ClaimsStand'
  <2>. SUFFICES ASSUME NEW j \in Jobs, Deliverable(j)'
                PROVE  /\ submit'[j] \in {"claimed", "accepted"} => HasRow(jobRows, OwnerKey(j))
                       /\ \A n \in Deliveries : j \in RequiredJobs /\ Claimant(j, n)
                              => HasRow(jobRows, ExecutionKey(j))
    BY DEF ClaimsStand, Claimant
  <2>1. CASE j = i
    BY <1>1, <1>2, <2>1 DEF JobsInv, JobsTypeOK, IdleIsUnknown, Claimant
  <2>2. CASE j # i
    BY <1>1, <1>2, <2>2 DEF JobsInv, JobsTypeOK, ClaimsStand, Deliverable
  <2>. QED
    BY <2>1, <2>2
<1>8. OneClaimant' /\ JobsArePrivate'
  BY DEF JobsInv, OneClaimant, Claimant, JobsArePrivate
<1>. QED
  BY <1>3, <1>4, <1>5, <1>6, <1>7, <1>8 DEF JobsInv

\* What a claim of either kind enters, for a job that was submitted.
LEMMA ClaimIsSound ==
    ASSUME JobsInv, NEW i \in Jobs, submit[i] # "idle",
           NEW k \in {OwnerKey(i), ExecutionKey(i)},
           NEW rows, rows = Claimed(jobRows, k, SubmitterOf[i], jobDay)
    PROVE  /\ rows \subseteq OwnerRow(JobKeys, 0 .. MaxJobDay)
           /\ jobRows \subseteq rows /\ HasRow(rows, k)
           /\ \A r \in rows \ jobRows :
                 /\ submit[r.key[2]] # "idle" /\ r.at = jobDay
                 /\ r.key[1] = "mcp" => r.owner = SubmitterOf[r.key[2]]
<1>1. k \in JobKeys /\ k[2] = i
  BY KeysOfJob
<1>2. SubmitterOf[i] \in Principals /\ jobDay \in 0 .. MaxJobDay
  BY JobsAssumption DEF JobsInv, JobsTypeOK
<1>3. jobRows \subseteq OwnerRow(JobKeys, 0 .. MaxJobDay)
  BY DEF JobsInv, JobsTypeOK
<1>4. rows \subseteq OwnerRow(JobKeys, 0 .. MaxJobDay)
  BY <1>1, <1>2, <1>3, ClaimedRows
<1>5. jobRows \subseteq rows /\ HasRow(rows, k)
  BY <1>1, <1>2, <1>3, ClaimedRows
<1>6. \A r \in rows \ jobRows : r.key = k /\ r.owner = SubmitterOf[i] /\ r.at = jobDay
  BY <1>1, <1>2, <1>3, ClaimedRows
<1>. QED
  BY <1>1, <1>4, <1>5, <1>6

\* The submitter's claim makes it the owner.
LEMMA ClaimOwnerKeeps == ASSUME JobsInv, NEW i \in Jobs, ClaimOwner(i) PROVE JobsInv'
<1>. USE DEF ClaimOwner
<1>1. /\ submit[i] # "idle" /\ submit' = [submit EXCEPT ![i] = "claimed"]
      /\ jobRows' = Claimed(jobRows, OwnerKey(i), SubmitterOf[i], jobDay)
      /\ submit \in [Jobs -> SubmitPlaces]
      /\ UNCHANGED <<jobDay, backend, born, attempt, started, shown>>
  BY DEF JobsInv, JobsTypeOK
<1>2. /\ jobRows' \subseteq OwnerRow(JobKeys, 0 .. MaxJobDay)
      /\ jobRows \subseteq jobRows' /\ HasRow(jobRows', OwnerKey(i))
      /\ \A r \in jobRows' \ jobRows :
            /\ submit[r.key[2]] # "idle" /\ r.at = jobDay
            /\ r.key[1] = "mcp" => r.owner = SubmitterOf[r.key[2]]
  BY <1>1, ClaimIsSound
<1>3. JobsTypeOK'
  BY <1>1, <1>2 DEF JobsInv, JobsTypeOK, SubmitPlaces
<1>4. \A j \in Jobs :
          /\ submit'[j] = "idle" <=> submit[j] = "idle"
          /\ submit'[j] \in {"claimed", "accepted"}
                => submit[j] \in {"claimed", "accepted"} \/ HasRow(jobRows', OwnerKey(j))
  BY <1>1, <1>2
<1>5. Calm
  BY <1>1, <1>2, <1>4 DEF Calm, Claimant, JobsInv, IdleIsUnknown
<1>. QED
  BY <1>3, <1>5, CalmKeeps

\* The owner is on record: the job is accepted.
LEMMA AcceptKeeps == ASSUME JobsInv, NEW i \in Jobs, Accept(i) PROVE JobsInv'
<1>1. JobsTypeOK'
  BY DEF JobsInv, JobsTypeOK, Accept, SubmitPlaces
<1>2. Quiet
  BY DEF Quiet, Accept, JobsInv, JobsTypeOK
<1>. QED
  BY <1>1, <1>2, QuietKeeps

\* A claim entered late, by a thread whose task was cancelled, is as good.
LEMMA AbortSubmitKeeps == ASSUME JobsInv, NEW i \in Jobs, AbortSubmit(i) PROVE JobsInv'
<1>. USE DEF AbortSubmit
<1>1. /\ submit[i] # "idle" /\ submit' = [submit EXCEPT ![i] = "failed"]
      /\ submit \in [Jobs -> SubmitPlaces]
      /\ UNCHANGED <<jobDay, backend, born, attempt, started, shown>>
  BY DEF JobsInv, JobsTypeOK
<1>2. CASE jobRows' = jobRows
  <2>1. JobsTypeOK'
    BY <1>1, <1>2 DEF JobsInv, JobsTypeOK, SubmitPlaces
  <2>2. Quiet
    BY <1>1, <1>2 DEF Quiet
  <2>. QED
    BY <2>1, <2>2, QuietKeeps
<1>3. CASE jobRows' = Claimed(jobRows, OwnerKey(i), SubmitterOf[i], jobDay)
  <2>1. /\ jobRows' \subseteq OwnerRow(JobKeys, 0 .. MaxJobDay) /\ jobRows \subseteq jobRows'
        /\ \A r \in jobRows' \ jobRows :
              /\ submit[r.key[2]] # "idle" /\ r.at = jobDay
              /\ r.key[1] = "mcp" => r.owner = SubmitterOf[r.key[2]]
    BY <1>1, <1>3, ClaimIsSound
  <2>2. JobsTypeOK'
    BY <1>1, <2>1 DEF JobsInv, JobsTypeOK, SubmitPlaces
  <2>3. Calm
    BY <1>1, <2>1 DEF Calm, Claimant, JobsInv, IdleIsUnknown
  <2>. QED
    BY <2>2, <2>3, CalmKeeps
<1>. QED
  BY <1>2, <1>3

\* A cancellation in the backend ends deliveries, and a claim that one of them
\* was making may still be entered.
LEMMA CancelInBackendKeeps ==
    ASSUME JobsInv, NEW i \in Jobs, CancelInBackend(i), submit[i] # "idle",
           submit' = submit \/ submit' = [submit EXCEPT ![i] = "failed"],
           UNCHANGED <<jobDay, born, started, shown>>
    PROVE  JobsInv'
<1>1. /\ jobRows' = jobRows
         \/ jobRows' = Claimed(jobRows, ExecutionKey(i), SubmitterOf[i], jobDay)
      /\ \A d \in Jobs \X Deliveries : attempt'[d] = attempt[d] \/ attempt'[d] = "over"
      /\ attempt' \in [Jobs \X Deliveries -> AttemptPlaces]
  BY DEF CancelInBackend, CancelledAttempts, LateClaims, JobsInv, JobsTypeOK, AttemptPlaces
<1>2. /\ jobRows' \subseteq OwnerRow(JobKeys, 0 .. MaxJobDay) /\ jobRows \subseteq jobRows'
      /\ \A r \in jobRows' \ jobRows :
            /\ submit[r.key[2]] # "idle" /\ r.at = jobDay
            /\ r.key[1] = "mcp" => r.owner = SubmitterOf[r.key[2]]
  <2>1. CASE jobRows' = jobRows
    BY <2>1 DEF JobsInv, JobsTypeOK
  <2>2. CASE jobRows' = Claimed(jobRows, ExecutionKey(i), SubmitterOf[i], jobDay)
    BY <2>2, ClaimIsSound
  <2>. QED
    BY <1>1, <2>1, <2>2
<1>3. backend' = [backend EXCEPT ![i] = IF backend[i] \in {"queued", "working"}
                                        THEN "cancelled" ELSE backend[i]]
  BY DEF CancelInBackend
<1>4. JobsTypeOK'
  BY <1>1, <1>2, <1>3 DEF JobsInv, JobsTypeOK, SubmitPlaces, BackendStates
<1>5. \A j \in Jobs :
          /\ submit'[j] = "idle" <=> submit[j] = "idle"
          /\ submit'[j] \in {"claimed", "accepted"} => submit[j] \in {"claimed", "accepted"}
  BY DEF JobsInv, JobsTypeOK
<1>6. \A j \in Jobs : submit[j] = "idle" =>
          /\ backend'[j] = backend[j]
          /\ \A n \in Deliveries :
                attempt'[<<j, n>>] = attempt[<<j, n>>] /\ <<j, n>> \notin started'
  <2>. SUFFICES ASSUME NEW j \in Jobs, submit[j] = "idle"
                PROVE  /\ backend'[j] = backend[j]
                       /\ \A n \in Deliveries :
                             attempt'[<<j, n>>] = attempt[<<j, n>>] /\ <<j, n>> \notin started'
    OBVIOUS
  <2>1. j # i
    OBVIOUS
  <2>2. backend'[j] = backend[j]
    BY <1>3, <2>1 DEF JobsInv, JobsTypeOK
  <2>3. ASSUME NEW n \in Deliveries
        PROVE  attempt'[<<j, n>>] = attempt[<<j, n>>] /\ <<j, n>> \notin started'
    BY <2>1 DEF CancelInBackend, CancelledAttempts, JobsInv, IdleIsUnknown
  <2>. QED
    BY <2>2, <2>3
<1>7. Calm
  BY <1>1, <1>2, <1>5, <1>6 DEF Calm, Claimant
<1>. QED
  BY <1>4, <1>7, CalmKeeps

\* The owner's record is gone: the submission fails and the job is cancelled.
LEMMA RefuseClaimKeeps == ASSUME JobsInv, NEW i \in Jobs, RefuseClaim(i) PROVE JobsInv'
<1>. USE DEF RefuseClaim
<1>1. submit[i] # "idle" /\ submit' = [submit EXCEPT ![i] = "failed"]
  OBVIOUS
<1>2. CASE i \in NativeJobs
  <2>1. JobsTypeOK'
    BY <1>2 DEF JobsInv, JobsTypeOK, SubmitPlaces
  <2>2. Quiet
    BY <1>1, <1>2 DEF Quiet, JobsInv, JobsTypeOK
  <2>. QED
    BY <2>1, <2>2, QuietKeeps
<1>3. CASE i \notin NativeJobs
  BY <1>1, <1>3, CancelInBackendKeeps
<1>. QED
  BY <1>2, <1>3

\* A cancelled submission may leave a job that nobody was told of.
LEMMA CancelJobKeeps ==
    ASSUME JobsInv, NEW o \in Principals, NEW i \in Jobs, CancelJob(o, i) PROVE JobsInv'
<1>1. submit[i] # "idle"
  BY DEF CancelJob, JobsInv, IdleIsUnknown
<1>. QED
  BY <1>1, CancelInBackendKeeps DEF CancelJob

\* A delivery is fetched within the queue's days.
LEMMA DeliverKeeps ==
    ASSUME JobsInv, NEW i \in Jobs, NEW n \in Deliveries, Deliver(i, n) PROVE JobsInv'
<1>1. JobsTypeOK'
  BY DEF JobsInv, JobsTypeOK, Deliver, AttemptPlaces, BackendStates
<1>2. submit[i] # "idle" /\ Deliverable(i)
  BY DEF Deliver, JobsInv, IdleIsUnknown, Deliverable
<1>3. Quiet
  BY <1>2 DEF Quiet, Deliver, JobsInv, JobsTypeOK
<1>. QED
  BY <1>1, <1>3, QuietKeeps

\* The heart of it: a delivery goes on only where no row stands, and there no
\* delivery has gone on before.
LEMMA ClaimExecutionKeeps ==
    ASSUME JobsInv, NEW i \in Jobs, NEW n \in Deliveries, ClaimExecution(i, n) PROVE JobsInv'
<1>. USE DEF ClaimExecution
<1>1. /\ attempt[<<i, n>>] = "fetched" /\ i \in RequiredJobs
      /\ attempt' = [attempt EXCEPT ![<<i, n>>] =
                        IF HasRow(jobRows, ExecutionKey(i)) THEN "refused" ELSE "claimed"]
      /\ attempt \in [Jobs \X Deliveries -> AttemptPlaces]
      /\ UNCHANGED <<jobDay, submit, backend, born, started, shown>>
  BY DEF JobsInv, JobsTypeOK
<1>2. submit[i] # "idle" /\ Deliverable(i)
  BY <1>1 DEF JobsInv, IdleIsUnknown, DatesAgree
<1>3. /\ jobRows' \subseteq OwnerRow(JobKeys, 0 .. MaxJobDay)
      /\ jobRows \subseteq jobRows' /\ HasRow(jobRows', ExecutionKey(i))
      /\ \A r \in jobRows' \ jobRows :
            /\ submit[r.key[2]] # "idle" /\ r.at = jobDay
            /\ r.key[1] = "mcp" => r.owner = SubmitterOf[r.key[2]]
  BY <1>2, ClaimIsSound
<1>4. JobsTypeOK'
  BY <1>1, <1>3 DEF JobsInv, JobsTypeOK, AttemptPlaces
<1>5. \A j \in Jobs, m \in Deliveries :
          attempt'[<<j, m>>] = attempt[<<j, m>>]
          \/ (j = i /\ m = n /\ attempt'[<<j, m>>] \in {"refused", "claimed"})
  BY <1>1
<1>6. ~ HasRow(jobRows, ExecutionKey(i)) => \A m \in Deliveries : ~ Claimant(i, m)
  BY <1>1, <1>2 DEF JobsInv, ClaimsStand
<1>7. ASSUME NEW j \in Jobs, NEW m \in Deliveries, j \in RequiredJobs, Claimant(j, m)'
      PROVE  \/ Claimant(j, m)
             \/ /\ HasRow(jobRows', ExecutionKey(j))
                /\ \A q \in Deliveries : Claimant(j, q)' => q = m
  <2>1. CASE j = i /\ m = n /\ ~ HasRow(jobRows, ExecutionKey(i))
    BY <1>1, <1>3, <1>5, <1>6, <2>1 DEF Claimant
  <2>2. CASE j = i /\ m = n /\ HasRow(jobRows, ExecutionKey(i))
    BY <1>1, <1>7, <2>2 DEF Claimant
  <2>3. CASE ~ (j = i /\ m = n)
    BY <1>1, <1>5, <1>7, <2>3 DEF Claimant
  <2>. QED
    BY <2>1, <2>2, <2>3
<1>8. \A j \in Jobs : submit[j] = "idle" =>
          \A m \in Deliveries : attempt'[<<j, m>>] = attempt[<<j, m>>] /\ <<j, m>> \notin started'
  BY <1>1, <1>2, <1>5 DEF JobsInv, IdleIsUnknown
<1>9. Calm
  BY <1>1, <1>3, <1>5, <1>7, <1>8 DEF Calm
<1>. QED
  BY <1>4, <1>9, CalmKeeps

\* Whoever starts had claimed.
LEMMA StartHandlerKeeps ==
    ASSUME JobsInv, NEW i \in Jobs, NEW n \in Deliveries, StartHandler(i, n) PROVE JobsInv'
<1>. USE DEF StartHandler
<1>1. JobsTypeOK'
  BY DEF JobsInv, JobsTypeOK, AttemptPlaces
<1>2. /\ attempt[<<i, n>>] \in {"claimed", "fetched"}
      /\ i \in RequiredJobs => Claimant(i, n)
      /\ submit[i] # "idle"
  BY DEF Claimant, JobsInv, IdleIsUnknown
<1>3. \A j \in Jobs, m \in Deliveries :
          /\ attempt'[<<j, m>>] = attempt[<<j, m>>]
             \/ (j = i /\ m = n /\ attempt'[<<j, m>>] = "running")
          /\ <<j, m>> \in started' => <<j, m>> \in started \/ (j = i /\ m = n)
  BY DEF JobsInv, JobsTypeOK
<1>4. Calm
  BY <1>2, <1>3 DEF Calm, Claimant, JobsInv, IdleIsUnknown
<1>. QED
  BY <1>1, <1>4, CalmKeeps

\* An attempt ends, whichever way.
LEMMA EndAttemptKeeps ==
    ASSUME JobsInv, NEW i \in Jobs, NEW n \in Deliveries, EndAttempt(i, n) PROVE JobsInv'
<1>. USE DEF EndAttempt
<1>1. PICK s \in {"completed", "failed"} :
          backend' = [backend EXCEPT ![i] = IF backend[i] = "working" THEN s ELSE backend[i]]
  OBVIOUS
<1>2. JobsTypeOK'
  BY <1>1 DEF JobsInv, JobsTypeOK, AttemptPlaces, BackendStates
<1>3. submit[i] # "idle"
  BY DEF JobsInv, IdleIsUnknown
<1>4. Quiet
  BY <1>1, <1>3 DEF Quiet, JobsInv, JobsTypeOK
<1>. QED
  BY <1>2, <1>4, QuietKeeps

\* Nobody remote is shown a job without the row that names it the owner.
LEMMA GetJobKeeps ==
    ASSUME JobsInv, NEW o \in Principals, NEW i \in Jobs, GetJob(o, i) PROVE JobsInv'
<1>. USE DEF GetJob
<1>1. <<o, i>> \notin Strangers
  <2>. SUFFICES ASSUME o \notin LocalPrincipals PROVE o = SubmitterOf[i]
    BY DEF Strangers
  <2>1. PICK r \in jobRows : r.key = OwnerKey(i) /\ r.owner = o
    BY DEF MayUse, HasRow, RowsOf
  <2>. QED
    BY <2>1, KeysOfJob DEF JobsInv, RowsAreSound, RowIsSound
<1>2. shown' = shown
  BY <1>1 DEF JobsInv, JobsArePrivate
<1>3. JobsTypeOK'
  BY <1>2 DEF JobsInv, JobsTypeOK
<1>4. Quiet
  BY <1>2 DEF Quiet
<1>. QED
  BY <1>3, <1>4, QuietKeeps

\* A crash loses what was under way, not the rows.
LEMMA JobsCrashKeeps == ASSUME JobsInv, JobsCrash PROVE JobsInv'
<1>. USE DEF JobsCrash
<1>1. JobsTypeOK'
  BY DEF JobsInv, JobsTypeOK, SubmitPlaces, AttemptPlaces
<1>2. Quiet
  BY DEF Quiet, Alive, JobsInv, JobsTypeOK, IdleIsUnknown
<1>. QED
  BY <1>1, <1>2, QuietKeeps

\* The backend gives a job up.
LEMMA ForgetKeeps == ASSUME JobsInv, NEW i \in Jobs, Forget(i) PROVE JobsInv'
<1>. USE DEF Forget
<1>1. JobsTypeOK'
  BY DEF JobsInv, JobsTypeOK, BackendStates
<1>2. submit[i] # "idle"
  BY DEF JobsInv, IdleIsUnknown
<1>3. Quiet
  BY <1>2 DEF Quiet, JobsInv, JobsTypeOK
<1>. QED
  BY <1>1, <1>3, QuietKeeps

\* No delivery that has still to claim sees another day.
LEMMA NextJobDayKeeps == ASSUME JobsInv, NextJobDay PROVE JobsInv'
<1>. USE DEF NextJobDay
<1>1. jobDay' = jobDay + 1 /\ jobDay \in Nat /\ jobDay < MaxJobDay
  BY DeliveryAssumption DEF JobsInv, JobsTypeOK
<1>2. jobRows \subseteq OwnerRow(JobKeys, 0 .. MaxJobDay) /\ jobDay' \in 0 .. MaxJobDay
  BY <1>1, DeliveryAssumption DEF JobsInv, JobsTypeOK
<1>3. JobsTypeOK'
  BY <1>2 DEF JobsInv, JobsTypeOK
<1>4. \A j \in Jobs : born[j] \in Nat /\ (Deliverable(j)' => Deliverable(j))
  BY <1>1, DeliveryAssumption DEF JobsInv, JobsTypeOK, Deliverable
<1>5. DatesAgree'
  BY <1>1, <1>4 DEF JobsInv, DatesAgree
<1>6. ClaimsStand'
  BY <1>4 DEF JobsInv, ClaimsStand, Claimant
<1>7. IdleIsUnknown' /\ RowsAreSound' /\ OneClaimant' /\ JobsArePrivate'
  BY DEF JobsInv, IdleIsUnknown, RowsAreSound, RowIsSound, OneClaimant, Claimant, JobsArePrivate
<1>. QED
  BY <1>3, <1>5, <1>6, <1>7 DEF JobsInv

\* Pruning takes no row of a job that may still be delivered.
LEMMA PruneOwnershipKeeps == ASSUME JobsInv, PruneOwnership PROVE JobsInv'
<1>. USE DEF PruneOwnership
<1>1. jobRows' = {r \in jobRows : r.at + RetentionDays >= jobDay}
  BY DEF PrunedRows
<1>2. JobsTypeOK'
  BY <1>1 DEF JobsInv, JobsTypeOK
<1>3. ASSUME NEW j \in Jobs, Deliverable(j), NEW k \in {OwnerKey(j), ExecutionKey(j)},
             HasRow(jobRows, k)
      PROVE  HasRow(jobRows', k)
  <2>1. PICK r \in jobRows : r.key = k
    BY <1>3 DEF HasRow, RowsOf
  <2>2. r.key[2] = j
    BY <2>1, KeysOfJob
  <2>3. born[j] <= r.at /\ r.at \in Nat /\ born[j] \in Nat /\ jobDay \in Nat
    BY <2>2, DeliveryAssumption
       DEF JobsInv, RowsAreSound, RowIsSound, JobsTypeOK, OwnerRow
  <2>4. jobDay <= born[j] + DeliveryDays
    BY <1>3 DEF Deliverable
  <2>5. r.at + RetentionDays >= jobDay
    BY <2>3, <2>4, ClaimsOutliveQueue, DeliveryAssumption, RetentionAssumption
  <2>6. r \in RowsOf(jobRows', k)
    BY <1>1, <2>1, <2>5 DEF RowsOf
  <2>. QED
    BY <2>6 DEF HasRow
<1>4. ClaimsStand'
  BY <1>3 DEF JobsInv, ClaimsStand, Claimant, Deliverable
<1>5. DatesAgree' /\ IdleIsUnknown' /\ OneClaimant' /\ JobsArePrivate'
  BY DEF JobsInv, DatesAgree, Deliverable, IdleIsUnknown, OneClaimant, Claimant, JobsArePrivate
<1>6. RowsAreSound'
  BY <1>1 DEF JobsInv, RowsAreSound, RowIsSound
<1>. QED
  BY <1>2, <1>4, <1>5, <1>6 DEF JobsInv

-----------------------------------------------------------------------------
(* The invariant and what it shows                                         *)

\* A new server has neither jobs nor rows.
LEMMA JobsInvInit == JobsInit => JobsInv
<1>. SUFFICES ASSUME JobsInit PROVE JobsInv
  OBVIOUS
<1>1. JobsTypeOK
  BY DeliveryAssumption DEF JobsInit, JobsTypeOK, SubmitPlaces, BackendStates, AttemptPlaces
<1>2. IdleIsUnknown /\ RowsAreSound /\ JobsArePrivate
  BY DEF JobsInit, IdleIsUnknown, RowsAreSound, JobsArePrivate
<1>3. DatesAgree
  BY DEF JobsInit, DatesAgree
<1>4. ClaimsStand
  BY JobsAssumption DEF JobsInit, ClaimsStand, Claimant
<1>5. OneClaimant
  BY JobsAssumption DEF JobsInit, OneClaimant, Claimant
<1>. QED
  BY <1>1, <1>2, <1>3, <1>4, <1>5 DEF JobsInv

\* The inductive step, one case per action.
LEMMA JobsInvNext == JobsInv /\ [JobsNext]_jobVars => JobsInv'
<1>. SUFFICES ASSUME JobsInv, [JobsNext]_jobVars PROVE JobsInv'
  OBVIOUS
<1>1. CASE UNCHANGED jobVars
  BY <1>1 DEF jobVars, JobsInv, JobsTypeOK, IdleIsUnknown, DatesAgree, Deliverable, RowsAreSound,
              RowIsSound, ClaimsStand, OneClaimant, Claimant, JobsArePrivate
<1>2. ASSUME NEW j \in Jobs, JobStep(j) PROVE JobsInv'
  <2>1. ASSUME NEW n \in Deliveries, Attempt(j, n) PROVE JobsInv'
    BY <2>1, DeliverKeeps, ClaimExecutionKeeps, StartHandlerKeeps, EndAttemptKeeps DEF Attempt
  <2>. QED
    BY <1>2, <2>1, EnqueueKeeps, ClaimOwnerKeeps, AcceptKeeps, RefuseClaimKeeps,
       AbortSubmitKeeps, ForgetKeeps, GetJobKeeps, CancelJobKeeps DEF JobStep
<1>3. CASE Surroundings
  BY <1>3, JobsCrashKeeps, NextJobDayKeeps, PruneOwnershipKeeps DEF Surroundings
<1>. QED
  BY <1>1, <1>2, <1>3 DEF JobsNext

\* The strengthening that the promises rest on.
LEMMA JobsInvCorrect == JobsSpec => []JobsInv
BY JobsInvInit, JobsInvNext, PTL DEF JobsSpec

\* The handler of a job that is guarded starts at most once, however often the
\* job is delivered and although its claim is pruned (guard_task_execution).
THEOREM StartedOnceCorrect == JobsSpec => []StartedOnce
<1>1. JobsInv => StartedOnce
  BY DEF JobsInv, OneClaimant, Claimant, StartedOnce
<1>. QED
  BY <1>1, JobsInvCorrect, PTL

\* No remote principal is shown a job that it did not submit.
THEOREM PrivacyCorrect == JobsSpec => []JobsArePrivate
<1>1. JobsInv => JobsArePrivate
  BY DEF JobsInv
<1>. QED
  BY <1>1, JobsInvCorrect, PTL

\* Whoever was told "accepted" owns the job while the queue may deliver it.
THEOREM AcceptedCorrect == JobsSpec => []AcceptedIsOwned
<1>1. ASSUME JobsInv PROVE AcceptedIsOwned
  <2>. SUFFICES ASSUME NEW j \in Jobs, submit[j] = "accepted", jobDay <= born[j] + DeliveryDays
                PROVE  \E r \in jobRows : r.key = OwnerKey(j) /\ r.owner = SubmitterOf[j]
    BY DEF AcceptedIsOwned
  <2>1. HasRow(jobRows, OwnerKey(j))
    BY <1>1 DEF JobsInv, ClaimsStand, Deliverable
  <2>2. PICK r \in jobRows : r.key = OwnerKey(j)
    BY <2>1 DEF HasRow, RowsOf
  <2>3. r.owner = SubmitterOf[j]
    BY <1>1, <2>2, KeysOfJob DEF JobsInv, RowsAreSound, RowIsSound
  <2>. QED
    BY <2>2, <2>3
<1>. QED
  BY <1>1, JobsInvCorrect, PTL

-----------------------------------------------------------------------------
(***************************************************************************)
(* Provider tasks: a DELETE is sent to a task whose status the caller was  *)
(* told and that is its own, and a listing shows nobody else's tasks.      *)
(*                                                                         *)
(* The promises speak of what was sent and shown.  What carries them there *)
(* is what a request knows on its way: rows name the owner of their task,  *)
(* a request past the owner check is about a task of its caller, and one   *)
(* about to send its DELETE has seen a status that may be deleted.         *)
(***************************************************************************)

\* A local caller may use any task, a remote one its own.
Mine(r, t) == CallerOf[r] \in LocalPrincipals \/ TaskOwner[t] = CallerOf[r]

Request == [at : ReqPlaces, ask : Asks, task : Tasks \cup {NoAsk.task}, filter : Filters,
            attempts : 0 .. MaxDeleteAttempts - 1]

\* Rows are never wrong, only missing.
RowsAreTrue ==
    /\ taskRows \subseteq OwnerRow({TaskKey(t) : t \in Tasks}, {0})
    /\ \A row \in taskRows : \E t \in Tasks : row.key = TaskKey(t) /\ row.owner = TaskOwner[t]

TaskTypes ==
    /\ RowsAreTrue
    /\ status \in [Tasks -> Statuses]
    /\ req \in [Requests -> Request]
    /\ effect \in [Requests -> SUBSET Effects]
    /\ listed \in [Requests -> SUBSET Tasks]

\* What a request in progress was let through with.  Its task may have been
\* removed by another request, or by an attempt of its own.
Cleared(r) ==
    /\ req[r].at \in {"fetch", "delete"} => req[r].task \in Tasks /\ Mine(r, req[r].task)
    /\ req[r].at = "delete" /\ req[r].ask.mode = "delete" =>
          status[req[r].task] \in {req[r].ask.expected, "removed"}
    /\ req[r].at = "list" =>
          \/ CallerOf[r] \in LocalPrincipals
          \/ req[r].filter # {} /\ \A t \in req[r].filter : Mine(r, t)

\* What it has done so far.
Proper(r, e) ==
    /\ Mine(r, e.task)
    /\ e.ask.mode = "delete" => e.before = e.ask.expected /\ e.after = "removed"
Past(r) == (\A e \in effect[r] : Proper(r, e)) /\ (\A t \in listed[r] : Mine(r, t))

TasksInv == TaskTypes /\ \A r \in Requests : Cleared(r) /\ Past(r)

\* No request is a request.
LEMMA NoAskType ==
    /\ NoAsk \in Request
    /\ NoAsk.ask.mode = "cancel"
    /\ \A place \in ReqPlaces : [NoAsk EXCEPT !.at = place] \in Request
<1>1. 0 \in 0 .. MaxDeleteAttempts - 1
    BY DeleteAttemptsAssumption
<1>2. NoAsk.ask \in Asks /\ NoAsk.ask.mode = "cancel" /\ NoAsk.filter \in Filters
    BY DEF NoAsk, Asks, Cancelable, Deletable, Filters
<1>3. NoAsk \in Request
    BY <1>1, <1>2 DEF NoAsk, Request, ReqPlaces
<1> QED BY <1>2, <1>3 DEF Request

\* A new server has sent nothing.
LEMMA TasksInitially == TasksInit => TasksInv
<1> SUFFICES ASSUME TasksInit PROVE TasksInv
    OBVIOUS
<1>1. TaskTypes
    <2>1. RowsAreTrue
        BY TasksAssumption DEF TasksInit, RowsAreTrue, OwnerRow
    <2> QED BY <2>1, NoAskType DEF TasksInit, TaskTypes, Statuses, Cancelable, Deletable
<1>2. ASSUME NEW r \in Requests PROVE Cleared(r) /\ Past(r)
    BY DEF TasksInit, Cleared, Past, NoAsk
<1> QED BY <1>1, <1>2 DEF TasksInv

\* A remote caller is let through to its own tasks only.
LEMMA OwnersOnly ==
    ASSUME RowsAreTrue, NEW t \in Tasks, NEW r \in Requests, MayUse(taskRows, TaskKey(t), CallerOf[r])
    PROVE  Mine(r, t)
BY DEF RowsAreTrue, MayUse, HasRow, RowsOf, TaskKey, Mine

\* What a principal finds among its rows is its own.
LEMMA OwnTasksOnly ==
    ASSUME RowsAreTrue, NEW r \in Requests, NEW t \in OwnedTasks(CallerOf[r])
    PROVE  t \in Tasks /\ Mine(r, t)
BY DEF RowsAreTrue, OwnedTasks, OwnedKeys, TaskKey, Mine

\* A request that has ended, or is about another, is cleared of everything.
LEMMA EndClears ==
    ASSUME TasksInv, NEW r \in Requests, NEW place \in ReqPlaces \ InProgress, End(r, place)
    PROVE  /\ req' \in [Requests -> Request]
           /\ req'[r].at = place
           /\ \A q \in Requests : q # r => req'[q] = req[q]
BY NoAskType DEF End, TasksInv, TaskTypes, NoAsk

\* The requests but r are as they were, and no task moved under them.
LEMMA OneRequest ==
    ASSUME TasksInv, TaskTypes', NEW r \in Requests, Cleared(r)', Past(r)',
           \A q \in Requests : q # r => req'[q] = req[q] /\ effect'[q] = effect[q] /\ listed'[q] = listed[q],
           \A t \in Tasks : status'[t] \in {status[t], "removed"} \/ status[t] \notin Deletable \cup {"removed"}
    PROVE  TasksInv'
<1>1. ASSUME NEW q \in Requests PROVE Cleared(q)' /\ Past(q)'
    <2>1. CASE q = r
        BY <2>1
    <2>2. CASE q # r
        <3>1. /\ req'[q] = req[q] /\ effect'[q] = effect[q] /\ listed'[q] = listed[q]
              /\ Cleared(q) /\ Past(q) /\ req[q] \in Request
            BY <2>2 DEF TasksInv, TaskTypes
        <3>2. Past(q)'
            BY <3>1 DEF Past, Mine, Proper
        <3>3. req[q].ask.mode = "delete" => req[q].ask.expected \in Deletable
            BY <3>1 DEF Request, Asks
        <3>4. Cleared(q)'
            BY <3>1, <3>3 DEF Cleared, Mine, Deletable
        <3> QED BY <3>2, <3>4
    <2> QED BY <2>1, <2>2
<1> QED BY <1>1 DEF TasksInv

\* A DELETE that takes effect.
LEMMA ExecuteIsProper ==
    ASSUME TasksInv, NEW r \in Requests, req[r].at = "delete", Execute(r)
    PROVE  /\ status' \in [Tasks -> Statuses]
           /\ effect' \in [Requests -> SUBSET Effects]
           /\ \A e \in effect'[r] : Proper(r, e)
           /\ \A q \in Requests : q # r => effect'[q] = effect[q]
           /\ \A t \in Tasks : status'[t] \in {status[t], "removed"} \/ status[t] \notin Deletable \cup {"removed"}
           /\ req[r].ask.mode = "delete" => status'[req[r].task] = "removed"
<1> DEFINE t == req[r].task
           e == [task |-> t, ask |-> req[r].ask, before |-> status[t], after |-> Applied(t)]
<1>1. /\ t \in Tasks /\ Mine(r, t) /\ req[r].ask \in Asks
      /\ req[r].ask.mode = "delete" => status[t] \in {req[r].ask.expected, "removed"}
      /\ status \in [Tasks -> Statuses] /\ effect \in [Requests -> SUBSET Effects]
      /\ \A x \in effect[r] : Proper(r, x)
    BY DEF TasksInv, TaskTypes, Cleared, Past, Request
<1>2. /\ Applicable(t) /\ status' = [status EXCEPT ![t] = Applied(t)]
      /\ effect' = [effect EXCEPT ![r] = @ \cup {e}]
    BY DEF Execute
<1>3. /\ Applied(t) \in {"cancelled", "removed"}
      /\ req[r].ask.mode = "delete" =>
            status[t] = req[r].ask.expected /\ Applied(t) = "removed"
      /\ Applied(t) = "removed" \/ status[t] \notin Deletable \cup {"removed"}
    BY <1>1, <1>2 DEF Applicable, Applied, Asks, Cancelable, Deletable
<1>4. e \in Effects /\ Proper(r, e)
    BY <1>1, <1>3 DEF Effects, Proper, Statuses
<1>5. status'[t] = Applied(t) /\ \A u \in Tasks : u # t => status'[u] = status[u]
    BY <1>1, <1>2
<1>6. status' \in [Tasks -> Statuses]
    BY <1>1, <1>2, <1>3 DEF Statuses
<1>7. effect' \in [Requests -> SUBSET Effects] /\ effect'[r] = effect[r] \cup {e}
      /\ \A q \in Requests : q # r => effect'[q] = effect[q]
    BY <1>1, <1>2, <1>4
<1> QED BY <1>1, <1>3, <1>4, <1>5, <1>6, <1>7

\* The next attempt, or the end.
LEMMA RetryKeeps ==
    ASSUME TasksInv, NEW r \in Requests, req[r].at = "delete",
           RetryOrFail(r) \/ End(r, "error") \/ End(r, "ok") \/ End(r, "gone")
    PROVE  /\ req' \in [Requests -> Request]
           /\ \A q \in Requests : q # r => req'[q] = req[q]
           /\ \/ req'[r].at \in {"ok", "error", "gone"}
              \/ /\ req'[r].at = "delete" /\ req'[r].task = req[r].task
                 /\ req'[r].ask = req[r].ask
<1>1. req \in [Requests -> Request]
    BY DEF TasksInv, TaskTypes
<1>2. CASE End(r, "error") \/ End(r, "ok") \/ End(r, "gone")
    BY <1>2, EndClears DEF ReqPlaces, InProgress
<1>3. CASE req[r].attempts + 1 < MaxDeleteAttempts /\ req' = [req EXCEPT ![r].attempts = @ + 1]
    <2>1. req[r] \in Request /\ req[r].attempts + 1 \in 0 .. MaxDeleteAttempts - 1
        BY <1>1, <1>3, DeleteAttemptsAssumption DEF Request
    <2>2. [req[r] EXCEPT !.attempts = @ + 1] \in Request
        BY <2>1 DEF Request
    <2>3. req'[r] = [req[r] EXCEPT !.attempts = @ + 1] /\ req' \in [Requests -> Request]
        BY <1>1, <1>3, <2>2
    <2> QED BY <1>1, <1>3, <2>1, <2>3 DEF Request
<1> QED BY <1>2, <1>3 DEF RetryOrFail

\* The DELETE, answered, unanswered, retried or refused.
LEMMA DeleteKeeps ==
    ASSUME TasksInv, NEW r \in Requests,
           \/ DeleteAnswered(r) \/ DeleteUnanswered(r) \/ DeleteFails(r)
           \/ Interrupt(r) /\ req[r].at = "delete"
    PROVE  TasksInv'
<1>1. /\ req[r].at = "delete" /\ UNCHANGED <<taskRows, listed>>
      /\ RetryOrFail(r) \/ End(r, "error") \/ End(r, "ok") \/ End(r, "gone")
      /\ Execute(r) \/ UNCHANGED <<status, effect>>
    BY DEF DeleteAnswered, DeleteUnanswered, DeleteFails, Interrupt
<1>2. /\ req' \in [Requests -> Request]
      /\ \A q \in Requests : q # r => req'[q] = req[q]
      /\ \/ req'[r].at \in {"ok", "error", "gone"}
         \/ /\ req'[r].at = "delete" /\ req'[r].task = req[r].task
            /\ req'[r].ask = req[r].ask
    BY <1>1, RetryKeeps
<1>3. /\ status' \in [Tasks -> Statuses]
      /\ effect' \in [Requests -> SUBSET Effects]
      /\ \A e \in effect'[r] : Proper(r, e)
      /\ \A q \in Requests : q # r => effect'[q] = effect[q]
      /\ \A t \in Tasks : status'[t] \in {status[t], "removed"} \/ status[t] \notin Deletable \cup {"removed"}
      /\ req[r].ask.mode = "delete" => status'[req[r].task] \in {status[req[r].task], "removed"}
    <2>1. CASE Execute(r)
        BY <1>1, <2>1, ExecuteIsProper
    <2>2. CASE UNCHANGED <<status, effect>>
        BY <2>2 DEF TasksInv, TaskTypes, Past
    <2> QED BY <1>1, <2>1, <2>2
<1>4. TaskTypes'
    BY <1>1, <1>2, <1>3 DEF TasksInv, TaskTypes, RowsAreTrue
<1>5. Cleared(r)'
    BY <1>1, <1>2, <1>3 DEF TasksInv, Cleared, Mine
<1>6. Past(r)'
    BY <1>1, <1>3 DEF TasksInv, Past, Mine, Proper
<1> QED BY <1>1, <1>2, <1>3, <1>4, <1>5, <1>6, OneRequest

\* A request for a change passes the owner check before it goes on.
LEMMA AskChangeKeeps ==
    ASSUME TasksInv, NEW r \in Requests, NEW t \in Tasks, NEW ask \in Asks, AskChange(r, t, ask)
    PROVE  TasksInv'
<1>1. UNCHANGED <<taskRows, status, effect, listed>>
    BY DEF AskChange
<1> DEFINE new == [NoAsk EXCEPT !.ask = ask, !.task = t, !.at = "fetch"]
<1>2. \/ End(r, "error")
      \/ MayUse(taskRows, TaskKey(t), CallerOf[r]) /\ req' = [req EXCEPT ![r] = new]
    BY DEF AskChange
<1>3. new \in Request /\ new.at = "fetch" /\ new.task = t
    <2>1. [NoAsk EXCEPT !.ask = ask] \in Request
        BY NoAskType DEF Request
    <2>2. [[NoAsk EXCEPT !.ask = ask] EXCEPT !.task = t] \in Request
        BY <2>1 DEF Request
    <2>3. new = [[[NoAsk EXCEPT !.ask = ask] EXCEPT !.task = t] EXCEPT !.at = "fetch"]
        OBVIOUS
    <2> QED BY <2>2, <2>3 DEF Request, ReqPlaces
<1>4. /\ req' \in [Requests -> Request]
      /\ \A q \in Requests : q # r => req'[q] = req[q]
      /\ req'[r].at = "error" \/ (req'[r].at = "fetch" /\ req'[r].task \in Tasks /\ Mine(r, req'[r].task))
    <2>1. CASE End(r, "error")
        BY <2>1, EndClears DEF ReqPlaces, InProgress
    <2>2. CASE MayUse(taskRows, TaskKey(t), CallerOf[r]) /\ req' = [req EXCEPT ![r] = new]
        <3> HIDE DEF new
        <3> QED BY <1>3, <2>2, OwnersOnly DEF TasksInv, TaskTypes
    <2> QED BY <1>2, <2>1, <2>2
<1>5. TaskTypes'
    BY <1>1, <1>4 DEF TasksInv, TaskTypes, RowsAreTrue
<1>6. Cleared(r)' /\ Past(r)'
    BY <1>1, <1>4 DEF TasksInv, Cleared, Past, Mine, Proper
<1> QED BY <1>1, <1>4, <1>5, <1>6, OneRequest

\* The status that is looked at is the one the caller expects.
LEMMA FetchKeeps ==
    ASSUME TasksInv, NEW r \in Requests, FetchStatus(r)
    PROVE  TasksInv'
<1>1. req[r].at = "fetch" /\ UNCHANGED <<taskRows, status, effect, listed>>
    BY DEF FetchStatus
<1>2. /\ req' \in [Requests -> Request]
      /\ \A q \in Requests : q # r => req'[q] = req[q]
      /\ \/ req'[r].at = "error"
         \/ /\ req'[r].at = "delete" /\ req'[r].task = req[r].task /\ req'[r].ask = req[r].ask
            /\ status[req[r].task] = req[r].ask.expected
    <2>1. CASE End(r, "error")
        BY <2>1, EndClears DEF ReqPlaces, InProgress
    <2>2. CASE MatchesExpected(r) /\ To(r, "delete")
        <3>1. req[r] \in Request /\ req \in [Requests -> Request]
            BY DEF TasksInv, TaskTypes
        <3>2. [req[r] EXCEPT !.at = "delete"] \in Request
            BY <3>1 DEF Request, ReqPlaces
        <3> QED BY <2>2, <3>1, <3>2 DEF To, MatchesExpected, Request
    <2> QED BY <2>1, <2>2 DEF FetchStatus
<1>3. TaskTypes'
    BY <1>1, <1>2 DEF TasksInv, TaskTypes, RowsAreTrue
<1>4. Cleared(r)' /\ Past(r)'
    BY <1>1, <1>2 DEF TasksInv, Cleared, Past, Mine, Proper
<1> QED BY <1>1, <1>2, <1>3, <1>4, OneRequest

\* A remote caller's filter is never empty and names its own tasks.
LEMMA AskListKeeps ==
    ASSUME TasksInv, NEW r \in Requests, NEW named \in Filters, NEW all \in BOOLEAN,
           AskList(r, named, all)
    PROVE  TasksInv'
<1> DEFINE filter == Narrowed(CallerOf[r], named, all)
<1>1. UNCHANGED <<taskRows, status, effect, listed>>
    BY DEF AskList
<1>2. \/ End(r, "ok")
      \/ /\ NeedsProvider(CallerOf[r], filter)
         /\ req' = [req EXCEPT ![r].filter = filter, ![r].at = "list"]
    BY DEF AskList
<1>3. /\ filter \in Filters
      /\ CallerOf[r] \in LocalPrincipals \/ \A t \in filter : Mine(r, t)
    BY OwnTasksOnly DEF TasksInv, TaskTypes, Narrowed, Filters
<1>4. /\ req' \in [Requests -> Request]
      /\ \A q \in Requests : q # r => req'[q] = req[q]
      /\ \/ req'[r].at = "ok"
         \/ /\ req'[r].at = "list"
            /\ req'[r].filter = filter /\ NeedsProvider(CallerOf[r], filter)
    <2>1. CASE End(r, "ok")
        BY <2>1, EndClears DEF ReqPlaces, InProgress
    <2>2. CASE /\ NeedsProvider(CallerOf[r], filter)
               /\ req' = [req EXCEPT ![r].filter = filter, ![r].at = "list"]
        <3> HIDE DEF filter
        <3>1. req[r] \in Request /\ req \in [Requests -> Request]
            BY DEF TasksInv, TaskTypes
        <3>2. [req[r] EXCEPT !.filter = filter, !.at = "list"] \in Request
            BY <1>3, <3>1 DEF Request, ReqPlaces
        <3>3. req' = [req EXCEPT ![r] = [req[r] EXCEPT !.filter = filter, !.at = "list"]]
            BY <2>2, <3>1
        <3> QED BY <2>2, <3>1, <3>2, <3>3 DEF Request
    <2> QED BY <1>2, <2>1, <2>2
<1> HIDE DEF filter
<1>5. TaskTypes'
    BY <1>1, <1>4 DEF TasksInv, TaskTypes, RowsAreTrue
<1>6. Cleared(r)' /\ Past(r)'
    BY <1>1, <1>3, <1>4 DEF TasksInv, Cleared, Past, Mine, Proper, NeedsProvider
<1> QED BY <1>1, <1>4, <1>5, <1>6, OneRequest

\* A listing keeps only the tasks of its caller.
LEMMA ListKeeps ==
    ASSUME TasksInv, NEW r \in Requests,
           ListAnswered(r) \/ ListFails(r) \/ (Interrupt(r) /\ req[r].at # "delete")
    PROVE  TasksInv'
<1>1. /\ UNCHANGED <<taskRows, status, effect>>
      /\ End(r, "ok") \/ End(r, "error") \/ End(r, "gone")
      /\ \/ UNCHANGED listed
         \/ /\ req[r].at = "list"
            /\ listed' = [listed EXCEPT ![r] =
                  {t \in Tasks : status[t] # "removed" /\ (req[r].filter # {} => t \in req[r].filter)}]
    BY DEF ListAnswered, ListFails, Interrupt
<1>2. /\ req' \in [Requests -> Request]
      /\ \A q \in Requests : q # r => req'[q] = req[q]
      /\ req'[r].at \in {"ok", "error", "gone"}
    BY <1>1, EndClears DEF ReqPlaces, InProgress
<1>3. /\ listed' \in [Requests -> SUBSET Tasks]
      /\ \A q \in Requests : q # r => listed'[q] = listed[q]
      /\ \A t \in listed'[r] : Mine(r, t)
    BY <1>1 DEF TasksInv, TaskTypes, Cleared, Past, Mine
<1>4. TaskTypes'
    BY <1>1, <1>2, <1>3 DEF TasksInv, TaskTypes, RowsAreTrue
<1>5. Cleared(r)' /\ Past(r)'
    BY <1>1, <1>2, <1>3 DEF TasksInv, Cleared, Past, Mine, Proper
<1> QED BY <1>1, <1>2, <1>3, <1>4, <1>5, OneRequest

\* What the provider does on its own, and the sweeper.
LEMMA AroundKeeps ==
    ASSUME TasksInv, NEW t \in Tasks, Advance(t) \/ ForgetOwner(t)
    PROVE  TasksInv'
<1>1. /\ UNCHANGED <<req, effect, listed>>
      /\ \A u \in Tasks : status'[u] = status[u] \/ status[u] \notin Deletable \cup {"removed"}
      /\ status' \in [Tasks -> Statuses]
      /\ taskRows' \subseteq taskRows
    BY DEF Advance, ForgetOwner, Advances, TasksInv, TaskTypes, Statuses, Cancelable, Deletable
<1>2. TaskTypes'
    BY <1>1 DEF TasksInv, TaskTypes, RowsAreTrue
<1>3. ASSUME NEW r \in Requests PROVE Cleared(r)' /\ Past(r)'
    <2>1. req[r].ask.mode = "delete" => req[r].ask.expected \in Deletable
        BY DEF TasksInv, TaskTypes, Request, Asks
    <2> QED BY <1>1, <2>1 DEF TasksInv, Cleared, Past, Mine, Proper
<1> QED BY <1>2, <1>3 DEF TasksInv

\* The inductive step.
LEMMA TasksInductive == ASSUME TasksInv, [TasksNext]_taskVars PROVE TasksInv'
<1>1. ASSUME NEW r \in Requests,
             FetchStatus(r) \/ DeleteAnswered(r) \/ DeleteUnanswered(r) \/ DeleteFails(r)
                 \/ ListAnswered(r) \/ ListFails(r) \/ Interrupt(r)
      PROVE  TasksInv'
    BY <1>1, FetchKeeps, DeleteKeeps, ListKeeps
<1>2. CASE UNCHANGED taskVars
    BY <1>2 DEF taskVars, TasksInv, TaskTypes, RowsAreTrue, Cleared, Past, Mine, Proper
<1> QED BY <1>1, <1>2, AskChangeKeeps, AskListKeeps, AroundKeeps DEF TasksNext

\* Requests about tasks keep their invariant.
LEMMA TasksCorrect == TasksSpec => []TasksInv
BY TasksInitially, TasksInductive, PTL DEF TasksSpec

\* Requests, tasks and rows have their types: attempts stay within the policy.
LEMMA TasksTypeCorrect == TasksSpec => []TasksTypeOK
<1>1. TasksInv => TasksTypeOK
    BY DEF TasksInv, TaskTypes, RowsAreTrue, Request, TasksTypeOK
<1> QED BY <1>1, TasksCorrect, PTL

\* A record that is deleted was in the status its caller had in mind, however
\* the task, other requests and lost answers came between look and deletion.
THEOREM DeletesCorrect == TasksSpec => []DeletesAreExpected
<1>1. TasksInv => DeletesAreExpected
    BY DEF TasksInv, Past, Proper, DeletesAreExpected
<1> QED BY <1>1, TasksCorrect, PTL

\* No remote caller changes or is shown a task that another principal made.
THEOREM TasksPrivacyCorrect == TasksSpec => []TasksArePrivate
<1>1. TasksInv => TasksArePrivate
    BY DEF TasksInv, Past, Proper, Mine, TasksArePrivate
<1> QED BY <1>1, TasksCorrect, PTL

-----------------------------------------------------------------------------
(***************************************************************************)
(* Object keys: who may have a URL signed for a key, and for how long.     *)
(*                                                                         *)
(* A row of an uploaded key goes only by age, and each use renews it; so a *)
(* key that was used recently has its row, and a row names the uploader.   *)
(* A signed URL is private because its item was signed after the owner of  *)
(* that very key had been asked for.                                       *)
(***************************************************************************)

BatchType == [at : {"idle", "owner", "sign"}, by : Principals \cup {NoBatch.by},
              keys : Seq(Keys), items : Seq(PresignCodes)]

\* A row names the uploader of its key, and carries the day of its last use.
KeyRowsAreTrue ==
    \A r \in keyRows : r.key \in Keys /\ r.owner = UploaderOf[r.key] /\ r.at = used[r.key]

\* The row of an uploaded key is gone only when it was too old.
KeyIsRecorded(k) ==
    upload[k] = "answered" => HasRow(keyRows, k) \/ used[k] + RetentionDays < keyDay

MaySign(o, k) == o \in LocalPrincipals \/ o = UploaderOf[k]

\* Every key of a request gets its turn, and only cleared ones are signed.
BatchIsSound ==
    /\ batch \in BatchType
    /\ batch.at # "idle" => Len(batch.items) < Len(batch.keys)
    /\ batch.at = "sign" => MaySign(batch.by, Current)
    /\ \A u \in urls : MaySign(u[1], u[2])

KeysInv ==
    /\ keyDay \in Nat /\ used \in [Keys -> Nat] /\ upload \in [Keys -> UploadPlaces]
    /\ KeyRowsAreTrue
    /\ \A k \in Keys : used[k] <= keyDay /\ KeyIsRecorded(k)
    /\ BatchIsSound

\* No batch is a batch.
LEMMA NoBatchType == NoBatch \in BatchType /\ NoBatch.at = "idle"
BY DEF NoBatch, BatchType

\* A new server owns no key.
LEMMA KeysInitially == KeysInit => KeysInv
BY NoBatchType DEF KeysInit, KeysInv, BatchIsSound, KeyRowsAreTrue, KeyIsRecorded, UploadPlaces

\* The batch stays where no action of the batch happens.
LEMMA BatchStays == ASSUME KeysInv, UNCHANGED <<batch, urls>> PROVE BatchIsSound'
BY DEF KeysInv, BatchIsSound, BatchType, MaySign, Current

\* Recording a key, or using it, renews its row.
LEMMA RenewKeeps ==
    ASSUME KeysInv, NEW k \in Keys, keyRows' = Renewed(k, UploaderOf[k]),
           used' = [used EXCEPT ![k] = keyDay], keyDay' = keyDay
    PROVE  /\ used' \in [Keys -> Nat] /\ KeyRowsAreTrue'
           /\ HasRow(keyRows', k)
           /\ \A x \in Keys : /\ used'[x] <= keyDay'
                              /\ x # k => used'[x] = used[x]
                              /\ HasRow(keyRows, x) => HasRow(keyRows', x)
<1>1. used' \in [Keys -> Nat] /\ used'[k] = keyDay /\ \A x \in Keys : x # k => used'[x] = used[x]
    BY DEF KeysInv
<1>2. \A r \in keyRows' : \/ r \in keyRows /\ r.key # k
                          \/ r = [key |-> k, owner |-> UploaderOf[k], at |-> keyDay]
    BY DEF Renewed, RowsOf
<1>3. KeyRowsAreTrue'
    BY <1>1, <1>2 DEF KeysInv, KeyRowsAreTrue
<1>4. \A x \in Keys : x # k => RowsOf(keyRows', x) = RowsOf(keyRows, x)
    BY DEF Renewed, RowsOf
<1> DEFINE new == [key |-> k, owner |-> UploaderOf[k], at |-> keyDay]
<1>5. new \in keyRows' /\ new.key = k
    BY DEF Renewed
<1>6. HasRow(keyRows', k)
    BY <1>5 DEF HasRow, RowsOf
<1> QED BY <1>1, <1>3, <1>4, <1>6 DEF HasRow, KeysInv

\* The steps of an upload: a row follows the object that it names.
LEMMA UploadKeeps ==
    ASSUME KeysInv, NEW k \in Keys,
           StartUpload(k) \/ PutObject(k) \/ SignUpload(k) \/ RecordKey(k) \/ UploadFails(k)
    PROVE  KeysInv'
<1>1. /\ UNCHANGED <<keyDay, batch, urls>>
      /\ \/ UNCHANGED <<keyRows, used>>
         \/ keyRows' = Renewed(k, UploaderOf[k]) /\ used' = [used EXCEPT ![k] = keyDay]
      /\ \E place \in UploadPlaces :
            /\ upload' = [upload EXCEPT ![k] = place]
            /\ place = "answered" => keyRows' = Renewed(k, UploaderOf[k])
                                     /\ used' = [used EXCEPT ![k] = keyDay]
    BY DEF StartUpload, PutObject, SignUpload, RecordKey, UploadFails, UploadPlaces
<1>2. upload' \in [Keys -> UploadPlaces] /\ \A x \in Keys : x # k => upload'[x] = upload[x]
    BY <1>1 DEF KeysInv
<1>3. CASE UNCHANGED <<keyRows, used>> /\ upload'[k] # "answered"
    <2>1. KeyRowsAreTrue' /\ \A x \in Keys : (used[x] <= keyDay /\ KeyIsRecorded(x))'
        BY <1>1, <1>2, <1>3 DEF KeysInv, KeyRowsAreTrue, KeyIsRecorded
    <2> QED BY <1>1, <1>2, <1>3, <2>1, BatchStays DEF KeysInv
<1>4. CASE keyRows' = Renewed(k, UploaderOf[k]) /\ used' = [used EXCEPT ![k] = keyDay]
    <2>1. KeyRowsAreTrue' /\ used' \in [Keys -> Nat]
          /\ \A x \in Keys : (used[x] <= keyDay /\ KeyIsRecorded(x))'
        BY <1>1, <1>2, <1>4, RenewKeeps DEF KeysInv, KeyIsRecorded
    <2> QED BY <1>1, <1>2, <1>4, <2>1, BatchStays DEF KeysInv
<1> QED BY <1>1, <1>3, <1>4 DEF KeysInv

\* The next key or the end: nothing is to be signed.
LEMMA WithItemType ==
    ASSUME KeysInv, NEW code \in PresignCodes, batch.at # "idle"
    PROVE  /\ WithItem(code) \in BatchType
           /\ WithItem(code).at # "sign"
           /\ WithItem(code).at # "idle" => Len(WithItem(code).items) < Len(WithItem(code).keys)
<1>1. CASE Len(batch.items) + 1 = Len(batch.keys)
    BY <1>1, NoBatchType DEF WithItem
<1>2. CASE Len(batch.items) + 1 # Len(batch.keys)
    <2> DEFINE new == [batch EXCEPT !.at = "owner", !.items = Append(@, code)]
    <2>1. batch \in BatchType /\ Len(batch.items) < Len(batch.keys)
        BY DEF KeysInv, BatchIsSound
    <2>2. Append(batch.items, code) \in Seq(PresignCodes)
          /\ Len(Append(batch.items, code)) = Len(batch.items) + 1
          /\ Len(batch.items) \in Nat /\ Len(batch.keys) \in Nat
        BY <2>1 DEF BatchType
    <2>3. new \in BatchType /\ new.at = "owner" /\ new.items = Append(batch.items, code)
          /\ new.keys = batch.keys
        BY <2>1, <2>2 DEF BatchType
    <2>4. WithItem(code) = new
        BY <1>2 DEF WithItem
    <2> QED BY <1>2, <2>1, <2>2, <2>3, <2>4
<1> QED BY <1>1, <1>2

\* Whoever passes the owner check may sign: rows name the uploader.
LEMMA OwnerCheck ==
    ASSUME KeysInv, MayUse(keyRows, Current, batch.by)
    PROVE  /\ MaySign(batch.by, Current)
           /\ HasRow(keyRows, Current) => Current \in Keys /\ batch.by = UploaderOf[Current]
BY DEF KeysInv, KeyRowsAreTrue, MayUse, HasRow, RowsOf, MaySign

\* The steps of presigning: an item is signed after its owner was asked for, and
\* renews the row.
LEMMA PresignKeeps ==
    ASSUME KeysInv,
           \/ \E o \in Principals, ks \in KeySeqs : StartPresign(o, ks)
           \/ RequireKeyOwner \/ SignKey \/ PresignFails
    PROVE  KeysInv'
<1>1. /\ UNCHANGED <<keyDay, upload>>
      /\ \/ UNCHANGED <<keyRows, used>>
         \/ /\ HasRow(keyRows, Current) /\ MayUse(keyRows, Current, batch.by)
            /\ keyRows' = Renewed(Current, batch.by) /\ used' = [used EXCEPT ![Current] = keyDay]
    BY DEF StartPresign, RequireKeyOwner, SignKey, PresignFails
<1>2. /\ used' \in [Keys -> Nat] /\ KeyRowsAreTrue'
      /\ \A k \in Keys : (used[k] <= keyDay /\ KeyIsRecorded(k))'
    <2>1. CASE UNCHANGED <<keyRows, used>>
        BY <1>1, <2>1 DEF KeysInv, KeyRowsAreTrue, KeyIsRecorded
    <2>2. CASE /\ HasRow(keyRows, Current) /\ MayUse(keyRows, Current, batch.by)
               /\ keyRows' = Renewed(Current, batch.by) /\ used' = [used EXCEPT ![Current] = keyDay]
        BY <1>1, <2>2, OwnerCheck, RenewKeeps DEF KeysInv, KeyIsRecorded
    <2> QED BY <1>1, <2>1, <2>2
<1>3. BatchIsSound'
    <2>1. ASSUME NEW o \in Principals, NEW ks \in KeySeqs, StartPresign(o, ks)
          PROVE  BatchIsSound'
        <3> DEFINE new == [NoBatch EXCEPT !.at = "owner", !.by = o, !.keys = ks]
        <3>1. ks \in Seq(Keys) /\ Len(ks) > 0
            BY KeyBounds DEF KeySeqs
        <3>2. [NoBatch EXCEPT !.at = "owner"] \in BatchType
            BY NoBatchType DEF BatchType
        <3>3. [[NoBatch EXCEPT !.at = "owner"] EXCEPT !.by = o] \in BatchType
            BY <3>2 DEF BatchType
        <3>4. new = [[[NoBatch EXCEPT !.at = "owner"] EXCEPT !.by = o] EXCEPT !.keys = ks]
            OBVIOUS
        <3>5. new \in BatchType /\ new.at = "owner" /\ new.keys = ks /\ new.items = NoBatch.items
            BY <3>1, <3>3, <3>4, NoBatchType DEF BatchType
        <3>6. Len(NoBatch.items) = 0
            BY DEF NoBatch
        <3> QED BY <2>1, <3>1, <3>5, <3>6 DEF StartPresign, KeysInv, BatchIsSound, MaySign, Current
    <2>2. CASE RequireKeyOwner
        <3>1. CASE batch' \in {WithItem("INVALID_KEY"), WithItem("NOT_OWNED")}
            BY <2>2, <3>1, WithItemType DEF RequireKeyOwner, KeysInv, BatchIsSound, PresignCodes, MaySign, Current
        <3>2. CASE MayUse(keyRows, Current, batch.by) /\ batch' = [batch EXCEPT !.at = "sign"]
            <4>1. batch \in BatchType /\ batch.at = "owner"
                BY <2>2 DEF KeysInv, BatchIsSound, RequireKeyOwner
            <4>2. /\ batch' \in BatchType /\ batch'.at = "sign" /\ batch'.by = batch.by
                  /\ batch'.keys = batch.keys /\ batch'.items = batch.items
                BY <3>2, <4>1 DEF BatchType
            <4> QED BY <2>2, <3>2, <4>1, <4>2, OwnerCheck DEF RequireKeyOwner, KeysInv, BatchIsSound, Current, MaySign
        <3> QED BY <2>2, <3>1, <3>2 DEF RequireKeyOwner
    <2>3. CASE SignKey
        BY <2>3, WithItemType DEF SignKey, KeysInv, BatchIsSound, PresignCodes, MaySign, Current
    <2>4. CASE PresignFails
        BY <2>4, WithItemType, NoBatchType DEF PresignFails, KeysInv, BatchIsSound, PresignCodes, MaySign, Current
    <2> QED BY <2>1, <2>2, <2>3, <2>4
<1> QED BY <1>1, <1>2, <1>3 DEF KeysInv

\* Time and the sweeper.
LEMMA AgeingKeeps == ASSUME KeysInv, PruneKeys \/ NextKeyDay PROVE KeysInv'
<1>1. /\ UNCHANGED <<upload, batch, used, urls>> /\ keyDay' \in Nat /\ keyDay' >= keyDay
      /\ keyRows' \subseteq keyRows
      /\ \A r \in keyRows : r.at + RetentionDays >= keyDay => r \in keyRows'
    BY DEF PruneKeys, NextKeyDay, PrunedRows, KeysInv
<1>2. KeyRowsAreTrue'
    BY <1>1 DEF KeysInv, KeyRowsAreTrue
<1>3. ASSUME NEW k \in Keys PROVE (used[k] <= keyDay /\ KeyIsRecorded(k))'
    <2>1. used[k] \in Nat /\ keyDay \in Nat /\ used[k] <= keyDay
        BY DEF KeysInv
    <2>2. CASE HasRow(keyRows, k)
        <3>1. PICK r \in keyRows : r.key = k
            BY <2>2 DEF HasRow, RowsOf
        <3>2. r.at = used[k]
            BY <3>1 DEF KeysInv, KeyRowsAreTrue
        <3> QED BY <1>1, <2>1, <3>1, <3>2, RetentionAssumption DEF KeyIsRecorded, HasRow, RowsOf
    <2>3. CASE ~ HasRow(keyRows, k)
        BY <1>1, <2>1, <2>3, RetentionAssumption DEF KeysInv, KeyIsRecorded
    <2> QED BY <2>2, <2>3
<1> QED BY <1>1, <1>2, <1>3, BatchStays DEF KeysInv

\* The inductive step.
LEMMA KeysInductive == ASSUME KeysInv, [KeysNext]_keyVars PROVE KeysInv'
<1>1. CASE UNCHANGED keyVars
    BY <1>1 DEF keyVars, KeysInv, KeyRowsAreTrue, KeyIsRecorded, BatchIsSound, MaySign, Current
<1> QED BY <1>1, UploadKeeps, PresignKeeps, AgeingKeeps DEF KeysNext

\* The rows of object keys keep their invariant.
LEMMA KeysCorrect == KeysSpec => []KeysInv
BY KeysInitially, KeysInductive, PTL DEF KeysSpec

\* The types of what the uploads and the batch keep; a batch under way has a caller.
KeysTyped == KeysTypeOK /\ (batch.at # "idle" => batch.by \in Principals)

\* No key and no request at first.
LEMMA KeysTypedInitially == KeysInit => KeysTyped
BY KeyBounds, NoBatchType DEF KeysInit, KeysTyped, KeysTypeOK, NoBatch, UploadPlaces, OwnerRow

\* The key whose turn it is, is a key.
LEMMA CurrentIsKey == ASSUME KeysInv, batch.at # "idle" PROVE Current \in Keys
<1>1. /\ batch.keys \in Seq(Keys) /\ batch.items \in Seq(PresignCodes)
      /\ Len(batch.items) < Len(batch.keys)
    BY DEF KeysInv, BatchIsSound, BatchType
<1>2. Len(batch.items) + 1 \in 1 .. Len(batch.keys)
    BY <1>1
<1> QED BY <1>1, <1>2 DEF Current

\* Recording a key, or using it, enters a row of its type.
LEMMA RenewTypes ==
    ASSUME KeysTypeOK, NEW k \in Keys, NEW o \in Principals
    PROVE  /\ Renewed(k, o) \subseteq OwnerRow(Keys, 0 .. MaxKeyDay)
           /\ [used EXCEPT ![k] = keyDay] \in [Keys -> 0 .. MaxKeyDay]
BY DEF KeysTypeOK, Renewed, OwnerRow

\* The batch, one key further.
LEMMA ItemTypes ==
    ASSUME KeysInv, KeysTyped, NEW code \in PresignCodes, batch.at # "idle", batch' = WithItem(code)
    PROVE  /\ batch'.at \in {"idle", "owner"} /\ batch'.by \in Principals \cup {NoBatch.by}
           /\ batch'.at # "idle" => batch'.by \in Principals
           /\ batch'.keys \in Seq(Keys) /\ batch'.items \in Seq(PresignCodes)
           /\ Len(batch'.items) <= Len(batch'.keys) /\ Len(batch'.keys) <= MaxBatch
<1>1. CASE Len(batch.items) + 1 = Len(batch.keys)
    <2>1. batch' = NoBatch
        BY <1>1 DEF WithItem
    <2> QED BY <2>1, KeyBounds DEF NoBatch
<1>2. CASE Len(batch.items) + 1 # Len(batch.keys)
    <2>1. /\ batch \in BatchType /\ Len(batch.items) < Len(batch.keys)
          /\ batch' = [batch EXCEPT !.at = "owner", !.items = Append(@, code)]
        BY <1>2 DEF KeysInv, BatchIsSound, WithItem
    <2>2. /\ Append(batch.items, code) \in Seq(PresignCodes)
          /\ Len(Append(batch.items, code)) = Len(batch.items) + 1
          /\ Len(batch.items) \in Nat /\ Len(batch.keys) \in Nat
        BY <2>1 DEF BatchType
    <2>3. /\ batch'.at = "owner" /\ batch'.by = batch.by /\ batch'.keys = batch.keys
          /\ batch'.items = Append(batch.items, code)
        BY <2>1 DEF BatchType
    <2> QED BY <2>1, <2>2, <2>3 DEF KeysTyped, KeysTypeOK
<1> QED BY <1>1, <1>2

\* Every step keeps the types.
LEMMA KeysTypedInductive == ASSUME KeysInv, KeysTyped, [KeysNext]_keyVars PROVE KeysTyped'
<1>1. ASSUME NEW k \in Keys,
             StartUpload(k) \/ PutObject(k) \/ SignUpload(k) \/ RecordKey(k) \/ UploadFails(k)
      PROVE  KeysTyped'
    <2>1. /\ UNCHANGED <<keyDay, batch, urls>>
          /\ objects' \in {objects, objects \cup {k}}
          /\ \/ UNCHANGED <<keyRows, used>>
             \/ keyRows' = Renewed(k, UploaderOf[k]) /\ used' = [used EXCEPT ![k] = keyDay]
          /\ \E place \in UploadPlaces : upload' = [upload EXCEPT ![k] = place]
        BY <1>1 DEF StartUpload, PutObject, SignUpload, RecordKey, UploadFails, UploadPlaces
    <2>2. UploaderOf[k] \in Principals
        BY KeysAssumption
    <2>3. /\ keyRows' \subseteq OwnerRow(Keys, 0 .. MaxKeyDay)
          /\ used' \in [Keys -> 0 .. MaxKeyDay]
        BY <2>1, <2>2, RenewTypes DEF KeysTyped, KeysTypeOK
    <2>4. upload' \in [Keys -> UploadPlaces] /\ objects' \subseteq Keys
        BY <2>1 DEF KeysTyped, KeysTypeOK
    <2> QED BY <2>1, <2>3, <2>4 DEF KeysTyped, KeysTypeOK
<1>2. ASSUME NEW o \in Principals, NEW ks \in KeySeqs, StartPresign(o, ks)
      PROVE  KeysTyped'
    <2>1. ks \in Seq(Keys) /\ Len(ks) \in Nat /\ Len(ks) <= MaxBatch
        BY KeyBounds DEF KeySeqs
    <2>2. /\ batch'.at = "owner" /\ batch'.by = o /\ batch'.keys = ks /\ batch'.items = <<>>
        BY <1>2, NoBatchType DEF StartPresign, NoBatch
    <2>3. batch'.items \in Seq(PresignCodes) /\ Len(batch'.items) = 0
        BY <2>2
    <2>4. UNCHANGED <<keyRows, keyDay, objects, upload, used, urls>>
        BY <1>2 DEF StartPresign
    <2> QED BY <2>1, <2>2, <2>3, <2>4 DEF KeysTyped, KeysTypeOK
<1>3. CASE RequireKeyOwner
    <2>1. batch.at = "owner" /\ Current \in Keys /\ batch.by \in Principals
        BY <1>3, CurrentIsKey DEF RequireKeyOwner, KeysTyped
    <2>2. /\ keyRows' \subseteq OwnerRow(Keys, 0 .. MaxKeyDay)
          /\ used' \in [Keys -> 0 .. MaxKeyDay]
        BY <1>3, <2>1, RenewTypes DEF RequireKeyOwner, KeysTyped, KeysTypeOK
    <2>3. CASE batch' \in {WithItem("INVALID_KEY"), WithItem("NOT_OWNED")}
        BY <1>3, <2>1, <2>2, <2>3, ItemTypes DEF RequireKeyOwner, KeysTyped, KeysTypeOK, PresignCodes
    <2>4. CASE batch' = [batch EXCEPT !.at = "sign"]
        <3>1. /\ batch'.at = "sign" /\ batch'.by = batch.by
              /\ batch'.keys = batch.keys /\ batch'.items = batch.items
            BY <2>4 DEF KeysInv, BatchIsSound, BatchType
        <3> QED BY <1>3, <2>1, <2>2, <3>1 DEF RequireKeyOwner, KeysTyped, KeysTypeOK
    <2> QED BY <1>3, <2>3, <2>4 DEF RequireKeyOwner
<1>4. CASE SignKey
    <2>1. batch.at = "sign" /\ Current \in Keys /\ batch.by \in Principals
        BY <1>4, CurrentIsKey DEF SignKey, KeysTyped
    <2>2. urls' \subseteq Principals \X Keys
        BY <1>4, <2>1 DEF SignKey, KeysTyped, KeysTypeOK
    <2> QED BY <1>4, <2>1, <2>2, ItemTypes DEF SignKey, KeysTyped, KeysTypeOK, PresignCodes
<1>5. CASE PresignFails
    <2>1. CASE batch' = NoBatch
        BY <1>5, <2>1, KeyBounds DEF PresignFails, KeysTyped, KeysTypeOK, NoBatch
    <2>2. CASE batch' = WithItem("INTERNAL")
        BY <1>5, <2>2, ItemTypes DEF PresignFails, KeysTyped, KeysTypeOK, PresignCodes
    <2> QED BY <1>5, <2>1, <2>2 DEF PresignFails
<1>6. CASE PruneKeys \/ NextKeyDay
    <2>1. /\ keyRows' \subseteq keyRows /\ UNCHANGED <<objects, upload, batch, used, urls>>
          /\ keyDay' \in 0 .. MaxKeyDay
        BY <1>6, KeyBounds DEF PruneKeys, NextKeyDay, PrunedRows, KeysTyped, KeysTypeOK
    <2> QED BY <2>1 DEF KeysTyped, KeysTypeOK
<1>7. CASE UNCHANGED keyVars
    BY <1>7 DEF keyVars, KeysTyped, KeysTypeOK
<1> QED BY <1>1, <1>2, <1>3, <1>4, <1>5, <1>6, <1>7 DEF KeysNext

\* The rows, the batch and the URLs have their types: a presign request never
\* has more items than keys, and signs for a principal.
LEMMA KeysTypeCorrect == KeysSpec => []KeysTypeOK
<1>1. KeysInit => KeysInv /\ KeysTyped
    BY KeysInitially, KeysTypedInitially
<1>2. KeysInv /\ KeysTyped /\ [KeysNext]_keyVars => (KeysInv /\ KeysTyped)'
    BY KeysInductive, KeysTypedInductive
<1>3. KeysTyped => KeysTypeOK
    BY DEF KeysTyped
<1> QED BY <1>1, <1>2, <1>3, PTL DEF KeysSpec

\* A key in use never loses its owner to prune(), for any retention.
THEOREM UsedKeysCorrect == KeysSpec => []UsedKeysStay
<1>1. KeysInv => UsedKeysStay
    <2> SUFFICES ASSUME KeysInv, NEW k \in Keys, upload[k] = "answered",
                        keyDay <= used[k] + RetentionDays
                 PROVE  \E r \in keyRows : r.key = k /\ r.owner = UploaderOf[k]
        BY DEF UsedKeysStay
    <2>1. HasRow(keyRows, k)
        BY RetentionAssumption DEF KeysInv, KeyIsRecorded
    <2> QED BY <2>1 DEF KeysInv, KeyRowsAreTrue, HasRow, RowsOf
<1> QED BY <1>1, KeysCorrect, PTL

\* No remote principal is handed a URL of somebody else's object.
THEOREM UrlsPrivacyCorrect == KeysSpec => []UrlsArePrivate
<1>1. KeysInv => UrlsArePrivate
    BY DEF KeysInv, BatchIsSound, MaySign, UrlsArePrivate
<1> QED BY <1>1, KeysCorrect, PTL

-----------------------------------------------------------------------------
(***************************************************************************)
(* The schema migration: no interruption loses or forks a row.             *)
(*                                                                         *)
(* At a rest point the promise is easy to state and not inductive: it says *)
(* nothing of a migration that has begun.  Sound says, for each form the   *)
(* two tables may be left in, where the last rows are; it holds of what is *)
(* on disk at every moment, and of what the connection sees until the copy.*)
(***************************************************************************)

\* Where the last row of every task is, in each form of the database.
Sound(db) ==
    /\ ~ db.hasLegacy => db.legacy = NoRows
    /\ db.form = "old" => Replaced(db.legacy, db.rows) = latest
    /\ db.form = "absent" => db.rows = NoRows /\ db.legacy = latest
    /\ db.form = "new" /\ db.hasLegacy => db.rows = NoRows /\ db.legacy = latest
    /\ db.form = "new" /\ ~ db.hasLegacy => db.rows = latest

\* How far the migration has come, in what the connection sees.
Progress ==
    /\ release \in {"none", "old", "inspecting", "serving"} => view = disk
    /\ release \in {"creating", "copying"} => Sound(view)
    /\ release = "old" => disk.form = "old"
    /\ release = "creating" => view.form # "old"
    /\ release = "copying" => view.form = "new"
    /\ release = "dropping" => view.form = "new" /\ view.rows = latest
    /\ release = "serving" => view.form = "new" /\ ~ view.hasLegacy

MigrationInv == MigrationTypeOK /\ Sound(disk) /\ Progress

-----------------------------------------------------------------------------
\* INSERT OR REPLACE keeps the types of a table.
LEMMA ReplacedType ==
    ASSUME NEW into \in Rows, NEW from \in Rows
    PROVE  Replaced(into, from) \in Rows
BY DEF Replaced, Rows

\* Copying into an empty table copies.
LEMMA ReplacedEmpty ==
    ASSUME NEW from \in Rows
    PROVE  Replaced(NoRows, from) = from
BY MigrationAssumption DEF Replaced, Rows, NoRows

\* Copying from an empty table changes nothing.
LEMMA ReplacedByNone ==
    ASSUME NEW into \in Rows
    PROVE  Replaced(into, NoRows) = into
BY MigrationAssumption DEF Replaced, Rows, NoRows

\* A row written last is the one that a merge keeps.
LEMMA ReplacedWritten ==
    ASSUME NEW into \in Rows, NEW from \in Rows, NEW t \in MigratedTasks, NEW n \in Nat \ {0}
    PROVE  Replaced(into, [from EXCEPT ![t] = n]) = [Replaced(into, from) EXCEPT ![t] = n]
BY DEF Replaced, Rows

\* The empty table is a table.
LEMMA NoRowsType == NoRows \in Rows
BY MigrationAssumption DEF NoRows, Rows

-----------------------------------------------------------------------------
\* A new database is sound.
LEMMA MigrationInvInit == MigrationInit => MigrationInv
<1>1. ASSUME MigrationInit PROVE Replaced(NoRows, NoRows) = NoRows
  BY NoRowsType, ReplacedEmpty
<1>. QED
  BY <1>1, NoRowsType
     DEF MigrationInit, MigrationInv, MigrationTypeOK, Sound, Progress, EmptyDatabase, Database,
         Releases

\* Starting the older release creates its table, or finds it.
LEMMA StartOldKeeps == ASSUME MigrationInv, StartOld PROVE MigrationInv'
<1>. USE DEF MigrationInv, MigrationTypeOK, StartOld, AutoCommit
<1>1. MigrationTypeOK'
  BY DEF Database, Releases
<1>2. Sound(disk)'
  <2>1. CASE disk.form = "old"
    BY <2>1 DEF Sound, Database
  <2>2. CASE disk.form = "absent"
    <3>1. disk.rows = NoRows /\ disk.legacy = latest /\ disk.legacy \in Rows
      BY <2>2 DEF Sound, Database
    <3>2. Replaced(disk.legacy, disk.rows) = latest
      BY <3>1, ReplacedByNone
    <3>. QED
      BY <2>2, <3>2 DEF Sound, Database
  <2>. QED
    BY <2>1, <2>2 DEF Database
<1>3. Progress'
  BY DEF Progress, Database
<1>. QED
  BY <1>1, <1>2, <1>3

\* A row of the older release goes into its own table.
LEMMA WriteOldKeeps ==
    ASSUME MigrationInv, NEW t \in MigratedTasks, WriteOld(t) PROVE MigrationInv'
<1>. USE DEF MigrationInv, MigrationTypeOK, WriteOld, AutoCommit
<1>1. latest[t] + 1 \in Nat \ {0} /\ latest[t] + 1 \in 0 .. MaxWrites
  BY MigrationAssumption DEF Rows
<1>2. disk.form = "old" /\ disk.rows \in Rows /\ disk.legacy \in Rows
  BY DEF Progress, Database
<1>3. [disk.rows EXCEPT ![t] = latest[t] + 1] \in Rows /\ latest' \in Rows
  BY <1>1, <1>2 DEF Rows
<1>4. MigrationTypeOK'
  BY <1>3 DEF Database, Releases
<1>5. Replaced(disk.legacy, [disk.rows EXCEPT ![t] = latest[t] + 1]) = latest'
  <2>1. Replaced(disk.legacy, disk.rows) = latest
    BY <1>2 DEF Sound
  <2>2. Replaced(disk.legacy, [disk.rows EXCEPT ![t] = latest[t] + 1])
          = [Replaced(disk.legacy, disk.rows) EXCEPT ![t] = latest[t] + 1]
    BY <1>1, <1>2, ReplacedWritten
  <2>. QED
    BY <2>1, <2>2
<1>6. disk' = [disk EXCEPT !.rows = [disk.rows EXCEPT ![t] = latest[t] + 1]]
  BY DEF Database
<1>7. Sound(disk)'
  BY <1>2, <1>5, <1>6 DEF Sound, Database
<1>8. Progress'
  BY <1>2, <1>6 DEF Progress, Database
<1>. QED
  BY <1>4, <1>7, <1>8

\* The migrating release starts.
LEMMA StartNewKeeps == ASSUME MigrationInv, StartNew PROVE MigrationInv'
BY DEF MigrationInv, MigrationTypeOK, StartNew, Sound, Progress, Releases

\* After the first statements the old table is gone, and its rows are in legacy.
LEMMA MoveOldRowsKeeps == ASSUME MigrationInv, MoveOldRows PROVE MigrationInv'
<1>. USE DEF MigrationInv, MigrationTypeOK
<1>0. view = disk /\ release' = "creating" /\ latest' = latest /\ disk \in Database
  BY DEF MoveOldRows, Progress
<1>1. CASE view.form # "old" /\ UNCHANGED <<disk, view>>
  BY <1>0, <1>1 DEF Sound, Progress, Releases
<1>2. CASE /\ view.form = "old" /\ ~ view.hasLegacy
           /\ AutoCommit([view EXCEPT !.form = "absent", !.rows = NoRows,
                                      !.hasLegacy = TRUE, !.legacy = view.rows])
  <2>1. view.rows \in Rows /\ view.legacy = NoRows /\ Replaced(view.legacy, view.rows) = latest
    BY <1>0, <1>2 DEF Sound, Database
  <2>2. view.rows = latest
    BY <2>1, ReplacedEmpty
  <2>3. view' \in Database /\ disk' = view'
    BY <1>0, <1>2, <2>1, NoRowsType DEF AutoCommit, Database
  <2>4. view'.form = "absent" /\ view'.hasLegacy /\ view'.rows = NoRows /\ view'.legacy = latest
    BY <1>0, <1>2, <2>2 DEF AutoCommit, Database
  <2>. QED
    BY <1>0, <2>3, <2>4 DEF Sound, Progress, Releases, NoRows, Rows
<1>3. CASE /\ view.form = "old" /\ view.hasLegacy
           /\ InTransaction([view EXCEPT !.form = "absent", !.rows = NoRows,
                                         !.legacy = Replaced(view.legacy, view.rows)])
  <2>1. view.rows \in Rows /\ view.legacy \in Rows /\ Replaced(view.legacy, view.rows) = latest
    BY <1>0, <1>3 DEF Sound, Database
  <2>2. view' \in Database /\ disk' = disk
    BY <1>0, <1>3, <2>1, NoRowsType, ReplacedType DEF InTransaction, Database
  <2>3. view'.form = "absent" /\ view'.hasLegacy /\ view'.rows = NoRows /\ view'.legacy = latest
    BY <1>0, <1>3, <2>1 DEF InTransaction, Database
  <2>. QED
    BY <1>0, <2>2, <2>3 DEF Sound, Progress, Releases, NoRows, Rows
<1>. QED
  BY <1>1, <1>2, <1>3 DEF MoveOldRows

\* Creating the new table leaves it empty beside the moved rows, if it was not there.
LEMMA CreateNewKeeps == ASSUME MigrationInv, CreateNew PROVE MigrationInv'
<1>. USE DEF MigrationInv, MigrationTypeOK
<1>1. /\ view \in Database /\ Sound(view) /\ view.form # "old"
      /\ release' = "copying" /\ latest' = latest
      /\ view' = [view EXCEPT !.form = "new"] /\ (disk' = view' \/ disk' = disk)
  BY DEF CreateNew, AutoCommit, InTransaction, Progress
<1>2. view' \in Database /\ view'.form = "new"
  BY <1>1 DEF Database
<1>3. /\ view'.hasLegacy = view.hasLegacy /\ view'.rows = view.rows
      /\ view'.legacy = view.legacy /\ view.form \in {"absent", "new"}
  BY <1>1 DEF Database
<1>4. Sound(view)'
  BY <1>1, <1>2, <1>3 DEF Sound, NoRows
<1>5. Sound(disk)'
  <2>1. CASE disk' = view'
    BY <1>4, <2>1 DEF Sound
  <2>2. CASE disk' = disk
    BY <1>1, <2>2 DEF Sound, NoRows
  <2>. QED
    BY <1>1, <2>1, <2>2
<1>6. MigrationTypeOK'
  BY <1>1, <1>2 DEF Releases
<1>7. Progress'
  BY <1>1, <1>2, <1>4 DEF Progress
<1>. QED
  BY <1>5, <1>6, <1>7

\* The copy completes the new table, or there is nothing to copy.
LEMMA CopyRowsKeeps == ASSUME MigrationInv, CopyRows PROVE MigrationInv'
<1>. USE DEF MigrationInv, MigrationTypeOK, CopyRows, LegacyLeft
<1>1. view \in Database /\ Sound(view) /\ view.form = "new" /\ latest' = latest
  BY DEF Progress
<1>2. CASE view.hasLegacy
  <2>1. view.rows = NoRows /\ view.legacy = latest /\ view.legacy \in Rows
    BY <1>1, <1>2 DEF Sound, Database
  <2>2. Replaced(view.rows, view.legacy) = latest
    BY <2>1, ReplacedEmpty
  <2>3. view' = [view EXCEPT !.rows = latest] /\ disk' = disk /\ release' = "dropping"
    BY <1>2, <2>2 DEF InTransaction
  <2>. QED
    BY <1>1, <2>3 DEF Sound, Progress, Releases, Database, NoRows
<1>3. CASE ~ view.hasLegacy
  <2>1. view' = view /\ disk' = view /\ release' = "serving"
    BY <1>3 DEF AutoCommit
  <2>. QED
    BY <1>1, <1>3, <2>1 DEF Sound, Progress, Releases, NoRows
<1>. QED
  BY <1>2, <1>3

\* The commit makes the copy and the end of legacy durable at once.
LEMMA DropLegacyKeeps == ASSUME MigrationInv, DropLegacy PROVE MigrationInv'
<1>. USE DEF MigrationInv, MigrationTypeOK, DropLegacy, AutoCommit
<1>1. view \in Database /\ view.form = "new" /\ view.rows = latest
  BY DEF Progress
<1>2. /\ view' \in Database /\ disk' = view' /\ view'.form = "new" /\ ~ view'.hasLegacy
      /\ view'.legacy = NoRows /\ view'.rows = latest /\ latest' = latest
  BY <1>1, NoRowsType DEF Database
<1>. QED
  BY <1>2 DEF Sound, Progress, Releases, NoRows

\* A row of the new release goes into the only table there is.
LEMMA WriteNewKeeps ==
    ASSUME MigrationInv, NEW t \in MigratedTasks, WriteNew(t) PROVE MigrationInv'
<1>. USE DEF MigrationInv, MigrationTypeOK, WriteNew, AutoCommit
<1>1. view = disk /\ view \in Database /\ view.form = "new" /\ ~ view.hasLegacy
  BY DEF Progress
<1>2. view.rows = latest /\ view.legacy = NoRows
  BY <1>1 DEF Sound
<1>3. latest' \in Rows
  BY MigrationAssumption DEF Rows
<1>4. view' = [view EXCEPT !.rows = latest']
  BY <1>1, <1>2 DEF Database
<1>5. /\ view' \in Database /\ disk' = view' /\ view'.form = "new" /\ ~ view'.hasLegacy
      /\ view'.legacy = NoRows /\ view'.rows = latest'
  BY <1>1, <1>2, <1>3, <1>4 DEF Database
<1>. QED
  BY <1>3, <1>5 DEF Sound, Progress, Releases, NoRows

\* After a death the connection sees what is on disk.
LEMMA DieKeeps == ASSUME MigrationInv, Die PROVE MigrationInv'
BY DEF MigrationInv, MigrationTypeOK, Die, Sound, Progress, Releases, NoRows

\* The inductive step, one case per statement.
LEMMA MigrationInvNext == MigrationInv /\ [MigrationNext]_migrationVars => MigrationInv'
<1>. SUFFICES ASSUME MigrationInv, [MigrationNext]_migrationVars PROVE MigrationInv'
  OBVIOUS
<1>1. CASE UNCHANGED migrationVars
  BY <1>1 DEF migrationVars, MigrationInv, MigrationTypeOK, Sound, Progress
<1>. QED
  BY <1>1, StartOldKeeps, WriteOldKeeps, StartNewKeeps, MoveOldRowsKeeps, CreateNewKeeps,
     CopyRowsKeeps, DropLegacyKeeps, WriteNewKeeps, DieKeeps DEF MigrationNext

-----------------------------------------------------------------------------
\* The strengthening that the promise rests on.
LEMMA MigrationInvCorrect == MigrationSpec => []MigrationInv
BY MigrationInvInit, MigrationInvNext, PTL DEF MigrationSpec

\* However often the migration is interrupted and the older release run again, a
\* server that is up has the last row of every task, once (_ensure_schema).
THEOREM MigrationCorrect == MigrationSpec => []MigrationKeepsRows
<1>1. MigrationInv => MigrationKeepsRows
  BY DEF MigrationInv, Progress, Sound, MigrationKeepsRows
<1>. QED
  BY <1>1, MigrationInvCorrect, PTL
=============================================================================
