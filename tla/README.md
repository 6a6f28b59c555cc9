# Formal model of the ModelArk MCP server

This directory holds a TLA+ development of `ark_mcp`, an MCP server that calls
billable media-generation APIs (ModelArk, Seed Speech, VOD MediaKit) on behalf
of local and authenticated remote callers.  The models are translated from the
source under `src/ark_mcp`; the source is the reference, the documents under
`docs/` are only quoted where they claim something.

What makes the server hard is not computation but bookkeeping around calls that
cost money and cannot be taken back: a budget reserved before a call and settled
after it, limits shared by concurrent callers, retries of calls that may have
been executed, client cancellation at any `await`, timeouts of batches, and
restarts in between.  The models are about that bookkeeping.

## 1. Inventory

| Part (source) | State | Operations | What is hard, what must hold |
|---|---|---|---|
| Daily budget ledger (`runtime.py` `BudgetLedger`) | table `budget_reservations` on disk, an open transaction, an `asyncio.Lock` | `reserve`, `commit`, `release`, `prune` | check and insert are two statements in a worker thread that cancellation cannot stop; commits and crashes.  The limit holds, answers are durable. |
| Limiters (`ProviderLimiters`) | a semaphore per provider, a TTL cache of semaphores per principal | `acquire`, cancellation, expiry | two semaphores held one while waiting for the other.  No permit lost, nobody locked out, tenants do not starve each other. |
| Billed slot and retries (`billed_provider_slot`, `providers/retry.py`) | the call's stage, its reservation | reserve, acquire, attempts, settle | ambiguous outcomes, retries, cancellation, crash.  What was executed is counted, once. |
| Task creation (`_seedance_shared.py`, `_seed3d_shared.py`) | provider task, ownership record | create, record | a task created and not recorded. |
| Task ownership (`SQLiteTaskOwnershipStore`) | table `task_ownership` | `record`, `claim`, `require_owner`, `list_task_ids`, `prune`, schema migration | first claim wins; retention; a migration that dies half way.  No row is lost, nobody uses another's. |
| Background jobs (`background_jobs.py`, `tools/background_jobs.py`, `security/tasks.py`) | queue (external), claims | submit, claim, execute, get, cancel | submit precedes the claim; redelivery must not run a handler twice, although claims are pruned. |
| Output persistence with single-flight (`TaskArtifactPersistenceLocks`, `SQLiteTaskArtifactCache`, VOD polls) | reference-counted locks, cache table | acquire, get, set, pop, prune | cancellation while waiting, cache loss, eviction.  One artifact per task. |
| Output persistence without it (`seedance_get_task`, audio separation, Seed3D) | cache table | poll | concurrent polls, partial failure, read-modify-write across an `await`. |
| Artifact stores (`artifacts/`) | data and metadata files, or objects | store, get, delete_expired | crash between two writes. |
| List, cancel and delete tools | none of their own | fetch, check, DELETE; list with a filter | the status checked is not the status deleted; an empty filter means "all" to the provider. |
| Generation and submit tools | none of their own | check, call, store, record | which errors are ambiguous, what a failing store does to a success that was paid for. |
| VOD polls (`tools/vod_get_*`, `providers/vod_mediakit/`) | none of their own | ask, parse, normalise, answer | three models in turn, written for four kinds of task: none may refuse what an earlier one let through. |
| Variation batches (`tools/_parallel.py`) | local semaphore, timeout | run batch | a timeout cancels a call in flight; exactly `count` results. |
| Object keys (`media_upload`, `media_presign*`) | table `object_key_ownership` | upload, record, presign, prune | upload without record; retention renewed by use. |
| State sweeper and lifespan | none | sweep every interval | beside everything else. |
| HTTP limits (`http_middleware.py`) | token buckets, byte counter | consume, evict; count, refuse | eviction at the limit, rounding, bodies without a declared length. |
| Safe downloader and URL policy | none | validate, resolve, connect, follow, read | a resolver that changes its mind, redirects, byte limits. |
| Speech recognition client (`asr.py`) | none | submit, query until a deadline | the deadline inside a retry loop. |
| Settings, tool registration, authentication (`config/env.py`, `server.py`, `security/`) | what was configured | validate, register, verify, authorise | three paths to a handler with checks written apart. |
| Media policy, model tables, request mapping, observability | static | | data without behaviour over time. |

**How they interact.**  A tool handler derives the caller's `AuthContext`,
enters `billed_provider_slot`, which calls the ledger and then the limiters, and
runs a gateway call under `call_with_retry`; what leaves the slot decides how
the reservation is settled; the handler then records the owner of the task it
created.  Polling handlers check ownership, ask the provider, and copy outputs
into the artifact store through the cache.  The sweeper prunes every table.  All
tables are in one SQLite file, each store with its own connection and lock; all
handlers are tasks of one event loop, database statements run in worker threads.
Any handler may be cancelled by its client, and a variation by its batch.

The hazards, each at its line, are listed in `PROJECT.json`, with the properties
that cover them.

## 2. What is modelled

| Module | Models | State |
|---|---|---|
| `Callers` | the calls and who makes them | constants only |
| `BudgetRows` | the table `budget_reservations`: `SELECT SUM`, the check, INSERT, UPDATE, DELETE as operators | constants only |
| `Budget` | the promise of the ledger: atomic `Reserve`, `Settle`, `Prune`, `NewDay` | `day`, `rows` |
| `BudgetLedger` | `BudgetLedger` statement by statement | the table as the connection sees it (`rows`) and as committed (`disk`), tasks (`pc`), worker threads (`thread`), the `asyncio.Lock` |
| `ProviderLimiters` | `ProviderLimiters.acquire` | permits and FIFO queues of each semaphore, the TTL cache |
| `BilledCall` | `billed_provider_slot` + `call_with_retry` + `execute_seedance_create` / `execute_seed3d_create` | everything of `ProviderLimiters`, the table, and per call its stage, attempts, verdict and ownership record |
| `Waiters` | the queue of waiters of an `asyncio` lock or semaphore, as `ProviderLimiters` and `PersistenceLocks` have them: `Without` takes a cancelled waiter out, `Lists` says whom a queue holds | operators only |
| `PersistenceLocks` | `TaskArtifactPersistenceLocks`: the registry of reference-counted lock entries | `entries`, `users`, and per entry its `asyncio.Lock` (`holder`, `waiters`) |
| `TaskArtifacts` | polling with `persist_output`: the lock, the cache, the artifact store and the sweeper | everything of `PersistenceLocks`, the clock, artifact files (`data`, `meta`), the table (`cache`), `entry.artifacts` (`memo`), and per poller its place and what it has read or copied |
| `OwnershipRows` | the table `task_ownership`: `claim`, `record`, `require_owner`, `list_task_ids`, `prune` as operators on a set of rows | constants only |
| `BackgroundJobs` | `ark_job_submit` / `get` / `cancel`, `TenantTasksExtension`, `guard_task_execution` | the ownership rows, the date, and per job its submission, what the backend says of it and its deliveries |
| `ProviderTasks` | `*_list_tasks` and `*_cancel_or_delete_task` beside the provider | ownership rows, each task's status, each request's place and attempts |
| `ObjectKeys` | `media_upload`, `media_presign`, `media_presign_batch`, `SQLiteObjectKeyOwnershipStore` | the bucket, the table, uploads, one presign batch |
| `VariationBatch` | `run_variation_batch`, `gather_with_timeout` and the variation handlers | the semaphore, the timeout, each variation's place and entry, the summary |
| `HttpLimits` | `RateLimitMiddleware`, `RequestBodyLimitMiddleware` | buckets, clock; one request's bytes and answer |
| `VodTasks` | one poll of a VOD task through DTO, task model, copy and output model | what came, what was made of it, what is answered |
| `ToolCalls` | one call of a generation or submit tool | its place, attempts, the reservation's fate, items of the response, what is returned |
| `Transcription` | `speech_to_text`'s submit and poll loop in `call_with_retry` | pause, time since the attempt's deadline was set and since the first submission |
| `ToolSurface` | `Settings.validate_model_bindings`, `register_tools`, `StrictJWTVerifier`, the paths to a handler | what is configured, one request |
| `SafeDownload` | `SafeDownloader.download` and `copy_from_trusted_url` around it | hop, location, checked addresses, what was read, how it ended |
| `SchemaMigration` | `_ensure_schema` of the ownership store and the artifact cache | both tables as committed and as the connection sees them, which release runs |
| `BudgetRowsProofs`, `BudgetLedgerProofs`, `ProviderLimitersProofs`, `BilledCallProofs`, `TaskArtifactsProofs` | theorems about the module of that name (`BudgetRowsProofs`: lemmas of the ledger and of the calls) | |
| `WaitersProofs` | lemmas about queues, for the limiters and the locks | |
| `OwnershipProofs` | theorems of the modules around the ownership store: `BackgroundJobs`, `ProviderTasks`, `ObjectKeys`, `SchemaMigration` | |
| `ServerProofs` | theorems of what stands between the server and its network (`HttpLimits`, `ToolSurface`, `SafeDownload`), of the tools' own work (`VariationBatch`, `VodTasks`, `ToolCalls`, `Transcription`), and of their composition `MCServer` | |
| `MC*` | instances for TLC | |

**`BudgetLedger`.**  `reserve()` reads the date (`CallReserve`), waits for the
lock and starts its closure in a thread (`StartThread`, the `async with` and
`to_thread` of `_run_locked`); the closure is `Select`, `Insert`, `Commit`;
`commit()` and `release()` are `CallSettle`, `StartThread`, `Update`, `Commit`;
`Resume` delivers the result.  `Cancel` is a cancellation that finds no closure
running.  `Abandon` is one that does: the task leaves `async with lock` at once,
the thread goes on.  `Crash` forgets tasks, threads and the open transaction.

**`ProviderLimiters`.**  `Enter`, `Lookup`, `TakeProvider`, `TakePrincipal` are
the awaits of `acquire()` in order, `Leave` its exit, `Withdraw` cancellation in
any of its waits, with what the `async with` statements unwind.  `Expire` is the
TTL (or size) eviction; semaphores are numbered by generation because holders of
a dropped one keep using it.  Semaphores are strictly FIFO, as asyncio's are.

**`BilledCall`** extends `ProviderLimiters` and takes `Budget`'s actions as the
ledger (the statement grain is `BudgetLedger`'s business).  An attempt is
answered by a member of `Answers`, which pairs what the gateway sees (success,
unreadable success, timeout, refused connection, transport error, 429, 5xx,
other 4xx) with whether the provider executed the request; `Retryable` and
`Ambiguous` are the normalizers' tables.  Cancellation is possible at every
await: in the slot (`CancelInSlot`, also for the timeout of
`gather_with_timeout`), waiting for a store's lock (`CancelWaiting`), or while a
store's thread runs (`AbandonReserve`, `AbandonSettle`, `AbandonRecord`).
`charges` and `lost` are history variables: attempts really executed, and
whether an executed attempt was reported to the slot as a plain failure (an
unreadable 2xx, or a transport error after the request was sent).

**`TaskArtifacts`** models a poll of a succeeded task, after the owner check and
the provider's answer, in the three forms the code has (constant `ProtocolOf`):

* `"flight"`: `_persist_output` of `vod_get_enhancement_task` and
  `persist_subtitle_output`.  `Begin` enters `acquire()` (`Ask`); `Share` answers
  with `entry.artifacts`; otherwise `Enter` takes the lock and the poll reads the
  cache (`ReadHit`, `ReadMiss`, or `ReadFails`, after which it goes on without),
  copies (`Copy`, `CopyFails`), remembers the artifact in the entry and caches it
  (`Write`, `WriteFails`).
* `"whole"`: Seedance, Seed3D and transcode polls.  No lock; a cache row answers
  for all outputs; `AfterCopy` goes to the next output and at the end caches
  either all of them or nothing.
* `"tracks"`: audio separation.  No lock; each track reads the row (`refs` keeps
  what it read across the copy), copies, and writes the row it read with its own
  track added.  `Advance` goes to the next track.

`Finish` is the end of a poll however it ends, with the `finally` of
`acquire()` (`Quit`).  `Cancel` may strike at every await; a cache statement
whose thread has started then ends on its own (`late`, `LateWrite`).
The registry's own lock is not modelled: its body never awaits, so a coroutine
neither waits for it nor is cancelled in it.  An artifact is a task, an output
and the time of its storing, and is two files; an artifact of the same output
stored by another poller in the same tick is the same one.  `Crash` may leave
one of the two files written or removed, and a row entered but not yet trimmed.
It is the death of the process, not a loss of power.

**`BackgroundJobs`.**  The queue is the task backend of FastMCP, outside
`src/ark_mcp`: it delivers a job (`Deliver`), again when it believes the worker
lost, up to `MaxDeliveries` times within `DeliveryDays`, and then forgets it
(`Forget`).  Submission is the three steps of the code, in its order: `Enqueue`,
`ClaimOwner`, `Accept`; `RefuseClaim` cancels the job (`ark_job_submit`) or only
answers an error (the protocol's own path).  In the worker `ClaimExecution` is
`guard_task_execution`: the first delivery of a required job claims it, later
ones are refused; an optional job is not guarded.  `CancelInBackend` may catch a
delivery whose claim is under way in a thread, and the claim is entered all the
same.  `JobsCrash` ends submissions and deliveries, `PruneOwnership` is the
sweeper's.

**`ProviderTasks`.**  Cancel and delete are one DELETE whose effect depends on
the task's status when it arrives.  `AskChange` (owner check), `FetchStatus`
(comparison with what the caller expects) and the DELETE are separate steps with
`Advance` of the provider between them; `DeleteUnanswered` executes it and loses
the answer, after which it is sent again or reported.  `AskList` narrows what is
asked for to what the caller owns and answers by itself when nothing is left.

**`ObjectKeys`.**  Upload is `PutObject`, `SignUpload`, `RecordKey` in this
order, with a failure, a cancellation or a crash at each of them (`UploadFails`).
A presign request goes through its keys: `RequireKeyOwner` validates the key and
renews the row it finds, `SignKey` signs.  A key's shape is what the two
validators tell apart.

**`VariationBatch`.**  All variations start at once; each waits for the batch's
semaphore inside its own timeout.  As all have the same timeout, `TimePasses`
makes it pass for all, and `TimeOut` ends a variation wherever it is.  What
`Persist` may end with is written per product, as each tool does it.

**`HttpLimits`.**  A token has `Minute` units and `Rpm` units come back per tick,
so that the code's floating-point rate is exact.  `Consume` is `_consume()` with
`_evict_expired()`; `ideal` is a history variable: the buckets as if none were
ever dropped.  The body limit counts one request's messages.

**`VodTasks`, `ToolCalls`, `Transcription`, `ToolSurface`.**  One poll, one call,
one transcription, one request: nothing another one does matters to what these
modules ask.  `VodTasks` enumerates every body up to what the models distinguish
and keeps the three layers of models as three layers of operators.  `ToolCalls`
keeps for each tool which errors its gateway normalises, which are ambiguous,
whether they are retried and what becomes of the reservation, and then the
handling of the response item by item; an item without a field and one with an
empty string are told apart, because the code tests `is None` in one place and
truth in another.  In `Transcription` every request takes up to `RequestTimeout`,
every pause what the loop sleeps, every retry up to `MaxBackoff`.  httpx bounds
the connecting, the sending and each piece of an answer, not their sum, so
`RequestTimeout` stands for an answer that comes in one piece.  `ToolSurface` enumerates settings, and
sends one request on each path (plain call, native task, `ark_job_submit` and
the worker) with each kind of token.

**`SafeDownload`.**  A hop is `ValidateHop` (any answer of the resolver),
`Connect` (to one of the checked addresses), and `Redirected`, `BodyEnds`,
`DeclaredTooLarge` or `ConnectionFails`; `Store` is what the artifact store does
with the bytes.  Errors are the code's, under its names.

**`SchemaMigration`.**  `sqlite3` opens a transaction at the first INSERT and not
before: `AutoCommit` statements are on disk at once, `InTransaction` ones are
not.  `MoveOldRows` (rename, or merge with the table an earlier attempt renamed),
`CreateNew`, `CopyRows`, `DropLegacy`; `Die` between any two of them; the older
release may be started again (`StartOld`) and write.

Remarks that reading these parts left, none of them a property:

* Hitting the poll deadline of a transcription is reported as not ambiguous, so
  the reservation is released although the provider has accepted the work.
* A Seedream image that is paid for is lost when the store fails: the call raises,
  and what was stored before it is not told to the caller; a task whose record
  fails likewise.  The charge stays (last clause of `AnswersAreExact`).
* Without `persist`, an image that came as data only is dropped without an error,
  as `AnswersAreExact` says; no document promises otherwise.
* Transcode and separation polls do not compare the task id of the answer with the
  one asked for, and raise when the artifact cache fails; the other two kinds do
  neither.
* `vod_enhance_video` may return a task id with a finished video without recording
  its owner.
* `get()` and `delete_expired()` of the filesystem store run on the event loop
  without an `await`: a read never meets a half-done sweep.
* A cancel whose task finishes in the meantime removes the task's record, for the
  DELETE is the same; `DeletesAreExpected` is about mode `delete` only.

Operators named in comments as mutants (`StartThreadUnlocked`, `CancelLeaking`,
...) are not used by any action.  Each is a plausible bug of the code; with it in
place of the definition it follows, TLC finds the property violated that
`PROJECT.json` names beside it, which shows that the property can fail.

## 3. What the runs show

| Run | Instance | Result |
|---|---|---|
| `Ledger` | 3 calls of one owner costing 2, 1 and 2 units, limit 2, 2 dates, retention 0 days; cancellation, abandonment, crash and pruning anywhere | all hold: `LimitWithoutAbandoned`, `AnswerIsDurable`, `ImplementsBudget`, `AnswersArrive` |
| `LedgerOverspend` | calls of two owners, one date | **violated**: `DailyLimitHolds` |
| `Limiters` | 4 callers (two of one principal, one of another, one local), two providers with 2 permits, 1 permit per principal, 2 generations | all hold: `PermitsConserved`, `NobodyDeadlocked`, `EveryCallerServed` |
| `BilledSafety` | 3 calls (two of a remote principal that do not fit its limit together, one local), 2 attempts, all answers | all hold: `ExecutedOnce`, `ExecutedWithinLimit`, `OwnedIsCommitted` |
| `BilledDays` | 2 calls, 2 dates, pruning, expiring semaphores, one permit | all hold: `ExecutedIsCounted`, `ImplementsBudget`, `CallsEnd` |
| `BilledRetry` | 2 calls | **violated**: `RetriesAreSafe` |
| `Flights` | 3 pollers, up to 6 polls of one enhancement task, row TTL 1, artifact TTL 3, 3 instants | all hold: `EntriesAreUsed`, `RememberedIsStored`, `OneFlight`, `FlightCopiesAreNeeded`, `PollsEnd` |
| `Polls` | 2 pollers, up to 3 polls of a Seedance task (2 outputs) and an audio separation task (2 tracks), one cache row, row TTL 1, artifact TTL 4, 5 instants | all hold: `CachedIsStored`, `LookedUpIsWhole` |
| `PollsAgain` | the same | **violated**: `CopiesAreNeeded` |
| `Server` | eleven components side by side, see below; about 210 000 states | all hold: `StartedOnce`, `JobsArePrivate`, `AcceptedIsOwned`, `JobsEnd`; `DeletesAreExpected`, `TasksArePrivate`; `UsedKeysStay`, `UrlsArePrivate`; `SummaryIsComplete`, `BatchEnds`; `EvictionIsInvisible`, `RetryAfterIsEnough`, `BodyIsBounded`; `VodStateIsReported`; `AnswersAreExact`; `WaitIsBounded`; `AuthorisedOnEveryPath`; `DownloadIsConfined`; `MigrationKeepsRows`; `ServerTypeOK` |
| `BatchTimeout` | one batch of 3 | **violated**: `TimeoutsAreAmbiguous` |
| `UploadKeys` | 2 keys | **violated**: `UploadedIsPresignable` |

`Server` puts components that share no state into one run (`MCServer`): each of
its behaviours moves one part, chosen in the initial state, and leaves the others
where they start.  Their product would show nothing more, because no action of
one reads a variable of another; the run is as large as the sum of the parts.
For the same reason one background job moves at a time: two jobs meet only in
rows of their own.  A part that does not move has nothing to be fair about, since
the actions of the fairness conditions are disabled where it starts.

**What the properties of `Server` are about.**

* Jobs.  A required job's handler starts at most once, however deliveries overlap,
  die, are cancelled, and although the claim that prevents it is pruned by age
  (`StartedOnce`); nobody is shown another's job, not even between the queue and
  the claim (`JobsArePrivate`); who was told "accepted" owns the job while it may
  be delivered (`AcceptedIsOwned`); a queued job comes to an end (`JobsEnd`).
* Provider tasks.  What a delete removes was in the status its caller expected,
  although that was read in an earlier request (`DeletesAreExpected`); a remote
  caller lists and changes its own tasks only, also when it owns none, which the
  provider would take for "no filter" (`TasksArePrivate`).
* Object keys.  A key in use is never lost to retention (`UsedKeysStay`), nobody
  gets a URL of another's upload, recorded or not (`UrlsArePrivate`).
* Batches.  Exactly `count` entries in order, and what is counted as produced was
  executed (`SummaryIsComplete`); a batch ends though the provider never answers
  (`BatchEnds`).
* HTTP.  Eviction of buckets is invisible to every client (`EvictionIsInvisible`),
  waiting as told is enough (`RetryAfterIsEnough`), the application never receives
  more than the limit and one answer is begun (`BodyIsBounded`).
* Polls and calls.  No later model refuses what an earlier one let through, and
  the answer says what the provider said (`VodStateIsReported`).  What an answered
  call hands out and reports is exactly what its handler can use: images in order
  and all of one kind, item errors for those without either field, a sound as an
  artifact if its data came and was asked for, a task with its owner; a finished
  video survives a failing copy, and whatever else becomes of a success, a store
  that raises or a cancellation, its charge stays (`AnswersAreExact`).
* A transcription, its requests and back-offs included, lasts no longer than its
  attempts and back-offs together, and no attempt polls longer than the limit, a
  pause and a query (`WaitIsBounded`).  The wait is counted from the first
  submission: the download of a source, the limiters and the budget come before.
* A handler runs only for who may use it, on each of the three paths
  (`AuthorisedOnEveryPath`); only checked addresses of trusted hosts are spoken to
  on every hop (`DownloadIsConfined`); an interrupted migration loses no row
  (`MigrationKeepsRows`).

**The violated claims** are disagreements between documents or comments and the
code:

* `DailyLimitHolds`.  `docs/runtime.md` says a reservation over the limit is
  rejected, and `_open_sqlite_connection` that at most one thread touches a
  connection at a time.  A task cancelled between its SELECT and its INSERT
  frees the lock while its thread goes on; the next reservation passes the check
  on the old sum, and both rows are entered.  The abandoned reservation never
  reaches the provider: the table overshoots, what is executed does not
  (`ExecutedWithinLimit`), and `LimitWithoutAbandoned` says the calls that go on
  are still checked correctly.
* `RetriesAreSafe`.  A transport error after the request was sent is normalized
  as retryable and not ambiguous for ModelArk (the MediaKit gateway treats it as
  ambiguous), so a mutation that was executed is sent again.
* `CopiesAreNeeded`.  Seedance's and the audio separation's polls promise not to
  download again what is cached.  They read the cache once and hold no lock until
  they write it: a poll that missed it copies although another one has cached
  the output meanwhile.  Enhancement and subtitle polls hold the task's lock
  entry over both (`FlightCopiesAreNeeded`); their only exceptions are a cache
  that failed to answer and a row written late for a cancelled poller.
* `TimeoutsAreAmbiguous`.  `docs/troubleshooting.md` says that a timeout is marked
  `ambiguous_completion=True`.  The timeout of a variation cancels a request in
  flight, which the provider may execute, and is reported with the field at its
  default, false.
* `UploadedIsPresignable`.  `media_presign` takes "object key returned by a prior
  media_upload call", but `media_upload` accepts prefixes (`a//b`, `/a`, `-a`)
  whose keys `validate_object_key` refuses.

Three more disagreements have no run of their own; the property that passes in
`Server` states what the code does instead:

* `config/env.py` calls `seed_speech_asr_poll_max_seconds` the "maximum total
  seconds to wait for ASR result", and `transcribe()` says that it blocks until the
  result is there or `poll_max` seconds elapse.  The loop looks at the deadline only
  before a pause, so the last pause and the query after it (up to the request
  timeout, by default as long as the limit itself) come on top; the submission
  before it is not counted, and each retry sets a new deadline after a back-off.
  `WaitIsBounded` has all of these in its bound.
* `item_errors` are described as the errors "for any failed items in a batch".
  `extract_item_errors()` reports an item whose fields are both `None`, the tools
  hand out those with a non-empty one: an empty string is in neither list.
  `AnswersAreExact` says that exactly the items without either field are reported.
* `seed_audio_generate` "returns a durable artifact reference that survives the
  2-hour provider URL expiry", but answers a response that has a URL and no data
  with that URL, `persist` or not.  `AnswersAreExact` says when it is an artifact.

Two things the code does that a reader may not expect are not findings, since no
document says otherwise.  `acquire()` takes the provider's permit first and keeps
it while it waits for the principal's, so the calls of one principal beyond its
limit occupy the provider; everybody is still served (`EveryCallerServed`).  And
`CancelledError` is no `Exception`: the reservation of a cancelled call stays
`reserved`, counted, until retention removes it.  That is the safe side:
`ExecutedIsCounted` holds because of it.

**Bounds.**  Two calls of one owner that do not fit together are the smallest
conflict of the budget; a third is the bystander whose COMMIT may carry another
closure's INSERT.  Costs 2, 1, 2 against a limit of 2 make every pair that
matters conflict.  Two dates with retention 0 make a row prunable while its call
is in flight.  Two generations of semaphores are the old and the new one.  Two
attempts are one retry, and a third repeats the same step.  `MaxDay`, `MaxGen`
and `MaxAttempts` are the only bounds on counters, and are in the guards of
`NewDay`, `Expire`/`Lookup` and `WillRetry` (the last is the code's own).

For the artifacts, three pollers are one that copies, one that waits and one
that comes when the entry may just have been dropped; six polls let each come
back.  Two lock entries are enough for one task: entries stay apart only as long
as a poller refers to them.  `MaxPolls` bounds the polls (in `Begin`), `MaxTime`
the clock (in `Tick`), `MaxLate` the cancelled statements under way (in
`Cancel`; one, since they only add delay).  In `Flights` the clock ends before an
artifact expires; what `RememberedIsStored` says of expired artifacts is covered
by its proof.  `Patience` is the longest a copy or a
statement takes (in `Tick`).  One cache row for two tasks makes every write an
eviction, ties of `created_at` included.  In `Polls` the row TTL and the
artifact TTL are the closest that `LifetimeAssumption` allows for two tracks, so
a row renewed as late as possible names its oldest artifact in its last instant.
The two pollers are interchangeable there (symmetry), and states that differ only
in data files without metadata, which no step and no property reads, are one
(view); the run has no liveness property.

`Server`: three jobs are one of each mode (required, optional, submitted over
stdio); two deliveries are one and its repetition; queue and claims both last one
day, the closest `ClaimsOutliveQueue` allows, and `MaxJobDay` 4 lets a claim be
made late, live and be pruned.  Two tasks of different owners, a remote and a
local request and two attempts give every order of DELETE, loss and progress.
Two keys, one of each shape, batches of up to two, retention 1 of 3 days.  Three
variations on two permits make one wait.  Two clients with one bucket allowed make
every second request an eviction; a burst of 2, 2 tokens a minute of 3 ticks and
7 instants fill and empty both buckets with remainders.  Bodies up to twice their
limit of 2.  Two images, three poll attempts, two tool attempts and two of a
transcription are each one retry more than none, and the polls' limit 5 with pauses
1, 2, 2, 2 is overrun by a part of a pause; a request or a back-off takes no time
or one unit.  Two redirects and two chunks have the
limits inside.  Two tasks with two writes each let the two releases write either
one.  `RequestedTools` has one tool of every group and task mode.  `MaxJobDay`,
`MaxKeyDay`, `MaxTick`, `MaxWrites` and `MaxImages` are bounds of the model, named
where they are declared; the others are the code's own limits made small.

`ClaimsOutliveQueue` is an assumption about the deployment: the backend must not
deliver a job later than its claims are kept.  Without it a redelivery after the
prune runs the handler again; nothing in the code compares the two retentions.

`LifetimeAssumption` is an assumption about the configuration: a track's row is
rewritten by the next track, together with references to older artifacts, so the
artifacts must outlive as many row lifetimes as there are tracks.  The defaults
(7 days and 1 day, at most 4 tracks) satisfy it; the settings are validated one
by one and nothing checks this relation.

**Deadlock checking** is off for the ledger, the billed calls, the polls and the
parts of `Server`, which all end; it is on for the limiters.

**Fairness.**  `BudgetLedger`: weak fairness of `StartThread`, `Resume` and each
closure.  The event loop runs every ready task and the executor every submitted
closure; a call takes the lock at most twice, so that a weakly fair lock is
enough although asyncio's is FIFO.  `ProviderLimiters`: weak fairness of each
caller's next step and of `Leave`, because every provider call ends (HTTP
timeouts are finite, attempts and delays bounded).  Because the queues are FIFO
weak fairness suffices; cancellation, expiry and crashes are never assumed.
`BilledCall`: weak fairness of each entered call's steps, which includes the
answer of an attempt for the same reason.  `TaskArtifacts`: weak fairness of
each poller's next step.  Waiters of an entry are served in order and the
download has a timeout.  Sweeps, cancellations, late statements and the clock
are not assumed to happen.  `BackgroundJobs`: weak fairness of `Forget` and of the
steps of each delivery, because the backend redelivers what a worker does not
finish and drops what is too old or delivered too often; no date change, crash or
request is assumed.  `VariationBatch`: weak fairness of `TimePasses`, `TimeOut` and
`Summarise`, which need the clock and the event loop only; no answer of the
provider is assumed.

## 4. What is proved

With TLAPS, for every set of calls and owners, every cost, limit, number of
permits, date bound and retention, from the named assumptions on constants.

| Theorem | Says | Argument |
|---|---|---|
| `BilledCallProofs!PromiseCorrect` | in `Budget`, the abstract budget that the calls and the ledger implement, live rows stay within the limit | the set of live calls of an owner and day grows only by a call that fits (`SpentEntered`), otherwise shrinks or changes status among live ones (`SpentMonotone`); sums are cardinalities of sets of cost units |
| `BudgetLedgerProofs!TypeCorrect` | `TypeOK` | one case per action |
| `BudgetLedgerProofs!AwaitedThreadCorrect` | `AwaitedThreadHoldsLock` | `LockInv`: a call that is not abandoned and has a thread holds the lock and awaits it, so two of them are one |
| `BudgetLedgerProofs!LimitCorrect` | `LimitWithoutAbandoned` | strengthened by `LockInv` and by what a closure past its SELECT knows: the units of the kept calls plus its own fit, and stay so because only an abandoned closure can write beside it |
| `BudgetLedgerProofs!AnswersCorrect` | `AnswerIsDurable` | `AnswerInv` follows each call's row from statement to statement: first in the open transaction, on disk once anybody's COMMIT has come, and afterwards as told unless it was pruned for age (`Kept`). A closure's own statement finds the row either as it left it or pruned; a crash falls back to a disk that has it already |
| `BudgetLedgerProofs!Refinement` | `ImplementsBudget` | until a closure is abandoned, closures run one at a time (`Serial`); then the two tables differ only by the statement of the closure that is about to commit (`TransactionInv`), and that statement is a step of `Budget` (`StepSimulation`) |
| `ProviderLimitersProofs!PermitsCorrect` | `PermitsConserved` | one more holder, one permit less (`OneMore`, `OneLess`); needs that a remote waiter has looked its semaphore up (`SemKnown`) |
| `ProviderLimitersProofs!ProviderWithinLimit` | a provider serves at most its limit at once | from the same invariant |
| `ProviderLimitersProofs!QueuesCorrect` | `QueuesAgree` | `QueueInv`: each queue is a sequence without repetition whose members are the calls suspended in that semaphore (`Lists`); joining appends a call that was in no queue, being served takes the head, cancellation takes a call out of any place (`WaitersProofs`: `AppendLists`, `TailLists`, `WithoutLists`) |
| `ProviderLimitersProofs!DeadlockCorrect` | `NobodyDeadlocked` | who waits with free permits before it finds a head of the queue that can take one (`QueueInv`); who waits without finds a holder (`PermitsConserved`); a holder of a provider's permit that waits for its principal's waits for a holder of both, which waits for nobody |
| `ProviderLimitersProofs!LimitersTypeCorrect` | the limiters' types | one case per action |
| `TaskArtifactsProofs!FlightCorrect` | `OneFlight` | strengthened by `RegistryInv`: a poller of a flight task refers to an entry, that entry is the one registered for its task, and a poller past `Enter` holds its lock; so two pollers of a task at work are holders of one lock |
| `TaskArtifactsProofs!EntriesCorrect` | `EntriesAreUsed` | `RegistryInv` has the counts; `Quit` takes the entry out exactly when the set of its users becomes empty (cardinalities of finite sets). `QueueInv` has the queues: an entry's queue lists its users that wait, and its holder is at work; as whoever works in a flight holds its entry's lock, the users are the holder and the queue |
| `TaskArtifactsProofs!RememberedCorrect` | `RememberedIsStored` | `MemoInv`: an entry remembers only stored artifacts, of the task it is registered for, and an entry that is not registered remembers nothing. No step makes the store forget what has not expired (`StepKeepsStore`), and a poller writes into an entry that it holds, registered for its own task |
| `TaskArtifactsProofs!PollsTypeCorrect` | the types of locks, store, cache and pollers | from `RegistryInv`, `QueueInv` and `ShelfInv`, which have most of them, and what is left (`RestInv`) |
| `TaskArtifactsProofs!CachedCorrect`, `WholeCorrect` | `CachedIsStored`, `LookedUpIsWhole` | `ShelfInv`: every row, the one in the table, those of cancelled pollers that are still to be written and those that pollers carry, names only artifacts whose two files are there or which have expired (`Stocked`), and none much older than the row (`RowIsYoung`: one `Renewal` for each further track it holds). With `LifetimeAssumption` a reference of a row that is not expired has not expired either |
| `TaskArtifactsProofs!FlightCopiesCorrect` | `FlightCopiesAreNeeded` | `FlightInv` beside `RegistryInv` and `ShelfInv`: whoever copies in a flight holds the lock of the one entry of its task, so nobody else fills the memory of that entry or the row of its task (`SameFlight`), except a statement that came late, which excuses the copy |
| `BilledCallProofs!CountedCorrect`, `OnceCorrect`, `OwnedCorrect` | `ExecutedIsCounted`, `ExecutedOnce`, `OwnedIsCommitted` | `CallInv`: for each phase of a call, what its row, its charges and its verdict may be: a call in the slot holds its reservation and has no charge unless an attempt was lost, an executed attempt that was not lost is never settled as a failure, a row that is gone was pruned for its age |
| `BilledCallProofs!Refinement` | `ImplementsBudget` | every step of a call settles or enters the row as a step of `Budget` does, or leaves the table alone; the guard of `Settle` needs `Held` from `CallInv` |
| `BilledCallProofs!ExecutedWithinLimitCorrect` | `ExecutedWithinLimit` | the calls that were executed and not lost are among the live rows (`ExecutedAreLive`), whose sum the refinement keeps within the limit |
| `BilledCallProofs!PermitsKept` | `PermitsConserved`, with the slot's calls, cancellations and crashes around it | every step moves the limiters as `acquire()` does, leaves them alone, or begins them anew (`LimiterSteps`) |
| `BilledCallProofs!WaitersKept` | `NobodyDeadlocked`, likewise | `QueueInv` is kept by the same three kinds of step |
| `BilledCallProofs!PermitsOnlyInSlotCorrect` | `PermitsOnlyInSlot` | `SlotInv`: a call is somewhere in the limiters exactly in the phases of the slot, and has both permits when it calls or backs off |
| `BilledCallProofs!CallsTypeCorrect` | the types of the composed calls | the limiters' types with those of each call |
| `OwnershipProofs!StartedOnceCorrect` | `StartedOnce` | `JobsInv`: no row is older than its job; a delivery that has claimed has its row, and is the only one of its job that got past the guard; a job's unclaimed deliveries arrive within the queue's days, which rows outlive (`ClaimsOutliveQueue`), so a prune never takes a claim that a later delivery would look for |
| `OwnershipProofs!PrivacyCorrect`, `AcceptedCorrect` | `JobsArePrivate`, `AcceptedIsOwned` | from the same invariant: rows of a job name its submitter, and `MayUse` without a row is for local principals |
| `OwnershipProofs!MigrationCorrect` | `MigrationKeepsRows` | `Sound`: for each form an interruption may leave the two tables in, where the last rows are; it holds of what is on disk at every moment. `Progress`: how far the connection has come, per place of the migration |
| `ServerProofs!DownloadCorrect` | `DownloadIsConfined` | `Confined`: past validation the location is well-formed and trusted and the checked addresses are public (`HopIsChecked`), hosts contacted and units read are within the hop and the limit |
| `OwnershipProofs!DeletesCorrect`, `TasksPrivacyCorrect` | `DeletesAreExpected`, `TasksArePrivate` | `TasksInv`: rows are never wrong, only missing; a request that goes on past its owner check is local or owns the task it names; a DELETE in mode `delete` is sent for a task that is still in the status its caller expected, or already gone. A task's status can move only while it is queued or running, which no caller may expect |
| `OwnershipProofs!UsedKeysCorrect`, `UrlsPrivacyCorrect` | `UsedKeysStay`, `UrlsArePrivate` | `KeysInv`: the row of a key carries the day of its last use, so a prune takes it only beyond the retention; a batch signs the key it has just checked, for its own caller |
| `ServerProofs!EvictionCorrect`, `RetryAfterCorrect` | `EvictionIsInvisible`, `RetryAfterIsEnough` | `RateInv` compares the table with one that has no limit: the buckets both have are equal, those that were dropped would be full. Who was refused is told by the bucket that the refusal left, and rounding up is enough (`CeilDivEnough`) |
| `ServerProofs!BodyCorrect` | `BodyIsBounded` | `BodyInv`: what was delivered is what was received until the limit is met, and an answer is begun only once |
| `ServerProofs!SurfaceCorrect` | `AuthorisedOnEveryPath` | `SurfaceInv`: valid settings stay; what was received has a verified token, what is queued or runs was offered to its caller on its path. The two paths to a background handler meet in the same facts |
| `ServerProofs!SummaryCorrect` | `SummaryIsComplete` | `BatchInv`: the entry of every variation is at its own index at all times, and says "produced" only after the provider executed it |
| `ServerProofs!BatchWithinLimit` | variations with the provider or storing are at most `MaxConcurrent` | permits left and variations inside add up to the limit (`LimiterAgrees`), a cancelled or timed-out batch included |
| `ServerProofs!VodCorrect` | `VodStateIsReported` | no task model refuses what its service's DTO lets through (`AcceptedIsValid`), by the tables of the four kinds; so each later step has a valid task to convert (`AnswerIsValid`) |
| `ServerProofs!ToolCorrect` | `AnswersAreExact` | `ToolInv`: of the images before the next one, exactly the useful ones were handed out, in order (`ImagesSoFar`); sounds, tasks and videos have one item (`OthersSoFar`); a success was charged before it is looked at, and no later step touches the charge (`ChargedSoFar`) |
| `ServerProofs!WaitCorrect` | `WaitIsBounded` | `AsrInv`: earlier attempts and the back-offs after them have used no more than their share (`AttemptShare`), the running one its submission and what its deadline has seen; a query in flight leaves room for `RequestTimeout` within `PollLimit` |
| `ServerProofs!PartsCorrect` | a behaviour of `MCServer` is a behaviour of each of its eleven components | every step moves one component and leaves the variables of the others alone |
| `ServerProofs!ServerTypeCorrect` | `ServerTypeOK` | the types of each component from its own invariant |
| `ServerProofs!ServerSafetyCorrect` | all safety invariants of `Server` together | `PartsCorrect` and the theorems of the components |

The steps of `TaskArtifacts` are first sorted by what they do to the registry
(`RegistryStep`: nothing, asking, entering, ending, dying), and the invariant is
proved for these kinds; those of `BackgroundJobs` likewise: most steps change neither
the date nor the day a job was born and only add sound rows (`Calm`, with `Quiet`
for those that claim nothing), and submission, pruning and the passing of a day
are treated apart.  The theorems hold for all protocols, tasks, pollers
(finitely many) and entries, with any cache and store.

Amounts are whole cost units, and the sum is the cardinality of a set of units,
so that no recursion is needed and TLC and the proofs use the same definition.

The assumptions on constants are those the modules name.  `DurationsAssumption`
and `OutputsAssumption` of `TaskArtifacts` say that durations, and the bounds
`MaxTime` and `MaxPolls`, are natural numbers and that a task has at least one output, which the settings' validation and the
callers of the cache guarantee.  `Without`, `deque.remove` for a cancelled waiter, is
written by the position of the waiter and not as a filter of the sequence: nothing
follows from a filter without induction.  For the same reason `Lists` speaks of the
positions of a queue, and `ImagesSoFar` of those of the images.

Only model-checked: the liveness properties (`AnswersArrive`, `EveryCallerServed`,
`CallsEnd`, `PollsEnd`, `JobsEnd`, `BatchEnds`), because fairness and `ENABLED` are
beyond the prover.  What two of them need from safety is proved: that somebody can
always go on in the limiters (`NobodyDeadlocked`), and that a lock's queue holds all
who wait for it and its holder is one of the entry's users (`EntriesAreUsed`).
Every invariant and every action property of a passing run is stated by a theorem.

Proved, and not repeated by a run: `AwaitedThreadHoldsLock`, `QueuesAgree`,
`PermitsOnlyInSlot`, `ProviderWithinLimit`, `BatchWithinLimit`, and the types of all
modules that have a theorem (those of the components of `Server` are also checked,
as `ServerTypeOK`).

## 5. What is not modelled

SQLite's own failures (`SQLITE_BUSY` from another store's connection, a full
disk), saturation of the thread pool (a closure cancelled before its thread
starts is a `Cancel`), floating-point rounding of amounts and of token buckets,
the length of retry delays (but for the bound that `Transcription` needs), request contents, metrics, prices and logs.

Of the artifacts: the object-storage store and its registry, the data files that
a crash leaves without metadata (they are in `data`, and nothing ever sweeps
them, in the code as in the model), and the age of `entry.artifacts`, which
pollers that keep an entry alive share without looking at an expiry: hence the
last words of `RememberedIsStored`, "until it expires".

Of the server: the readiness route, MCP resources and prompts, the order of the
middlewares and of the sweeps, and the shutdown.  Of authentication: the JWT
library, a token's claims beyond subject, tenant, times and the scope asked for;
that JWT needs the HTTP transport is assumed in `ToolSurface`, not checked by
the code.  A worker asks for no scope again, so a token revoked while its job
waits is not noticed, in the code as in the model.

Of the gateways: building requests, validating parameters against the tables of
model capabilities, which addresses are private, how media sizes and durations
are computed.  These are functions of static data without state; a model of them
would repeat the tables.  A download's error body above the limit is reported as
too large, as the code does, without telling which status it came with.

## 6. Plan

1. The object-storage artifact store, composed with `TaskArtifacts`; an abstract
   "a poll is answered with an artifact that exists" for the flight to implement.
2. Shutdown: the order in which sweeper, worker and stores are closed, beside
   calls in flight.
3. The arithmetic of the media policy (Base64 sizes, WAV durations) and of the
   retry delay as operators with their reference definitions.

Runs are few and each asks its own question: new components are composed into a
shared instance where they interact, and join `Server` where they do not.
