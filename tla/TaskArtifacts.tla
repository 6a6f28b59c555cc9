---------------------------- MODULE TaskArtifacts ----------------------------
(***************************************************************************)
(* Polling a succeeded provider task with persist_output: the pollers copy *)
(* its outputs to the artifact store and cache the references by task, so  *)
(* that later polls need not copy again.  Three protocols are in the code: *)
(*                                                                         *)
(*   "flight"  enhancement and subtitle tasks: one output, under the       *)
(*             task's lock entry, which also shares a fresh artifact;      *)
(*   "whole"   Seedance, Seed3D and transcode tasks: no lock, the outputs  *)
(*             are cached together once all are copied;                    *)
(*   "tracks"  audio separation: no lock, cached after each track.         *)
(*                                                                         *)
(* Any poller may be cancelled at any await, any copy or cache statement   *)
(* may fail, and the process may die between any two steps.  Artifacts are *)
(* two files each and expire; cached rows expire and are evicted; a        *)
(* sweeper deletes both kinds.  The owner check and the provider's answer  *)
(* come before and change nothing here.                                    *)
(***************************************************************************)
EXTENDS PersistenceLocks

CONSTANTS
    ProtocolOf,    \* the protocol of each task
    OutputsOf,     \* the outputs of each task, in the order they are copied
    CacheTTL,      \* PERSISTENCE_CACHE_TTL_SECONDS
    CacheSize,     \* PERSISTENCE_CACHE_MAX_SIZE
    ArtifactTTL,   \* ARTIFACT_TTL_SECONDS
    Patience,      \* the longest that a copy or a cache statement takes
    MaxTime,       \* bound: the clock
    MaxLate,       \* bound: cancelled cache statements under way
    MaxPolls       \* bound: polls

ASSUME ProtocolAssumption == ProtocolOf \in [Tasks -> {"flight", "whole", "tracks"}]
ASSUME FlightAssumption ==
    \A t \in Tasks : ProtocolOf[t] = "flight" => Len(OutputsOf[t]) = 1
\* 7 days against 1 day, for at most 4 tracks: the rest of a track's life is
\* longer than the row that names it can be kept alive.
ASSUME LifetimeAssumption ==
    \A t \in Tasks : ArtifactTTL > Len(OutputsOf[t]) * CacheTTL + (Len(OutputsOf[t]) - 1) * Patience

\* Settings are whole seconds, bounds whole numbers.
ASSUME DurationsAssumption == {CacheTTL, ArtifactTTL, Patience, MaxTime, MaxPolls} \subseteq Nat
\* A succeeded task has an output.
ASSUME OutputsAssumption ==
    \A t \in Tasks : /\ OutputsOf[t] \in Seq({OutputsOf[t][i] : i \in 1 .. Len(OutputsOf[t])})
                     /\ OutputsOf[t] # <<>>

VARIABLES
    now,       \* the clock
    data,      \* artifact files
    meta,      \* their .meta.json files
    cache,     \* the task_artifacts table
    memo,      \* entry.artifacts
    at,        \* where each poller is
    task,      \* the task it polls
    todo,      \* its outputs still to be looked at
    refs,      \* the references it has
    since,     \* when it began to copy; then the created_at of its row
    late,      \* cache statements whose poller was cancelled
    excused,   \* history: a poller could not see what is cached now
    polls      \* how many polls have begun

storeVars == <<data, meta, cache>>
pollVars == <<at, task, todo, refs, since, excused>>
vars == <<lockVars, now, storeVars, memo, pollVars, late, polls>>

-----------------------------------------------------------------------------
Outputs == UNION {{OutputsOf[t][i] : i \in 1 .. Len(OutputsOf[t])} : t \in Tasks}
OutputSet(t) == {OutputsOf[t][i] : i \in 1 .. Len(OutputsOf[t])}
Times == 0 .. MaxTime

\* A reference is the time its artifact was stored: artifacts of one output
\* stored at one time are one.
None == -1
Refs == [Outputs -> Times \cup {None}]
NoRefs == [o \in Outputs |-> None]
Row == [refs : Refs, created : Times \cup {None}]
NoRow == [refs |-> NoRefs, created |-> None]
Artifacts == Tasks \X Outputs \X Times

InFlight(p) == ProtocolOf[task[p]] = "flight"
Working == {"read", "copy", "write"}

TypeOK ==
    /\ LocksTypeOK
    /\ now \in Times
    /\ data \subseteq Artifacts /\ meta \subseteq Artifacts
    /\ cache \in [Tasks -> Row]
    /\ memo \in [Entries -> Times \cup {None}]
    /\ at \in [Pollers -> {"idle", "queued"} \cup Working]
    /\ task \in [Pollers -> Tasks \cup {Nobody}]
    /\ \A p \in Pollers : todo[p] \in Seq(Outputs)
    /\ refs \in [Pollers -> Refs]
    /\ since \in [Pollers -> Times]
    /\ late \subseteq [task : Tasks, row : Row]
    /\ excused \in [Pollers -> BOOLEAN]
    /\ polls \in 0 .. MaxPolls

Init ==
    /\ LocksInit
    /\ now = 0
    /\ data = {} /\ meta = {}
    /\ cache = [t \in Tasks |-> NoRow]
    /\ memo = [e \in Entries |-> None]
    /\ at = [p \in Pollers |-> "idle"]
    /\ task = [p \in Pollers |-> Nobody]
    /\ todo = [p \in Pollers |-> <<>>]
    /\ refs = [p \in Pollers |-> NoRefs]
    /\ since = [p \in Pollers |-> 0]
    /\ late = {}
    /\ excused = [p \in Pollers |-> FALSE]
    /\ polls = 0

-----------------------------------------------------------------------------
(* The table and the artifact store.                                       *)

\* get(): a row too old is no row.
Live(row) == row.created # None /\ now - row.created <= CacheTTL

\* Mutant: the age of the row is not looked at.
CachedForever(t) == cache[t].refs
Cached(t) == IF Live(cache[t]) THEN cache[t].refs ELSE NoRefs

Rows(c) == {t \in Tasks : c[t].created # None}

\* set(): the row is entered, then the oldest rows beyond the size go.
Entered(c, t, row) == [c EXCEPT ![t] = row]
Evictions(c) ==
    {K \in SUBSET Rows(c) : /\ Cardinality(K) = IF Cardinality(Rows(c)) < CacheSize
                                                THEN Cardinality(Rows(c)) ELSE CacheSize
                            /\ \A t \in K, u \in Rows(c) \ K : c[t].created >= c[u].created}
SetRow(t, row) ==
    \E K \in Evictions(Entered(cache, t, row)) :
       cache' = [u \in Tasks |-> IF u \in K THEN Entered(cache, t, row)[u] ELSE NoRow]

Expired(a) == a[3] + ArtifactTTL <= now

\* _store_bytes writes the data file, then the metadata file.
Stored(a) == data' = data \cup {a} /\ meta' = meta \cup {a}

\* Mutant: the metadata file first.
MetaStored(a) == meta' = meta \cup {a} /\ data' = data
HalfStored(a) == data' = data \cup {a} /\ meta' = meta

\* delete_expired: what metadata files name, orphaned data files stay.
Dead == {a \in meta : Expired(a)}

-----------------------------------------------------------------------------
(* Polling.                                                                *)

\* The poll ends, m being what the entry, if it has one, remembers.
Finish(p, m) ==
    /\ at' = [at EXCEPT ![p] = "idle"]
    /\ task' = [task EXCEPT ![p] = Nobody]
    /\ todo' = [todo EXCEPT ![p] = <<>>]
    /\ refs' = [refs EXCEPT ![p] = NoRefs]
    /\ since' = [since EXCEPT ![p] = 0]
    /\ excused' = [excused EXCEPT ![p] = FALSE]
    /\ IF mine[p] = Nobody THEN UNCHANGED <<lockVars, memo>>
       ELSE /\ Quit(p, task[p])
            /\ memo' = [memo EXCEPT ![mine[p]] = IF users[mine[p]] = 1 THEN None ELSE m]

End(p) == Finish(p, IF mine[p] = Nobody THEN None ELSE memo[mine[p]])

\* The next track, if there is one.
Advance(p) ==
    IF Len(todo[p]) = 1 THEN End(p)
    ELSE /\ at' = [at EXCEPT ![p] = "read"]
         /\ todo' = [todo EXCEPT ![p] = Tail(@)]
         /\ refs' = [refs EXCEPT ![p] = NoRefs]
         /\ since' = [since EXCEPT ![p] = 0]
         /\ excused' = [excused EXCEPT ![p] = FALSE]
         /\ UNCHANGED <<lockVars, memo, task>>

Begin(p, t) ==
    /\ at[p] = "idle" /\ polls < MaxPolls
    /\ polls' = polls + 1
    /\ task' = [task EXCEPT ![p] = t]
    /\ todo' = [todo EXCEPT ![p] = OutputsOf[t]]
    /\ IF ProtocolOf[t] = "flight"
       THEN Ask(p, t) /\ at' = [at EXCEPT ![p] = "queued"]
       ELSE UNCHANGED lockVars /\ at' = [at EXCEPT ![p] = "read"]
    /\ UNCHANGED <<now, storeVars, memo, refs, since, late, excused>>

\* The lock is free for p: it shares what the entry remembers, or looks itself.
Share(p) ==
    /\ at[p] = "queued" /\ CanTake(p)
    /\ memo[mine[p]] # None
    /\ End(p)
    /\ UNCHANGED <<now, storeVars, late, polls>>

\* Mutant: the entry's artifact is not looked at.
EnterBlindly(p) ==
    /\ at[p] = "queued"
    /\ Take(p)
    /\ at' = [at EXCEPT ![p] = "read"]
    /\ UNCHANGED <<now, storeVars, memo, task, todo, refs, since, late, excused, polls>>

Enter(p) ==
    /\ at[p] = "queued"
    /\ memo[mine[p]] = None
    /\ Take(p)
    /\ at' = [at EXCEPT ![p] = "read"]
    /\ UNCHANGED <<now, storeVars, memo, task, todo, refs, since, late, excused, polls>>

Wanted(p) == Head(todo[p])

\* What makes a poller answer from the cache: its output, or any row.
Hit(p) == IF ProtocolOf[task[p]] = "whole" THEN Live(cache[task[p]])
          ELSE Cached(task[p])[Wanted(p)] # None

ReadHit(p) ==
    /\ at[p] = "read" /\ Hit(p)
    /\ \/ InFlight(p) /\ Finish(p, Cached(task[p])[Wanted(p)])
       \/ ProtocolOf[task[p]] = "whole" /\ End(p)
       \/ ProtocolOf[task[p]] = "tracks" /\ Advance(p)
    /\ UNCHANGED <<now, storeVars, late, polls>>

StartCopy(p, known, unseen) ==
    /\ at' = [at EXCEPT ![p] = "copy"]
    /\ since' = [since EXCEPT ![p] = now]
    /\ refs' = [refs EXCEPT ![p] = known]
    /\ excused' = [excused EXCEPT ![p] = unseen]
    /\ UNCHANGED <<lockVars, memo, task, todo>>

ReadMiss(p) ==
    /\ at[p] = "read" /\ ~Hit(p)
    /\ StartCopy(p, IF ProtocolOf[task[p]] = "tracks" THEN Cached(task[p]) ELSE NoRefs, FALSE)
    /\ UNCHANGED <<now, storeVars, late, polls>>

\* Only the flight goes on without the cache.
ReadFails(p) ==
    /\ at[p] = "read"
    /\ IF InFlight(p) THEN StartCopy(p, NoRefs, TRUE) ELSE End(p)
    /\ UNCHANGED <<now, storeVars, late, polls>>

\* Whether the outputs copied, with r, are all that the task has.
Complete(p, r) == \A o \in OutputSet(task[p]) : r[o] # None

\* The copies are over: cache them, or copy the rest ("whole").
AfterCopy(p, r) ==
    IF ProtocolOf[task[p]] = "whole" /\ Len(todo[p]) > 1
    THEN /\ todo' = [todo EXCEPT ![p] = Tail(@)]
         /\ refs' = [refs EXCEPT ![p] = r]
         /\ UNCHANGED <<lockVars, memo, at, task, since, excused>>
    ELSE IF ProtocolOf[task[p]] = "whole" /\ ~Complete(p, r) THEN End(p)
    ELSE /\ at' = [at EXCEPT ![p] = "write"]
         /\ refs' = [refs EXCEPT ![p] = r]
         /\ since' = [since EXCEPT ![p] = now]
         /\ memo' = IF InFlight(p) THEN [memo EXCEPT ![mine[p]] = now] ELSE memo
         /\ UNCHANGED <<lockVars, task, todo, excused>>

Copy(p) ==
    /\ at[p] = "copy"
    /\ Stored(<<task[p], Wanted(p), now>>)
    /\ AfterCopy(p, [refs[p] EXCEPT ![Wanted(p)] = now])
    /\ UNCHANGED <<now, cache, late, polls>>

\* Mutant: a flight does not notice that the second file failed.
CopyFailsUnnoticed(p) ==
    /\ at[p] = "copy"
    /\ HalfStored(<<task[p], Wanted(p), now>>)
    /\ AfterCopy(p, [refs[p] EXCEPT ![Wanted(p)] = now])
    /\ UNCHANGED <<now, meta, cache, late, polls>>

\* The download fails, or the second of the two files.
CopyFails(p) ==
    /\ at[p] = "copy"
    /\ (data' = data \/ HalfStored(<<task[p], Wanted(p), now>>))
    /\ \/ InFlight(p) /\ End(p)
       \/ ProtocolOf[task[p]] = "whole" /\ AfterCopy(p, refs[p])
       \/ ProtocolOf[task[p]] = "tracks" /\ Advance(p)
    /\ UNCHANGED <<now, meta, cache, late, polls>>

RowOf(p) == [refs |-> refs[p], created |-> since[p]]

Write(p) ==
    /\ at[p] = "write"
    /\ SetRow(task[p], RowOf(p))
    /\ IF ProtocolOf[task[p]] = "tracks" THEN Advance(p) ELSE End(p)
    /\ UNCHANGED <<now, data, meta, late, polls>>

\* Only the flight still answers with its artifact; nothing is cached.
WriteFails(p) ==
    /\ at[p] = "write"
    /\ End(p)
    /\ UNCHANGED <<now, storeVars, late, polls>>

-----------------------------------------------------------------------------
(* Cancellation, crashes, time and the sweeper.                            *)

\* A cache statement whose thread has started outlives its poller.
Cancel(p) ==
    /\ at[p] # "idle"
    /\ End(p)
    /\ \/ UNCHANGED late
       \/ /\ at[p] = "write" /\ Cardinality(late) < MaxLate
          /\ late' = late \cup {[task |-> task[p], row |-> RowOf(p)]}
    /\ UNCHANGED <<now, storeVars, polls>>

LateWrite(w) ==
    /\ w \in late
    /\ SetRow(w.task, w.row)
    /\ late' = late \ {w}
    /\ excused' = [p \in Pollers |-> excused[p] \/ (at[p] = "copy" /\ task[p] = w.task)]
    /\ UNCHANGED <<now, data, meta, memo, lockVars, at, task, todo, refs, since, polls>>

\* The process dies between two steps, between the two files of an artifact
\* written or swept, or between a row's entry and the evictions.
Crash ==
    /\ \/ UNCHANGED storeVars
       \/ \E p \in Pollers : /\ at[p] = "copy"
                             /\ HalfStored(<<task[p], Wanted(p), now>>)
                             /\ UNCHANGED cache
       \/ \E a \in Dead : data' = data \ {a} /\ UNCHANGED <<meta, cache>>
       \/ \E p \in Pollers : /\ at[p] = "write"
                             /\ cache' = Entered(cache, task[p], RowOf(p))
                             /\ UNCHANGED <<data, meta>>
    /\ entries' = [t \in Tasks |-> Nobody]
    /\ mine' = [p \in Pollers |-> Nobody]
    /\ holder' = [e \in Entries |-> Nobody]
    /\ waiters' = [e \in Entries |-> <<>>]
    /\ users' = [e \in Entries |-> 0]
    /\ memo' = [e \in Entries |-> None]
    /\ at' = [p \in Pollers |-> "idle"]
    /\ task' = [p \in Pollers |-> Nobody]
    /\ todo' = [p \in Pollers |-> <<>>]
    /\ refs' = [p \in Pollers |-> NoRefs]
    /\ since' = [p \in Pollers |-> 0]
    /\ excused' = [p \in Pollers |-> FALSE]
    /\ late' = {}
    /\ UNCHANGED <<now, polls>>

\* Copies and statements take no longer than Patience.
Tick ==
    /\ now < MaxTime
    /\ \A p \in Pollers : at[p] \in {"copy", "write"} => now - since[p] < Patience
    /\ \A w \in late : now - w.row.created < Patience
    /\ now' = now + 1
    /\ UNCHANGED <<lockVars, storeVars, memo, pollVars, late, polls>>

SweepArtifacts ==
    /\ Dead # {}
    /\ data' = data \ Dead
    /\ meta' = meta \ Dead
    /\ UNCHANGED <<lockVars, now, cache, memo, pollVars, late, polls>>

PruneCache ==
    /\ cache' = [t \in Tasks |-> IF Live(cache[t]) THEN cache[t] ELSE NoRow]
    /\ UNCHANGED <<lockVars, now, data, meta, memo, pollVars, late, polls>>

Step(p) ==
    \/ Share(p) \/ Enter(p)
    \/ ReadHit(p) \/ ReadMiss(p) \/ ReadFails(p)
    \/ Copy(p) \/ CopyFails(p)
    \/ Write(p) \/ WriteFails(p)

Next ==
    \/ \E p \in Pollers : Step(p) \/ Cancel(p) \/ \E t \in Tasks : Begin(p, t)
    \/ \E w \in late : LateWrite(w)
    \/ Crash \/ Tick \/ SweepArtifacts \/ PruneCache

\* Ready coroutines run, downloads end or time out, statements end.
Fairness == \A p \in Pollers : WF_vars(Step(p))

Spec == Init /\ [][Next]_vars /\ Fairness

-----------------------------------------------------------------------------
(* Properties.                                                             *)

\* One poller at a time is inside persist_output of a flight task, whatever
\* entries were made, dropped and made again for it.
OneFlight ==
    \A p, q \in Pollers :
        p # q /\ at[p] \in Working /\ at[q] \in Working /\ task[p] = task[q] => ~InFlight(p)

\* What an entry tells the pollers that share it is in the artifact store, both
\* files of it, and is an artifact of their own task, until it expires:
\* whoever copied it failed, was cancelled or found it in the cache, and
\* whatever tasks the entry's identity has served before.
RememberedIsStored ==
    \A p \in Pollers :
        mine[p] # Nobody /\ memo[mine[p]] # None =>
            LET a == <<task[p], Head(OutputsOf[task[p]]), memo[mine[p]]>>
            IN a \in data \cap meta \/ Expired(a)

\* A flight copies only what nobody has: no artifact that its entry
\* remembers, nor one that the cache would still show, unless the cache
\* failed to answer or a cancelled poller's row came late.
FlightCopiesAreNeeded ==
    \A p \in Pollers :
        at[p] = "copy" /\ InFlight(p) =>
            /\ memo[mine[p]] = None
            /\ Cached(task[p])[Wanted(p)] # None => excused[p]

\* What the cache hands out is still in the artifact store, both files of
\* it: rows die before the artifacts they name, rows that are renewed with
\* the artifacts of an older row included.
CachedIsStored ==
    \A t \in Tasks : Live(cache[t]) =>
        \A o \in OutputSet(t) :
            cache[t].refs[o] # None => <<t, o, cache[t].refs[o]>> \in data \cap meta

\* An artifact that can be looked up and has not expired is whole, whenever
\* the process died.
LookedUpIsWhole == \A a \in meta : ~Expired(a) => a \in data

\* Every poll ends: no lock is left behind.
PollsEnd == \A p \in Pollers : at[p] # "idle" ~> at[p] = "idle"

\* Claimed by seedance_get_task.py and vod_get_audio_separation.py: repeated
\* polls do not copy again what is cached.
CopiesAreNeeded ==
    \A p \in Pollers :
        at[p] = "copy" => (Cached(task[p])[Wanted(p)] # None => excused[p])
=============================================================================
