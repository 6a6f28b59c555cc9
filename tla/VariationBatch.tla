--------------------------- MODULE VariationBatch ---------------------------
(***************************************************************************)
(* run_variation_batch() of tools/_parallel.py with the per-variation      *)
(* handlers of the *_variations tools.                                     *)
(*                                                                         *)
(* All variations are started at once, each under asyncio.wait_for with    *)
(* one timeout that also counts the wait for the batch's semaphore.  What  *)
(* a variation ends with is an entry of the summary.  The provider may     *)
(* execute a request whose variation has timed out.  The slot, the budget  *)
(* and the retries of a variation are BilledCall's.                        *)
(***************************************************************************)
EXTENDS Naturals, FiniteSets, Sequences

CONSTANTS
    Count,           \* variations of the batch
    MaxConcurrent    \* DEFAULT_MAX_CONCURRENT

ASSUME BatchAssumption == Count \in Nat \ {0} /\ MaxConcurrent \in Nat \ {0}

VARIABLES
    product,    \* what the batch makes: tasks (Seedance), images (Seedream) or sounds
    batchAt,    \* "idle", "running", "over" (summary returned) or "cancelled"
    limiter,    \* permits left in the batch's semaphore
    place,      \* where each variation is
    entry,      \* what each variation ended with
    timeUp,     \* the timeout, the same for all, has passed
    executed,   \* variations whose request the provider executed (history)
    summary     \* the answer

batchVars == <<product, batchAt, limiter, place, entry, timeUp, executed, summary>>

-----------------------------------------------------------------------------
Products == {"task", "image", "audio"}
Indexes == 0 .. Count - 1
VariationPlaces == {"waiting", "calling", "persisting", "over"}
Holding == {"calling", "persisting"}
FailureCodes == {"TIMEOUT", "UNEXPECTED_ERROR", "PROVIDER_ERROR"}

\* VariationResult: produced says that it carries an artifact or a task id.
Produced(i) == [index |-> i, produced |-> TRUE, code |-> "", ambiguous |-> FALSE]
Nothing(i) == [index |-> i, produced |-> FALSE, code |-> "", ambiguous |-> FALSE]
Failure(i, code, ambiguous) == [index |-> i, produced |-> FALSE, code |-> code, ambiguous |-> ambiguous]
Entries == [index : Indexes, produced : BOOLEAN, code : FailureCodes \cup {""}, ambiguous : BOOLEAN]

BatchTypeOK ==
    /\ product \in Products
    /\ batchAt \in {"idle", "running", "over", "cancelled"}
    /\ limiter \in 0 .. MaxConcurrent
    /\ place \in [Indexes -> VariationPlaces]
    /\ entry \in [Indexes -> Entries]
    /\ timeUp \in BOOLEAN
    /\ executed \subseteq Indexes
    /\ summary.total \in {0, Count} /\ summary.succeeded \in 0 .. Count
    /\ summary.variations \in Seq(Entries)

BatchInit ==
    /\ product = "task"
    /\ batchAt = "idle"
    /\ limiter = MaxConcurrent
    /\ place = [i \in Indexes |-> "waiting"]
    /\ entry = [i \in Indexes |-> Nothing(i)]
    /\ timeUp = FALSE
    /\ executed = {}
    /\ summary = [total |-> 0, succeeded |-> 0, variations |-> <<>>]

-----------------------------------------------------------------------------
\* A *_variations tool is called: asyncio.gather over all variations.
StartBatch(p) ==
    /\ batchAt = "idle"
    /\ batchAt' = "running"
    /\ product' = p
    /\ UNCHANGED <<limiter, place, entry, timeUp, executed, summary>>

\* async with limiter
BeginVariation(i) ==
    /\ batchAt = "running" /\ place[i] = "waiting"
    /\ limiter > 0
    /\ limiter' = limiter - 1
    /\ place' = [place EXCEPT ![i] = "calling"]
    /\ UNCHANGED <<product, batchAt, entry, timeUp, executed, summary>>

\* The variation ends with an entry and frees its permit, if it has one.
EndWith(i, e) ==
    /\ place' = [place EXCEPT ![i] = "over"]
    /\ entry' = [entry EXCEPT ![i] = e]
    /\ limiter' = IF place[i] \in Holding THEN limiter + 1 ELSE limiter

\* call_with_retry returns: the request was executed.
VariationSucceeds(i) ==
    /\ batchAt = "running" /\ place[i] = "calling"
    /\ place' = [place EXCEPT ![i] = "persisting"]
    /\ executed' = executed \cup {i}
    /\ UNCHANGED <<product, batchAt, limiter, entry, timeUp, summary>>

\* A ProviderError: an ambiguous one may hide an executed request, others are
\* refusals.
VariationFails(i) ==
    /\ batchAt = "running" /\ place[i] = "calling"
    /\ \E ambiguous \in BOOLEAN :
          /\ EndWith(i, Failure(i, "PROVIDER_ERROR", ambiguous))
          /\ executed' \in IF ambiguous THEN {executed, executed \cup {i}} ELSE {executed}
    /\ UNCHANGED <<product, batchAt, timeUp, summary>>

\* What the handler does with a response: a task is recorded and its id
\* returned; an image or a sound is stored, or its URL is returned, or the
\* response has neither.  Storing and recording may raise.
TaskEntries(i) == {Produced(i), Failure(i, "UNEXPECTED_ERROR", FALSE)}
ImageEntries(i) == {Produced(i), Nothing(i), Failure(i, "UNEXPECTED_ERROR", FALSE)}
AudioEntries(i) == {Produced(i), Nothing(i), Failure(i, "UNEXPECTED_ERROR", FALSE)}
Persist(i) ==
    /\ batchAt = "running" /\ place[i] = "persisting"
    /\ \E e \in (IF product = "task" THEN TaskEntries(i)
                 ELSE IF product = "image" THEN ImageEntries(i) ELSE AudioEntries(i)) : EndWith(i, e)
    /\ UNCHANGED <<product, batchAt, timeUp, executed, summary>>

\* asyncio.wait_for: when the time is up a variation is cancelled wherever it
\* is; a request that was sent may be executed all the same.
TimePasses ==
    /\ batchAt = "running" /\ ~ timeUp
    /\ timeUp' = TRUE
    /\ UNCHANGED <<product, batchAt, limiter, place, entry, executed, summary>>
TimeoutEntry(i) == Failure(i, "TIMEOUT", FALSE)
TimeOut(i) ==
    /\ batchAt = "running" /\ timeUp
    /\ place[i] # "over"
    /\ EndWith(i, TimeoutEntry(i))
    /\ executed' \in IF place[i] = "calling" THEN {executed, executed \cup {i}} ELSE {executed}
    /\ UNCHANGED <<product, batchAt, timeUp, summary>>

\* Mutants: timed out variations are left out, and gather without
\* return_exceptions never gets to the summary after a failure.
ResultsWithoutTimeouts ==
    SelectSeq([n \in 1 .. Count |-> entry[n - 1]], LAMBDA e : e.code # "TIMEOUT")
SummariseAllProduced ==
    /\ batchAt = "running"
    /\ \A i \in Indexes : place[i] = "over" /\ entry[i].code = ""
    /\ batchAt' = "over"
    /\ summary' = [total |-> Count, succeeded |-> Count,
                   variations |-> [n \in 1 .. Count |-> entry[n - 1]]]
    /\ UNCHANGED <<product, limiter, place, entry, timeUp, executed>>

\* asyncio.gather returns when all have ended, in the order of the indexes.
Results == [n \in 1 .. Count |-> entry[n - 1]]
Summarise ==
    /\ batchAt = "running"
    /\ \A i \in Indexes : place[i] = "over"
    /\ batchAt' = "over"
    /\ summary' = [total |-> Count,
                   succeeded |-> Cardinality({n \in DOMAIN Results : Results[n].produced}),
                   variations |-> Results]
    /\ UNCHANGED <<product, limiter, place, entry, timeUp, executed>>

\* The client is gone: gather cancels every variation.
CancelBatch ==
    /\ batchAt = "running"
    /\ batchAt' = "cancelled"
    /\ executed' \in {executed \cup s : s \in SUBSET {i \in Indexes : place[i] = "calling"}}
    /\ UNCHANGED <<product, limiter, place, entry, timeUp, summary>>

BatchNext ==
    \/ \E p \in Products : StartBatch(p)
    \/ \E i \in Indexes : BeginVariation(i) \/ VariationSucceeds(i) \/ VariationFails(i)
                          \/ Persist(i) \/ TimeOut(i)
    \/ TimePasses \/ Summarise \/ CancelBatch

\* The clock passes and the event loop runs what is ready; the provider is not
\* assumed to answer.
BatchFairness ==
    /\ WF_batchVars(TimePasses) /\ WF_batchVars(Summarise)
    /\ \A i \in Indexes : WF_batchVars(TimeOut(i))

BatchSpec == BatchInit /\ [][BatchNext]_batchVars /\ BatchFairness

-----------------------------------------------------------------------------
(* Properties                                                              *)

\* "The batch always returns exactly count entries" (docs/runtime.md), each at
\* its index, whatever the others did, and what it counts as produced is what
\* the provider executed.
SummaryIsComplete ==
    batchAt = "over" =>
        /\ Len(summary.variations) = Count
        /\ \A n \in 1 .. Count : summary.variations[n].index = n - 1
        /\ summary.succeeded <= Cardinality(executed)
        /\ \A n \in 1 .. Count : summary.variations[n].produced => n - 1 \in executed

\* The batch ends, also when the provider never answers.
BatchEnds == batchAt = "running" ~> batchAt \in {"over", "cancelled"}

\* "A timeout does not mean the operation failed ... the error is marked
\* ambiguous_completion=True" (docs/troubleshooting.md): a variation whose
\* request was executed is not reported as a plain timeout.
TimeoutsAreAmbiguous ==
    \A i \in Indexes :
        place[i] = "over" /\ entry[i].code = "TIMEOUT" /\ i \in executed => entry[i].ambiguous
=============================================================================
