----------------------------- MODULE HttpLimits -----------------------------
(***************************************************************************)
(* The two ASGI middlewares of the HTTP transport.                         *)
(*                                                                         *)
(* RateLimitMiddleware keeps a token bucket per client address: tokens and *)
(* the time they were last counted.  Beyond a number of buckets it drops   *)
(* the ones that have refilled.  Its lock is never waited for (the body    *)
(* does not await), so _consume() is one step.  A token has Minute units,  *)
(* and Rpm units come back per tick: rpm / 60 tokens a second in the code. *)
(*                                                                         *)
(* RequestBodyLimitMiddleware refuses a declared length above the limit,   *)
(* counts what the application receives, and answers 413 unless the        *)
(* application has begun its own answer.                                   *)
(***************************************************************************)
EXTENDS Integers, FiniteSets

CONSTANTS
    Clients,       \* client addresses
    Rpm,           \* requests per minute
    Capacity,      \* burst
    Minute,        \* ticks in a minute
    MaxBuckets,    \* _MAX_BUCKETS
    MaxTick,       \* bound: last instant
    MaxBytes       \* the body limit

ASSUME RateAssumption == Rpm \in Nat \ {0} /\ Capacity \in Nat \ {0} /\ Minute \in Nat \ {0}
ASSUME HttpBounds == MaxBuckets \in Nat /\ MaxTick \in Nat /\ MaxBytes \in Nat

VARIABLES
    tick,       \* time.monotonic()
    buckets,    \* _buckets: clients it has, with their units and last count
    ideal,      \* units each client would have if no bucket were ever dropped (history)
    told,       \* the earliest tick each refused client was told to come back, 0 if none
    body        \* one request: declared length, bytes and messages so far

httpVars == <<tick, buckets, ideal, told, body>>

-----------------------------------------------------------------------------
Full == Capacity * Minute
Bucket == [units : 0 .. Full, at : 0 .. MaxTick]
Filled(units, since) == IF units + (tick - since) * Rpm < Full THEN units + (tick - since) * Rpm ELSE Full

Declared == {"none", "invalid", "within", "above"}
BodyPlaces == {"new", "app", "done", "rejected", "broken"}

HttpTypeOK ==
    /\ tick \in 0 .. MaxTick
    /\ DOMAIN buckets \subseteq Clients
    /\ \A c \in DOMAIN buckets : buckets[c] \in Bucket
    /\ ideal \in [Clients -> Bucket]
    /\ told \in [Clients -> 0 .. MaxTick + Full]
    /\ body \in [at : BodyPlaces, received : Nat, delivered : Nat, starts : 0 .. 2]

HttpInit ==
    /\ tick = 0
    /\ buckets = [c \in {} |-> 0]
    /\ ideal = [c \in Clients |-> [units |-> Full, at |-> 0]]
    /\ told = [c \in Clients |-> 0]
    /\ body = [at |-> "new", received |-> 0, delivered |-> 0, starts |-> 0]

-----------------------------------------------------------------------------
(* RateLimitMiddleware                                                     *)

\* _evict_expired(), called before a request when there are too many buckets.
Refilled(c) == Filled(buckets[c].units, buckets[c].at) >= Full
\* Mutant: at the limit every bucket goes.
KeptNone == IF Cardinality(DOMAIN buckets) > MaxBuckets THEN {} ELSE DOMAIN buckets
Kept == IF Cardinality(DOMAIN buckets) > MaxBuckets
        THEN {c \in DOMAIN buckets : ~ Refilled(c)} ELSE DOMAIN buckets

UnitsOf(c) == IF c \in Kept THEN Filled(buckets[c].units, buckets[c].at) ELSE Full
Admits(units) == units >= Minute
CeilDiv(a, b) == (a + b - 1) \div b
RetryAfterFloor(units) == (Minute - units) \div Rpm  \* Mutant: rounded down.
\* Retry-After: ceil(deficit / rate).
RetryAfter(units) == CeilDiv(Minute - units, Rpm)

\* _consume(): take a token, or be told when to come back.
Consume(c) ==
    LET units == UnitsOf(c)
        left == IF Admits(units) THEN units - Minute ELSE units
        whole == Filled(ideal[c].units, ideal[c].at)
    IN  /\ buckets' = [d \in Kept \cup {c} |->
                          IF d = c THEN [units |-> left, at |-> tick] ELSE buckets[d]]
        /\ told' = [told EXCEPT ![c] = IF Admits(units) THEN 0 ELSE tick + RetryAfter(units)]
        /\ ideal' = [ideal EXCEPT ![c] =
              [units |-> IF Admits(units) THEN whole - Minute ELSE whole, at |-> tick]]
        /\ UNCHANGED <<tick, body>>

HttpTick ==
    /\ tick < MaxTick
    /\ tick' = tick + 1
    /\ UNCHANGED <<buckets, ideal, told, body>>

-----------------------------------------------------------------------------
(* RequestBodyLimitMiddleware                                              *)

Reject == body' = [body EXCEPT !.at = "rejected", !.starts = @ + 1]

\* The declared length: none, unreadable (400), above the limit (413) or within.
BeginBody(declared) ==
    /\ body.at = "new"
    /\ \/ declared \in {"invalid", "above"} /\ Reject
       \/ declared \in {"none", "within"} /\ body' = [body EXCEPT !.at = "app"]
    /\ UNCHANGED <<tick, buckets, ideal, told>>

\* Mutant: the message is passed on before it is counted.
ReceiveBodyFirst(n) ==
    /\ body.at = "app"
    /\ body' = [body EXCEPT !.received = @ + n, !.delivered = @ + n,
                            !.at = IF body.received + n <= MaxBytes THEN "app" ELSE "rejected"]
    /\ UNCHANGED <<tick, buckets, ideal, told>>

\* limited_receive(): a message of n bytes; the one that exceeds the limit is
\* not passed on, and what it raises is a 413 or breaks the answer off.
ReceiveBody(n) ==
    /\ body.at = "app"
    /\ \/ /\ body.received + n <= MaxBytes
          /\ body' = [body EXCEPT !.received = @ + n, !.delivered = @ + n]
       \/ /\ body.received + n > MaxBytes
          /\ body' = [body EXCEPT !.received = @ + n,
                                  !.at = IF body.starts > 0 THEN "broken" ELSE "rejected",
                                  !.starts = IF body.starts > 0 THEN @ ELSE 1]
    /\ UNCHANGED <<tick, buckets, ideal, told>>

\* tracked_send(): the application begins its answer, and ends it.
StartResponse ==
    /\ body.at = "app" /\ body.starts = 0
    /\ body' = [body EXCEPT !.starts = 1]
    /\ UNCHANGED <<tick, buckets, ideal, told>>
EndResponse ==
    /\ body.at = "app" /\ body.starts = 1
    /\ body' = [body EXCEPT !.at = "done"]
    /\ UNCHANGED <<tick, buckets, ideal, told>>

RateNext == HttpTick \/ \E c \in Clients : Consume(c)
BodyNext ==
    \/ \E declared \in Declared : BeginBody(declared)
    \/ \E n \in 0 .. MaxBytes + 1 : ReceiveBody(n)
    \/ StartResponse \/ EndResponse
HttpNext == RateNext \/ BodyNext

HttpSpec == HttpInit /\ [][HttpNext]_httpVars

-----------------------------------------------------------------------------
(* Properties                                                              *)

\* Dropping buckets at the limit changes nothing for anybody: every client has
\* what it would have in a table without limit, so a throttled client gains no
\* token and nobody loses one (_evict_expired).
EvictionIsInvisible ==
    \A c \in Clients : UnitsOf(c) = Filled(ideal[c].units, ideal[c].at)

\* A client that waits as long as Retry-After says is admitted, unless it has
\* asked again in between.
RetryAfterIsEnough ==
    \A c \in Clients : told[c] > 0 /\ tick >= told[c] => Admits(UnitsOf(c))

\* The application is never handed more than the limit, whatever was declared,
\* and at most one answer is begun.
BodyIsBounded == body.delivered <= MaxBytes /\ body.starts <= 1
=============================================================================
