---------------------------- MODULE ServerProofs ----------------------------
(***************************************************************************)
(* A request on its way through the server: the rate and body limits in    *)
(* front of it, who reaches a tool's handler, what it fetches from the     *)
(* outside, and what a tool makes of the providers' answers: batches of    *)
(* variations, the poll of a VOD task, the items of a billed call, and the *)
(* wait for a transcription.  For any number of clients, rates, sizes,     *)
(* settings, redirects, variations, items and attempts, and any delays.    *)
(* At the end, the server as a whole: its components side by side.         *)
(***************************************************************************)
EXTENDS MCServer, OwnershipProofs, FiniteSetTheorems, TLAPS

-----------------------------------------------------------------------------
(***************************************************************************)
(* Token buckets and bodies.                                               *)
(*                                                                         *)
(* Evicting a bucket is invisible because a bucket that may be evicted is  *)
(* full, and an unknown client is given a full one.  The limiter's units   *)
(* are products of rates and times, so the proofs rest on a few facts of   *)
(* arithmetic (Multiply, FilledType) that the solver does not find itself. *)
(***************************************************************************)

\* Multiplication is monotone.
LEMMA Multiply ==
    ASSUME NEW a \in Nat, NEW b \in Nat, NEW n \in Nat
    PROVE  a * n \in Nat /\ (a <= b => a * n <= b * n)
<1>1. ASSUME a <= b PROVE a * n <= b * n
    <2>1. b - a \in Nat /\ b * n = a * n + (b - a) * n
        BY <1>1
    <2>2. (b - a) * n \in Nat /\ a * n \in Nat
        BY <2>1
    <2> QED BY <2>1, <2>2
<1> QED BY <1>1

\* Rounded up, a quotient is enough.
LEMMA CeilDivEnough ==
    ASSUME NEW a \in Nat, NEW n \in Nat \ {0}
    PROVE  CeilDiv(a, n) \in Nat /\ CeilDiv(a, n) * n >= a
<1> DEFINE x == a + n - 1
           q == x \div n
<1>1. x \in Nat
    OBVIOUS
<1>2. q \in Nat /\ x - n < q * n
    <2>1. x = n * q + (x % n) /\ x % n \in 0 .. n - 1 /\ q \in Int
        BY <1>1
    <2>2. q \in Nat
        BY <1>1
    <2> QED BY <2>1, <2>2
<1> QED BY <1>2 DEF CeilDiv

\* A full bucket holds at least the units of one request.
LEMMA Amounts == Full \in Nat /\ Full >= Minute /\ Minute \in Nat \ {0} /\ Rpm \in Nat \ {0}
<1>1. (Capacity - 1) \in Nat /\ Capacity * Minute = Minute + (Capacity - 1) * Minute
    BY RateAssumption
<1>2. (Capacity - 1) * Minute \in Nat
    BY <1>1, RateAssumption, Multiply
<1> QED BY <1>1, <1>2, RateAssumption DEF Full

\* A table without limit: what a client has of it.
IsTable == ideal \in [Clients -> [units : 0 .. Full, at : Nat]]
           /\ tick \in Nat /\ \A c \in Clients : ideal[c].at <= tick
Whole(c) == Filled(ideal[c].units, ideal[c].at)

\* The buckets that are there are those of the table, the missing ones are full.
BucketsAgree ==
    /\ DOMAIN buckets \subseteq Clients
    /\ \A c \in DOMAIN buckets : buckets[c] = ideal[c]
    /\ \A c \in Clients \ DOMAIN buckets : Whole(c) = Full

\* Whoever was refused was told by the bucket it has since then.
ToldByBucket ==
    \A c \in Clients :
        told[c] > 0 => /\ ideal[c].units < Minute
                       /\ told[c] = ideal[c].at + RetryAfter(ideal[c].units)

RateInv == IsTable /\ BucketsAgree /\ told \in [Clients -> Nat] /\ ToldByBucket

\* A bucket that fills up neither overflows nor loses units.
LEMMA FilledType ==
    ASSUME tick \in Nat, NEW u \in 0 .. Full, NEW since \in Nat, since <= tick
    PROVE  /\ Filled(u, since) \in 0 .. Full /\ Filled(u, since) >= u
           /\ Filled(u, tick) = u
<1>1. tick - since \in Nat /\ (tick - since) * Rpm \in Nat /\ (tick - tick) * Rpm = 0
    BY Multiply, Amounts
<1> QED BY <1>1, Amounts DEF Filled

\* Evicting full buckets, and only these, is not noticed.
LEMMA UnitsAgree ==
    ASSUME RateInv
    PROVE  /\ \A c \in Clients : UnitsOf(c) = Whole(c) /\ Whole(c) \in 0 .. Full
           /\ Kept \subseteq DOMAIN buckets
           /\ \A c \in Clients \ Kept : Whole(c) = Full
<1>1. \A c \in Clients : Whole(c) \in 0 .. Full
    BY FilledType DEF RateInv, IsTable, Whole
<1>2. Kept \subseteq DOMAIN buckets
    BY DEF Kept
<1>3. ASSUME NEW c \in DOMAIN buckets \ Kept PROVE Whole(c) = Full
    <2>1. Refilled(c) /\ buckets[c] = ideal[c] /\ c \in Clients
        BY <1>3 DEF Kept, RateInv, BucketsAgree
    <2> QED BY <1>1, <2>1, Amounts DEF Refilled, Whole
<1>4. \A c \in Clients \ Kept : Whole(c) = Full
    BY <1>3 DEF RateInv, BucketsAgree
<1>5. \A c \in Kept : UnitsOf(c) = Whole(c)
    BY <1>2 DEF RateInv, BucketsAgree, UnitsOf, Whole
<1> QED BY <1>1, <1>2, <1>4, <1>5 DEF UnitsOf

\* A new limiter knows no client.
LEMMA RateInitially == HttpInit => RateInv
<1> SUFFICES ASSUME HttpInit PROVE RateInv
    OBVIOUS
<1>1. IsTable
    BY Amounts DEF HttpInit, IsTable
<1>2. \A c \in Clients : Whole(c) = Full
    BY <1>1, FilledType, Amounts DEF HttpInit, IsTable, Whole
<1>3. told \in [Clients -> Nat] /\ ToldByBucket
    BY DEF HttpInit, ToldByBucket
<1> QED BY <1>1, <1>2, <1>3 DEF RateInv, BucketsAgree, HttpInit

\* Full buckets stay full.
LEMMA TickKeeps == ASSUME RateInv, HttpTick PROVE RateInv'
<1>1. tick' = tick + 1 /\ tick \in Nat /\ UNCHANGED <<buckets, ideal, told>>
    BY DEF HttpTick, RateInv, IsTable
<1>2. ASSUME NEW c \in Clients, Whole(c) = Full PROVE Whole(c)' = Full
    <2> DEFINE u == ideal[c].units
               a == ideal[c].at
    <2>1. u \in 0 .. Full /\ a \in Nat /\ a <= tick /\ Full \in Nat
        BY Amounts DEF RateInv, IsTable
    <2>2. tick - a \in Nat /\ tick + 1 - a \in Nat /\ tick - a <= tick + 1 - a
        BY <1>1, <2>1
    <2>3. (tick - a) * Rpm \in Nat /\ (tick + 1 - a) * Rpm \in Nat
          /\ (tick - a) * Rpm <= (tick + 1 - a) * Rpm
        BY <2>2, Multiply, Amounts
    <2>4. u + (tick - a) * Rpm >= Full
        BY <1>2, <2>1, <2>3 DEF Whole, Filled
    <2>5. ~ (u + (tick + 1 - a) * Rpm < Full)
        BY <2>1, <2>3, <2>4
    <2>6. Whole(c)' = IF u + (tick + 1 - a) * Rpm < Full THEN u + (tick + 1 - a) * Rpm ELSE Full
        <3>1. Full' = Full
            BY DEF Full
        <3> QED BY <1>1, <2>1, <3>1, Amounts DEF Whole, Filled
    <2> QED BY <2>5, <2>6
<1>3. IsTable' /\ ToldByBucket'
    BY <1>1 DEF RateInv, IsTable, ToldByBucket, RetryAfter, CeilDiv, Full
<1> QED BY <1>1, <1>2, <1>3 DEF RateInv, BucketsAgree, Full

\* A request takes its units from its own bucket only.
LEMMA ConsumeKeeps == ASSUME RateInv, NEW c \in Clients, Consume(c) PROVE RateInv'
<1> DEFINE units == UnitsOf(c)
           left == IF Admits(units) THEN units - Minute ELSE units
<1>1. /\ units = Whole(c) /\ units \in 0 .. Full
      /\ Kept \subseteq DOMAIN buckets /\ DOMAIN buckets \subseteq Clients
      /\ \A d \in Clients \ Kept : Whole(d) = Full
      /\ tick \in Nat /\ Minute \in Nat \ {0} /\ Full \in Nat /\ Rpm \in Nat \ {0}
    BY UnitsAgree, Amounts DEF RateInv, BucketsAgree, IsTable
<1>2. left \in 0 .. Full /\ (~ Admits(units) => left = units /\ units < Minute)
    BY <1>1 DEF Admits
<1>3. /\ tick' = tick
      /\ buckets' = [d \in Kept \cup {c} |-> IF d = c THEN [units |-> left, at |-> tick] ELSE buckets[d]]
      /\ told' = [told EXCEPT ![c] = IF Admits(units) THEN 0 ELSE tick + RetryAfter(units)]
      /\ ideal' = [ideal EXCEPT ![c] = [units |-> left, at |-> tick]]
    BY <1>1 DEF Consume, Whole
<1> HIDE DEF units, left
<1>4. /\ ideal'[c] = [units |-> left, at |-> tick]
      /\ \A d \in Clients : d # c => ideal'[d] = ideal[d] /\ told'[d] = told[d]
      /\ told'[c] = IF Admits(units) THEN 0 ELSE tick + RetryAfter(units)
    BY <1>3 DEF RateInv, IsTable
<1>5. IsTable'
    BY <1>1, <1>2, <1>3 DEF RateInv, IsTable, Full
<1>6. BucketsAgree'
    <2>1. \A d \in Clients : d # c => Whole(d)' = Whole(d)
        BY <1>3, <1>4 DEF Whole, Filled, Full
    <2>2. DOMAIN buckets' = Kept \cup {c} /\ DOMAIN buckets' \subseteq Clients
        BY <1>1, <1>3
    <2>3. \A d \in DOMAIN buckets' : buckets'[d] = ideal'[d]
        BY <1>1, <1>3, <1>4, <2>2 DEF RateInv, BucketsAgree
    <2> QED BY <1>1, <2>1, <2>2, <2>3 DEF BucketsAgree, Full
<1>7. told' \in [Clients -> Nat] /\ ToldByBucket'
    <2>1. ASSUME ~ Admits(units) PROVE RetryAfter(units) \in Nat
        <3>1. Minute - units \in Nat
            BY <1>1, <1>2, <2>1
        <3> QED BY <1>1, <3>1, CeilDivEnough DEF RetryAfter
    <2>2. told'[c] \in Nat /\ (told'[c] > 0 => ~ Admits(units))
        BY <1>1, <1>4, <2>1
    <2>3. told' \in [Clients -> Nat]
        BY <1>3, <1>4, <2>2 DEF RateInv
    <2>4. told'[c] > 0 => /\ ideal'[c].units < Minute
                          /\ told'[c] = ideal'[c].at + RetryAfter(ideal'[c].units)
        BY <1>2, <1>4, <2>2
    <2> QED BY <1>4, <2>3, <2>4 DEF RateInv, ToldByBucket, RetryAfter
<1> QED BY <1>5, <1>6, <1>7 DEF RateInv

\* The inductive step for the buckets.
LEMMA RateInductive == ASSUME RateInv, [HttpNext]_httpVars PROVE RateInv'
<1>1. CASE BodyNext \/ UNCHANGED httpVars
    <2>1. UNCHANGED <<tick, buckets, ideal, told>>
        BY <1>1 DEF BodyNext, BeginBody, ReceiveBody, StartResponse, EndResponse, httpVars
    <2> QED BY <2>1 DEF RateInv, IsTable, BucketsAgree, ToldByBucket, Whole, Filled
<1> QED BY <1>1, TickKeeps, ConsumeKeeps DEF HttpNext, RateNext

\* The buckets keep their invariant.
LEMMA RateCorrect == HttpSpec => []RateInv
BY RateInitially, RateInductive, PTL DEF HttpSpec

\* However many clients come and however many buckets are dropped, each client
\* has the tokens of a table without limit.
THEOREM EvictionCorrect == HttpSpec => []EvictionIsInvisible
<1>1. RateInv => EvictionIsInvisible
    BY UnitsAgree DEF EvictionIsInvisible, Whole
<1> QED BY <1>1, RateCorrect, PTL

\* Waiting as long as Retry-After says is enough, for every rate and burst.
THEOREM RetryAfterCorrect == HttpSpec => []RetryAfterIsEnough
<1>1. RateInv => RetryAfterIsEnough
    <2> SUFFICES ASSUME RateInv, NEW c \in Clients, told[c] > 0, tick >= told[c]
                 PROVE  Admits(UnitsOf(c))
        BY DEF RetryAfterIsEnough
    <2> DEFINE u == ideal[c].units
               a == ideal[c].at
    <2>1. /\ u \in 0 .. Full /\ a \in Nat /\ a <= tick /\ tick \in Nat
          /\ u < Minute /\ told[c] = a + RetryAfter(u)
        BY DEF RateInv, IsTable, ToldByBucket
    <2>2. Minute - u \in Nat /\ Minute \in Nat /\ Full \in Nat /\ Full >= Minute /\ Rpm \in Nat \ {0}
        BY <2>1, Amounts
    <2>3. RetryAfter(u) \in Nat /\ RetryAfter(u) * Rpm >= Minute - u
        BY <2>2, CeilDivEnough DEF RetryAfter
    <2>4. tick - a \in Nat /\ RetryAfter(u) <= tick - a
        BY <2>1, <2>3
    <2>5. (tick - a) * Rpm \in Nat /\ RetryAfter(u) * Rpm <= (tick - a) * Rpm
          /\ RetryAfter(u) * Rpm \in Nat
        BY <2>2, <2>3, <2>4, Multiply
    <2>6. u + (tick - a) * Rpm >= Minute
        BY <2>1, <2>2, <2>3, <2>5
    <2>7. Whole(c) >= Minute
        BY <2>2, <2>6 DEF Whole, Filled
    <2> QED BY <2>7, UnitsAgree DEF Admits
<1> QED BY <1>1, RateCorrect, PTL

-----------------------------------------------------------------------------
(* Bodies                                                                  *)

BodyInv ==
    /\ body \in [at : BodyPlaces, received : Nat, delivered : Nat, starts : {0, 1}]
    /\ body.delivered <= MaxBytes
    /\ body.at \in {"new", "app"} => body.delivered = body.received
    /\ body.at = "new" => body.starts = 0

\* The inductive step for one request body.
LEMMA BodyInductive == ASSUME BodyInv, BodyNext PROVE BodyInv'
<1> DEFINE BodiesAt(places) == [at : places, received : Nat, delivered : Nat, starts : {0, 1}]
<1>0. body \in BodiesAt(BodyPlaces)
    BY DEF BodyInv
<1>1. ASSUME NEW declared \in Declared, BeginBody(declared) PROVE BodyInv'
    <2>1. body.starts = 0 /\ body.delivered = body.received /\ body.at = "new"
        BY <1>1 DEF BodyInv, BeginBody
    <2>2. \/ body' = [body EXCEPT !.at = "app"]
          \/ body' = [body EXCEPT !.at = "rejected", !.starts = 1]
        BY <1>1, <2>1 DEF BeginBody, Reject
    <2>3. body' \in BodiesAt(BodyPlaces) /\ body'.delivered = body.delivered
          /\ body'.received = body.received /\ body'.at # "new"
        <3>1. CASE body' = [body EXCEPT !.at = "app"]
            BY <1>0, <3>1 DEF BodyPlaces
        <3>2. CASE body' = [body EXCEPT !.at = "rejected", !.starts = 1]
            BY <1>0, <3>2 DEF BodyPlaces
        <3> QED BY <2>2, <3>1, <3>2
    <2> QED BY <2>1, <2>3 DEF BodyInv
<1>2. ASSUME NEW n \in 0 .. MaxBytes + 1, ReceiveBody(n) PROVE BodyInv'
    <2>1. /\ body.at = "app" /\ body.received + n \in Nat /\ body.delivered = body.received
          /\ body.delivered <= MaxBytes
        BY <1>0, <1>2, HttpBounds DEF BodyInv, ReceiveBody
    <2>2. CASE /\ body.received + n <= MaxBytes
               /\ body' = [body EXCEPT !.received = @ + n, !.delivered = @ + n]
        <3>1. body' \in BodiesAt(BodyPlaces) /\ body'.delivered = body.received + n
              /\ body'.received = body.received + n /\ body'.at = "app"
            BY <1>0, <2>1, <2>2
        <3> QED BY <2>2, <3>1 DEF BodyInv
    <2>3. CASE body' = [body EXCEPT !.received = @ + n,
                                    !.at = IF body.starts > 0 THEN "broken" ELSE "rejected",
                                    !.starts = IF body.starts > 0 THEN @ ELSE 1]
        <3> SUFFICES /\ body' \in BodiesAt(BodyPlaces) /\ body'.delivered = body.delivered
                     /\ body'.at \in {"broken", "rejected"}
            BY <2>1 DEF BodyInv
        <3>1. CASE body.starts > 0
            <4>1. body' = [body EXCEPT !.received = body.received + n, !.at = "broken"]
                BY <1>0, <2>3, <3>1
            <4> QED BY <1>0, <2>1, <4>1 DEF BodyPlaces
        <3>2. CASE body.starts = 0
            <4>1. body' = [body EXCEPT !.received = body.received + n, !.at = "rejected", !.starts = 1]
                BY <1>0, <2>3, <3>2
            <4> QED BY <1>0, <2>1, <4>1 DEF BodyPlaces
        <3> QED BY <1>0, <3>1, <3>2
    <2> QED BY <1>2, <2>2, <2>3 DEF ReceiveBody
<1>3. CASE StartResponse \/ EndResponse
    BY <1>3 DEF BodyInv, StartResponse, EndResponse, BodyPlaces
<1> QED BY <1>1, <1>2, <1>3 DEF BodyNext

\* A body keeps its invariant.
LEMMA BodyInvCorrect == HttpSpec => []BodyInv
<1>1. HttpInit => BodyInv
    BY HttpBounds DEF HttpInit, BodyInv, BodyPlaces
<1>2. BodyInv /\ [HttpNext]_httpVars => BodyInv'
    <2> SUFFICES ASSUME BodyInv, [HttpNext]_httpVars PROVE BodyInv'
        OBVIOUS
    <2>1. CASE UNCHANGED body
        BY <2>1 DEF BodyInv
    <2> QED BY <2>1, BodyInductive DEF HttpNext, RateNext, HttpTick, Consume, httpVars
<1> QED BY <1>1, <1>2, PTL DEF HttpSpec

\* Whatever length was declared and however the body comes in pieces, the
\* application gets no more than the limit, and one answer is begun.
THEOREM BodyCorrect == HttpSpec => []BodyIsBounded
<1>1. BodyInv => BodyIsBounded
    BY DEF BodyInv, BodyIsBounded
<1> QED BY <1>1, BodyInvCorrect, PTL

\* Rounded up, a quotient is no more than what was divided.
LEMMA CeilDivAtMost ==
    ASSUME NEW a \in Nat, NEW n \in Nat \ {0}
    PROVE  CeilDiv(a, n) <= a
<1> DEFINE x == a + n - 1
           q == x \div n
<1>1. x \in Nat /\ q \in Int /\ x = n * q + (x % n) /\ x % n \in 0 .. n - 1
    OBVIOUS
<1>2. n * q <= x /\ n * q \in Int
    BY <1>1
<1>3. q \in Nat
    BY CeilDivEnough DEF CeilDiv
<1>4. ASSUME q >= a + 1 PROVE FALSE
    <2>1. (a + 1) * n <= q * n /\ (a + 1) * n = a * n + n
        BY <1>3, <1>4, Multiply
    <2>2. 1 * a <= n * a /\ n * a = a * n /\ a * n \in Nat
        BY Multiply
    <2>3. q * n = n * q
        BY <1>3
    <2> QED BY <1>1, <1>2, <2>1, <2>2, <2>3
<1> QED BY <1>3, <1>4 DEF CeilDiv

\* The clock, the buckets and the body have their types: no bucket overflows or
\* goes below zero, and nobody is sent away for longer than a bucket takes to fill.
LEMMA HttpTypeCorrect == HttpSpec => []HttpTypeOK
<1>1. HttpInit => tick \in 0 .. MaxTick
    BY HttpBounds DEF HttpInit
<1>2. ASSUME tick \in 0 .. MaxTick, [HttpNext]_httpVars PROVE (tick \in 0 .. MaxTick)'
    <2>1. CASE BodyNext
        BY <1>2, <2>1 DEF BodyNext, BeginBody, ReceiveBody, StartResponse, EndResponse
    <2>2. CASE HttpTick
        BY <1>2, <2>2, HttpBounds DEF HttpTick
    <2>3. ASSUME NEW c \in Clients, Consume(c) PROVE tick' = tick
        BY <2>3 DEF Consume
    <2> QED BY <1>2, <2>1, <2>2, <2>3 DEF HttpNext, RateNext, httpVars
<1>3. ASSUME RateInv, BodyInv, tick \in 0 .. MaxTick PROVE HttpTypeOK
    <2>1. ideal \in [Clients -> Bucket]
        <3>1. \A c \in Clients : ideal[c] \in [units : 0 .. Full, at : Nat] /\ ideal[c].at <= tick
            BY <1>3 DEF RateInv, IsTable
        <3>2. \A c \in Clients : ideal[c] \in Bucket
            BY <1>3, <3>1, HttpBounds DEF Bucket
        <3> QED BY <1>3, <3>2 DEF RateInv, IsTable
    <2>2. DOMAIN buckets \subseteq Clients /\ \A c \in DOMAIN buckets : buckets[c] \in Bucket
        BY <1>3, <2>1 DEF RateInv, BucketsAgree
    <2>3. told \in [Clients -> 0 .. MaxTick + Full]
        <3> SUFFICES ASSUME NEW c \in Clients PROVE told[c] \in 0 .. MaxTick + Full
            BY <1>3 DEF RateInv
        <3>1. told[c] \in Nat /\ Full \in Nat /\ Full >= Minute /\ Minute \in Nat /\ Rpm \in Nat \ {0}
              /\ ideal[c].at \in 0 .. MaxTick /\ ideal[c].units \in 0 .. Full
            BY <1>3, <2>1, Amounts DEF RateInv, Bucket
        <3>2. CASE told[c] > 0
            <4>1. /\ ideal[c].units < Minute
                  /\ told[c] = ideal[c].at + RetryAfter(ideal[c].units)
                BY <1>3, <3>2 DEF RateInv, ToldByBucket
            <4>2. Minute - ideal[c].units \in Nat /\ Minute - ideal[c].units <= Full
                BY <3>1, <4>1
            <4>3. /\ RetryAfter(ideal[c].units) \in Nat
                  /\ RetryAfter(ideal[c].units) <= Minute - ideal[c].units
                BY <3>1, <4>2, CeilDivEnough, CeilDivAtMost DEF RetryAfter
            <4> QED BY <3>1, <4>1, <4>2, <4>3, HttpBounds
        <3>3. CASE told[c] = 0
            BY <3>1, <3>3, HttpBounds
        <3> QED BY <3>1, <3>2, <3>3
    <2>4. body \in [at : BodyPlaces, received : Nat, delivered : Nat, starts : 0 .. 2]
        BY <1>3 DEF BodyInv
    <2> QED BY <1>3, <2>1, <2>2, <2>3, <2>4 DEF HttpTypeOK
<1> QED BY <1>1, <1>2, <1>3, RateCorrect, BodyInvCorrect, PTL DEF HttpSpec

-----------------------------------------------------------------------------
(***************************************************************************)
(* Who reaches a handler.                                                  *)
(*                                                                         *)
(* A handler runs after the checks of its path, on settings that were      *)
(* validated when the server was built.  The invariant carries both: the   *)
(* settings are valid, and a request that was let through was verified for *)
(* a tool that those settings offer.                                       *)
(***************************************************************************)

ToolAsks ==
    [at : AskPlaces, tool : AskedTools \cup {"ark_job_get"}, path : {"plain", "task", "job"},
     persist : BOOLEAN, token : Tokens, grants : BOOLEAN, tenant : BOOLEAN]

\* The settings of a server that was built, or of none.
SurfaceIsValid ==
    /\ surface.auth \in {"local", "jwt"}
    /\ surface.auth = "local" => surface.transport = "stdio" \/ surface.host = "loopback"
    /\ surface.artifacts = "object_storage" => "storage" \in surface.keys

\* What was received has a token that was verified, where tokens are.
ReceivedIsVerified ==
    ask.at \in {"received", "queued", "running"} /\ surface.auth = "jwt" => ask.token = "good"

\* What was queued, and what runs, was offered to its caller on its path.
AskWasOffered ==
    ask.at \in {"queued", "running"} =>
        /\ ask.tool \in RegisteredTools(surface.keys)
        /\ surface.auth = "local" \/ ask.tool \in JobTools \/ ask.grants
        /\ ask.tool \in RequiredTools \/ (ask.tool \in OptionalTools /\ ask.persist) =>
              ask.path # "plain" /\ HasPrincipal

SurfaceInv == ask \in ToolAsks /\ SurfaceIsValid /\ ReceivedIsVerified /\ AskWasOffered

\* Tools of a feature are registered only where it is configured.
LEMMA StorageNeedsStore ==
    ASSUME NEW keys, NEW tool \in RegisteredTools(keys), tool \in StorageTools
    PROVE  "storage" \in keys
BY DEF RegisteredTools, StorageTools, JobTools, AudioTools, VodSubmitTools, VodGetTools,
       ArkGenerationTools, ArkTaskTools, Seed3DTools

\* Seed3D tools need the keys of both services.
LEMMA Seed3DNeedsBoth ==
    ASSUME NEW keys, NEW tool \in RegisteredTools(keys), tool \in Seed3DTools
    PROVE  {"modelark", "seed3d"} \subseteq keys
BY DEF RegisteredTools, StorageTools, JobTools, AudioTools, VodSubmitTools, VodGetTools,
       ArkGenerationTools, ArkTaskTools, Seed3DTools

\* The tools that read jobs are not run as jobs.
LEMMA JobToolsAreForeground == JobTools \cap (RequiredTools \cup OptionalTools) = {}
BY DEF RequiredTools, OptionalTools, JobTools, AudioTools, VodSubmitTools, VodGetTools,
       ArkGenerationTools

\* A server that was built has valid settings.
LEMMA ConfiguredIsValid ==
    ASSUME NEW s \in Settings, ValidSettings(s), surface' = Configured(s)
    PROVE  SurfaceIsValid'
BY DEF Settings, ValidSettings, Configured, SurfaceIsValid

\* No server has been built.
LEMMA SurfaceInitially == SurfaceInit => SurfaceInv
<1> SUFFICES ASSUME SurfaceInit PROVE SurfaceInv
    OBVIOUS
<1>1. ask \in ToolAsks /\ ask.at = "unbuilt"
    BY DEF SurfaceInit, NoneAsked, ToolAsks, AskPlaces, Tokens
<1> QED BY <1>1 DEF SurfaceInit, Unbuilt, SurfaceInv, SurfaceIsValid, ReceivedIsVerified, AskWasOffered

\* Only the place of a request changes: all it carries, and the server, stay.
LEMMA AskMoves ==
    ASSUME ask \in ToolAsks, NEW there \in AskPlaces, ask' = [ask EXCEPT !.at = there]
    PROVE  /\ ask' \in ToolAsks /\ ask'.at = there /\ ask'.tool = ask.tool /\ ask'.path = ask.path
           /\ ask'.persist = ask.persist /\ ask'.token = ask.token
           /\ ask'.grants = ask.grants /\ ask'.tenant = ask.tenant
BY DEF ToolAsks

\* A refused request received nothing.
LEMMA RejectKeeps ==
    ASSUME SurfaceInv, RejectAsk, UNCHANGED surface
    PROVE  SurfaceInv'
<1>1. ask' \in ToolAsks /\ ask'.at = "rejected"
    BY AskMoves DEF RejectAsk, SurfaceInv, AskPlaces
<1> QED BY <1>1 DEF SurfaceInv, SurfaceIsValid, ReceivedIsVerified, AskWasOffered

\* A request that was received goes on once it was offered.
LEMMA AdmitKeeps ==
    ASSUME SurfaceInv, UNCHANGED surface, NEW there \in {"queued", "running"},
           ask' = [ask EXCEPT !.at = there],
           ask.at \in {"received", "queued"},
           ask.tool \in RegisteredTools(surface.keys),
           surface.auth = "local" \/ ask.tool \in JobTools \/ ask.grants,
           ask.tool \in RequiredTools \/ (ask.tool \in OptionalTools /\ ask.persist) =>
              ask.path # "plain" /\ HasPrincipal
    PROVE  SurfaceInv'
<1>1. /\ ask' \in ToolAsks /\ ask'.at = there /\ ask'.tool = ask.tool /\ ask'.path = ask.path
      /\ ask'.persist = ask.persist /\ ask'.token = ask.token
      /\ ask'.grants = ask.grants /\ ask'.tenant = ask.tenant
    BY AskMoves DEF SurfaceInv, AskPlaces
<1>2. SurfaceIsValid' /\ ReceivedIsVerified'
    BY <1>1 DEF SurfaceInv, SurfaceIsValid, ReceivedIsVerified
<1>3. HasPrincipal => HasPrincipal'
    BY <1>1 DEF HasPrincipal
<1>4. AskWasOffered'
    BY <1>1, <1>3 DEF AskWasOffered
<1> QED BY <1>1, <1>2, <1>4 DEF SurfaceInv

\* The inductive step, one case per action.
LEMMA SurfaceStepKeeps ==
    ASSUME SurfaceInv, [SurfaceNext]_surfaceVars
    PROVE  SurfaceInv'
<1>1. ASSUME NEW s \in Settings, ask.at = "unbuilt", BuildServer(s) PROVE SurfaceInv'
    <2>1. ask' \in ToolAsks /\ ask'.at = "serving"
        BY <1>1, AskMoves DEF BuildServer, SurfaceInv, AskPlaces
    <2>2. SurfaceIsValid'
        BY <1>1, ConfiguredIsValid DEF BuildServer
    <2> QED BY <2>1, <2>2 DEF SurfaceInv, ReceivedIsVerified, AskWasOffered
<1>2. ASSUME NEW s \in Settings, RefuseSettings(s) PROVE SurfaceInv'
    <2>1. ask' \in ToolAsks /\ ask'.at = "refused"
        BY <1>2, AskMoves DEF RefuseSettings, SurfaceInv, AskPlaces
    <2> QED BY <1>2, <2>1 DEF RefuseSettings, SurfaceInv, SurfaceIsValid, ReceivedIsVerified, AskWasOffered
<1>3. ASSUME NEW tool \in AskedTools, NEW path \in {"plain", "task", "job"},
             NEW persist \in BOOLEAN, NEW token \in Tokens, NEW grants \in BOOLEAN,
             NEW tenant \in BOOLEAN, ReceiveRequest(tool, path, persist, token, grants, tenant)
      PROVE  SurfaceInv'
    <2>1. /\ ask' \in ToolAsks /\ ask'.at \in {"received", "rejected"} /\ ask'.token = token
          /\ ask'.at = "received" => surface.auth = "local" \/ token = "good"
        BY <1>3 DEF ReceiveRequest, Verified, ToolAsks, AskPlaces
    <2> QED BY <1>3, <2>1 DEF ReceiveRequest, SurfaceInv, SurfaceIsValid, ReceivedIsVerified, AskWasOffered
<1>4. CASE PlainCall
    <2>1. CASE Offered /\ ask.tool \notin RequiredTools /\ ~ (ask.tool \in OptionalTools /\ ask.persist)
        BY <1>4, <2>1, AdmitKeeps DEF PlainCall, RunHandler, Offered, Authorised, ScopelessTools
    <2>2. CASE ~ (Offered /\ ask.tool \notin RequiredTools /\ ~ (ask.tool \in OptionalTools /\ ask.persist))
        BY <1>4, <2>2, RejectKeeps DEF PlainCall
    <2> QED BY <2>1, <2>2
<1>5. CASE NativeTask
    <2>1. CASE RejectAsk
        BY <1>5, <2>1, RejectKeeps DEF NativeTask
    <2>2. CASE ~ RejectAsk
        <3>1. /\ UNCHANGED surface /\ ask.at = "received" /\ ask.path = "task" /\ HasPrincipal /\ Offered
              /\ \E there \in {"queued", "running"} : ask' = [ask EXCEPT !.at = there]
            BY <1>5, <2>2 DEF NativeTask, RunHandler
        <3> QED BY <3>1, AdmitKeeps DEF Offered, Authorised, ScopelessTools
    <2> QED BY <2>1, <2>2
<1>6. CASE SubmitJob
    <2>1. CASE RejectAsk
        BY <1>6, <2>1, RejectKeeps DEF SubmitJob
    <2>2. CASE ~ RejectAsk
        BY <1>6, <2>2, AdmitKeeps DEF SubmitJob, JobAuthorised
    <2> QED BY <2>1, <2>2
<1>7. CASE WorkerStarts
    BY <1>7, AdmitKeeps DEF WorkerStarts, RunHandler, SurfaceInv, AskWasOffered
<1>8. CASE UNCHANGED surfaceVars
    BY <1>8 DEF surfaceVars, SurfaceInv, SurfaceIsValid, ReceivedIsVerified, AskWasOffered, HasPrincipal
<1> QED BY <1>1, <1>2, <1>3, <1>4, <1>5, <1>6, <1>7, <1>8 DEF SurfaceNext

\* The server and its request keep their types, whatever settings it is given.
LEMMA SurfaceTypeCorrect == SurfaceSpec => []SurfaceTypeOK
<1> DEFINE Servers ==
        [keys : SUBSET {"modelark", "seed3d", "speech", "vod", "storage"},
         auth : {"local", "jwt"}, transport : {"stdio", "http"},
         host : {"loopback", "public"}, artifacts : {"filesystem", "object_storage"}]
<1>1. SurfaceInit => surface \in Servers
    BY DEF SurfaceInit, Unbuilt
<1>2. ASSUME surface \in Servers, [SurfaceNext]_surfaceVars PROVE (surface \in Servers)'
    <2>1. \A s \in Settings : Configured(s) \in Servers
        BY DEF Settings, Configured
    <2> QED BY <1>2, <2>1 DEF SurfaceNext, BuildServer, RefuseSettings, ReceiveRequest, PlainCall,
               NativeTask, SubmitJob, WorkerStarts, surfaceVars
<1>3. surface \in Servers /\ SurfaceInv => SurfaceTypeOK
    BY DEF SurfaceInv, ToolAsks, SurfaceTypeOK
<1> QED BY <1>1, <1>2, <1>3, SurfaceInitially, SurfaceStepKeeps, PTL DEF SurfaceSpec

\* Whichever path a request came by, its handler runs only where its feature is
\* configured, for a token that grants its scope, and in the background when it
\* is billed or stores (register_tools(), component_auth(), ark_job_submit(),
\* TenantTasksExtension.intercept_tool_call()).
THEOREM SurfaceCorrect == SurfaceSpec => []AuthorisedOnEveryPath
<1>1. SurfaceInv => AuthorisedOnEveryPath
    BY StorageNeedsStore, Seed3DNeedsBoth
       DEF SurfaceInv, SurfaceIsValid, ReceivedIsVerified, AskWasOffered, AuthorisedOnEveryPath
<1> QED BY <1>1, SurfaceInitially, SurfaceStepKeeps, PTL DEF SurfaceSpec

-----------------------------------------------------------------------------
(***************************************************************************)
(* Downloads stay confined, for any number of redirects, any limit and any *)
(* answers of the resolver.                                                *)
(*                                                                         *)
(* The promise speaks of hosts that are being read.  What carries it there *)
(* is what holds before the connection: the addresses a hop may connect to *)
(* are those whose check has succeeded, and nothing has been sent on it.   *)
(***************************************************************************)

\* The hop in progress has passed both checks.
HopIsChecked ==
    /\ \A a \in fetch.checked : ~ IsBlockedAddress(a)
    /\ fetch.location.trusted /\ fetch.location.wellFormed

\* What is known at each place of the loop.
Confined ==
    /\ fetch.at \in {"idle", "validating", "connecting"} => fetch.contacted <= fetch.hop
    /\ fetch.contacted <= fetch.hop + 1
    /\ fetch.at \in {"connecting", "reading", "storing", "stored"} => HopIsChecked
    /\ fetch.at \in {"reading", "storing", "stored"} =>
          fetch.address \in fetch.checked /\ fetch.units <= MaxOutput
    /\ fetch.at \in {"storing", "stored"} => fetch.status = "ok"
    /\ fetch.code \in {"untrusted_output_host", "output_too_large"} => ~ fetch.retryable

DownloadInv == DownloadTypeOK /\ Confined

-----------------------------------------------------------------------------
\* Nothing has been fetched yet.
LEMMA DownloadInvInit == DownloadInit => DownloadInv
BY DownloadAssumption
   DEF DownloadInit, DownloadInv, DownloadTypeOK, Confined, NoFetch, FetchPlaces, Locations,
       ResponseStatuses, Addresses

\* An error ends the download and claims nothing but its code.
LEMMA ErrorKeeps ==
    ASSUME DownloadInv, NEW code, NEW retryable \in BOOLEAN,
           fetch' = DownloadError(code, retryable),
           Translated(code) \in {"untrusted_output_host", "output_too_large"} => ~ retryable
    PROVE  DownloadInv'
<1>1. Translated(code) \in StoreCodes
  BY DEF Translated, StoreCodes
<1>2. DownloadTypeOK'
  BY <1>1 DEF DownloadInv, DownloadTypeOK, DownloadError, FetchPlaces
<1>3. /\ fetch'.at = "failed" /\ fetch'.contacted = fetch.contacted /\ fetch'.hop = fetch.hop
      /\ fetch'.code = Translated(code) /\ fetch'.retryable = retryable
  BY DEF DownloadInv, DownloadTypeOK, DownloadError
<1>4. Confined'
  BY <1>3 DEF DownloadInv, Confined
<1>. QED
  BY <1>2, <1>4 DEF DownloadInv

\* A refusal under either name invites no retry.
LEMMA RefusedKeeps ==
    ASSUME DownloadInv, NEW code, fetch' = Refused(code)
    PROVE  DownloadInv'
<1>1. fetch' = DownloadError(IF fetch.hop = 0 THEN code ELSE "redirect_rejected", FALSE)
  BY DEF Refused
<1>. QED
  BY <1>1, ErrorKeeps

\* A download begins with its first URL.
LEMMA BeginDownloadKeeps ==
    ASSUME DownloadInv, NEW location \in Locations, BeginDownload(location)
    PROVE  DownloadInv'
BY DEF DownloadInv, DownloadTypeOK, Confined, BeginDownload, FetchPlaces

\* Only an answer without a blocked address, for a trusted host, leads on.
LEMMA ValidateHopKeeps ==
    ASSUME DownloadInv, NEW answer \in SUBSET Addresses, ValidateHop(answer)
    PROVE  DownloadInv'
<1>1. CASE ~ fetch.location.wellFormed \/ answer = {} \/ \E a \in answer : IsBlockedAddress(a)
  BY <1>1, RefusedKeeps DEF ValidateHop
<1>2. CASE /\ fetch.location.wellFormed /\ answer # {}
           /\ \A a \in answer : ~ IsBlockedAddress(a)
           /\ ~ fetch.location.trusted
  BY <1>2, RefusedKeeps DEF ValidateHop
<1>3. CASE /\ fetch.location.wellFormed /\ answer # {}
           /\ \A a \in answer : ~ IsBlockedAddress(a)
           /\ fetch.location.trusted
  <2>1. fetch.at = "validating" /\ fetch' = [fetch EXCEPT !.at = "connecting", !.checked = answer]
    BY <1>3 DEF ValidateHop
  <2>2. DownloadTypeOK'
    BY <2>1 DEF DownloadInv, DownloadTypeOK, FetchPlaces
  <2>3. Confined'
    BY <1>3, <2>1 DEF DownloadInv, DownloadTypeOK, Confined, HopIsChecked
  <2>. QED
    BY <2>2, <2>3 DEF DownloadInv
<1>4. fetch.location.wellFormed \in BOOLEAN /\ fetch.location.trusted \in BOOLEAN
  BY DEF DownloadInv, DownloadTypeOK, Locations
<1>. QED
  BY <1>1, <1>2, <1>3, <1>4

\* The connection goes to an address of the check, and counts once per hop.
LEMMA ConnectKeeps ==
    ASSUME DownloadInv, NEW address \in Addresses, Connect(address)
    PROVE  DownloadInv'
<1>1. /\ fetch.at = "connecting" /\ address \in fetch.checked
      /\ fetch' = [fetch EXCEPT !.at = "reading", !.address = address, !.units = 0,
                                !.contacted = fetch.contacted + 1]
  BY DEF Connect, ConnectAddresses
<1>2. fetch.contacted \in Nat /\ fetch.contacted <= fetch.hop /\ fetch.hop \in 0 .. MaxRedirects
  BY <1>1, DownloadAssumption DEF DownloadInv, DownloadTypeOK, Confined
<1>3. DownloadTypeOK'
  <2>1. 0 \in 0 .. MaxOutput + 1 /\ fetch.contacted + 1 \in 0 .. MaxRedirects + 1
    BY <1>2, DownloadAssumption
  <2>. QED
    BY <1>1, <2>1 DEF DownloadInv, DownloadTypeOK, FetchPlaces
<1>4. Confined'
  BY <1>1, <1>2, DownloadAssumption DEF DownloadInv, DownloadTypeOK, Confined, HopIsChecked
<1>. QED
  BY <1>3, <1>4 DEF DownloadInv

\* A transport error may be retried, under a code of its own.
LEMMA ConnectionFailsKeeps == ASSUME DownloadInv, ConnectionFails PROVE DownloadInv'
<1>1. fetch' = DownloadError("network_error", TRUE)
  BY DEF ConnectionFails
<1>2. Translated("network_error") = "download_failed"
  BY DEF Translated
<1>. QED
  BY <1>1, <1>2, ErrorKeeps

\* A redirect starts the checks again.
LEMMA RedirectedKeeps ==
    ASSUME DownloadInv, NEW hasTarget \in BOOLEAN, NEW location \in Locations,
           Redirected(hasTarget, location)
    PROVE  DownloadInv'
<1>1. CASE ~ hasTarget \/ fetch.hop = MaxRedirects
  BY <1>1, ErrorKeeps DEF Redirected
<1>2. CASE hasTarget /\ fetch.hop # MaxRedirects
  <2>1. fetch' = [fetch EXCEPT !.at = "validating", !.hop = fetch.hop + 1,
                               !.location = location, !.checked = {}]
    BY <1>2 DEF Redirected
  <2>2. fetch.hop \in Nat /\ fetch.hop < MaxRedirects /\ fetch.hop + 1 \in 0 .. MaxRedirects
    <3>1. fetch.hop \in 0 .. MaxRedirects
      BY DEF DownloadInv, DownloadTypeOK
    <3>. QED
      BY <1>2, <3>1, DownloadAssumption
  <2>3. DownloadTypeOK'
    BY <2>1, <2>2 DEF DownloadInv, DownloadTypeOK, FetchPlaces
  <2>4. Confined'
    BY <2>1, <2>2, DownloadAssumption DEF DownloadInv, DownloadTypeOK, Confined
  <2>. QED
    BY <2>3, <2>4 DEF DownloadInv
<1>. QED
  BY <1>1, <1>2

\* A length that is declared beyond the limit ends the download.
LEMMA DeclaredTooLargeKeeps == ASSUME DownloadInv, DeclaredTooLarge PROVE DownloadInv'
BY ErrorKeeps DEF DeclaredTooLarge

\* A chunk is kept while the body is within the limit.
LEMMA ReceiveChunkKeeps == ASSUME DownloadInv, ReceiveChunk PROVE DownloadInv'
<1>1. fetch.at = "reading" /\ fetch.units \in Nat /\ fetch.units <= MaxOutput
  BY DownloadAssumption DEF DownloadInv, DownloadTypeOK, Confined, ReceiveChunk
<1>2. CASE fetch.units + 1 > MaxOutput
  <2>1. fetch' = [DownloadError("too_large", FALSE) EXCEPT !.units = fetch.units + 1]
    BY <1>2 DEF ReceiveChunk, DownloadError, DownloadInv, DownloadTypeOK
  <2>2. fetch' = [fetch EXCEPT !.at = "failed", !.code = "output_too_large",
                               !.retryable = FALSE, !.units = fetch.units + 1]
    BY <2>1 DEF DownloadError, Translated, DownloadInv, DownloadTypeOK
  <2>3. DownloadTypeOK'
    <3>1. fetch.units + 1 \in 0 .. MaxOutput + 1
      BY <1>1, DownloadAssumption
    <3>. QED
      BY <2>2, <3>1 DEF DownloadInv, DownloadTypeOK, FetchPlaces, StoreCodes
  <2>4. Confined'
    BY <2>2 DEF DownloadInv, DownloadTypeOK, Confined
  <2>. QED
    BY <2>3, <2>4 DEF DownloadInv
<1>3. CASE ~ (fetch.units + 1 > MaxOutput)
  <2>1. fetch' = [fetch EXCEPT !.units = fetch.units + 1]
    BY <1>3 DEF ReceiveChunk
  <2>2. DownloadTypeOK'
    BY <1>1, <2>1, DownloadAssumption DEF DownloadInv, DownloadTypeOK
  <2>3. Confined'
    BY <1>1, <1>3, <2>1, DownloadAssumption
       DEF DownloadInv, DownloadTypeOK, Confined, HopIsChecked
  <2>. QED
    BY <2>2, <2>3 DEF DownloadInv
<1>. QED
  BY <1>2, <1>3

\* Only a success goes on to the store.
LEMMA BodyEndsKeeps ==
    ASSUME DownloadInv, NEW s \in ResponseStatuses, BodyEnds(s)
    PROVE  DownloadInv'
<1>1. CASE s = "ok"
  <2>1. fetch.at = "reading" /\ fetch' = [fetch EXCEPT !.at = "storing", !.status = "ok"]
    BY <1>1 DEF BodyEnds, DownloadInv, DownloadTypeOK
  <2>2. DownloadTypeOK'
    BY <2>1 DEF DownloadInv, DownloadTypeOK, FetchPlaces, ResponseStatuses
  <2>3. Confined'
    BY <2>1 DEF DownloadInv, DownloadTypeOK, Confined, HopIsChecked
  <2>. QED
    BY <2>2, <2>3 DEF DownloadInv
<1>2. CASE s # "ok"
  <2>1. PICK code \in {"source_expired", "http_error"}, retryable \in BOOLEAN :
          fetch' = [DownloadError(code, retryable) EXCEPT !.status = s]
    BY <1>2 DEF BodyEnds
  <2>2. Translated(code) \in {"source_expired", "download_failed"}
    BY <2>1 DEF Translated
  <2>3. fetch' = [fetch EXCEPT !.at = "failed", !.code = Translated(code),
                               !.retryable = retryable, !.status = s]
    BY <2>1 DEF DownloadError, DownloadInv, DownloadTypeOK
  <2>4. DownloadTypeOK'
    BY <2>2, <2>3 DEF DownloadInv, DownloadTypeOK, FetchPlaces, StoreCodes
  <2>5. Confined'
    BY <2>2, <2>3 DEF DownloadInv, DownloadTypeOK, Confined
  <2>. QED
    BY <2>4, <2>5 DEF DownloadInv
<1>. QED
  BY <1>1, <1>2

\* What is stored is whole.
LEMMA StoreKeeps == ASSUME DownloadInv, Store PROVE DownloadInv'
BY DEF DownloadInv, DownloadTypeOK, Confined, HopIsChecked, Store, FetchPlaces, StoreCodes

\* The inductive step, one case per action.
LEMMA DownloadInvNext == DownloadInv /\ [DownloadNext]_fetch => DownloadInv'
<1>. SUFFICES ASSUME DownloadInv, [DownloadNext]_fetch PROVE DownloadInv'
  OBVIOUS
<1>1. CASE UNCHANGED fetch
  BY <1>1 DEF DownloadInv, DownloadTypeOK, Confined, HopIsChecked
<1>. QED
  BY <1>1, BeginDownloadKeeps, ValidateHopKeeps, ConnectKeeps, ConnectionFailsKeeps,
     RedirectedKeeps, DeclaredTooLargeKeeps, ReceiveChunkKeeps, BodyEndsKeeps, StoreKeeps
     DEF DownloadNext

-----------------------------------------------------------------------------
\* The strengthening that the promise rests on.
LEMMA DownloadInvCorrect == DownloadSpec => []DownloadInv
BY DownloadInvInit, DownloadInvNext, PTL DEF DownloadSpec

\* Whatever a resolver answers and wherever a host redirects to, only checked,
\* public addresses of trusted hosts are spoken to, at most once a hop, and only
\* the whole body of a success within the limit is stored (SafeDownloader).
THEOREM DownloadCorrect == DownloadSpec => []DownloadIsConfined
<1>1. DownloadInv => DownloadIsConfined
  BY DEF DownloadInv, Confined, HopIsChecked, DownloadIsConfined
<1>. QED
  BY <1>1, DownloadInvCorrect, PTL

-----------------------------------------------------------------------------
(***************************************************************************)
(* Batches of variations.                                                  *)
(*                                                                         *)
(* A summary is complete because every variation that is over has its own  *)
(* entry, whatever ended it.  The limiter's count is that of the variations*)
(* inside it, which bounds how many run.                                   *)
(***************************************************************************)

Holders == {i \in Indexes : place[i] \in Holding}

BatchTypes ==
    /\ batchAt \in {"idle", "running", "over", "cancelled"}
    /\ product \in Products
    /\ limiter \in Nat
    /\ place \in [Indexes -> VariationPlaces]
    /\ entry \in [Indexes -> Entries]
    /\ executed \subseteq Indexes

\* An entry is at its index and what produced something was executed.
EntriesAgree ==
    \A i \in Indexes :
        /\ entry[i].index = i
        /\ entry[i].produced \/ place[i] = "persisting" => i \in executed

\* A permit is held or left.
LimiterAgrees == limiter + Cardinality(Holders) = MaxConcurrent

BatchInv == BatchTypes /\ EntriesAgree /\ LimiterAgrees /\ SummaryIsComplete

\* There are finitely many variations.
LEMMA IndexesFinite == IsFiniteSet(Indexes)
BY FS_Interval, BatchAssumption DEF Indexes

\* What each kind of entry says of its variation.
LEMMA EntryTypes ==
    ASSUME NEW i \in Indexes, NEW code \in FailureCodes, NEW ambiguous \in BOOLEAN
    PROVE  /\ {Produced(i), Nothing(i), Failure(i, code, ambiguous)} \subseteq Entries
           /\ Produced(i).index = i /\ Nothing(i).index = i
           /\ Failure(i, code, ambiguous).index = i
           /\ ~ Nothing(i).produced /\ ~ Failure(i, code, ambiguous).produced
<1> DEFINE Codes == FailureCodes \cup {""}
<1>1. "" \in Codes /\ code \in Codes /\ Entries = [index : Indexes, produced : BOOLEAN, code : Codes, ambiguous : BOOLEAN]
    BY DEF Entries
<1> HIDE DEF Codes
<1>2. Produced(i) \in Entries /\ Produced(i).index = i
    BY <1>1 DEF Produced
<1>3. Nothing(i) \in Entries /\ Nothing(i).index = i /\ ~ Nothing(i).produced
    BY <1>1 DEF Nothing
<1>4. /\ Failure(i, code, ambiguous) \in Entries /\ Failure(i, code, ambiguous).index = i
      /\ ~ Failure(i, code, ambiguous).produced
    BY <1>1 DEF Failure
<1> QED BY <1>2, <1>3, <1>4

\* No batch has begun.
LEMMA BatchInitially == BatchInit => BatchInv
<1> SUFFICES ASSUME BatchInit PROVE BatchInv
    OBVIOUS
<1>1. BatchTypes /\ EntriesAgree
    <2>1. \A i \in Indexes : Nothing(i) \in Entries /\ Nothing(i).index = i /\ ~ Nothing(i).produced
        BY EntryTypes DEF FailureCodes
    <2> QED BY <2>1, BatchAssumption DEF BatchInit, BatchTypes, EntriesAgree, VariationPlaces, Products
<1>2. Holders = {}
    BY DEF BatchInit, Holders, Holding
<1>3. LimiterAgrees /\ SummaryIsComplete
    BY <1>2, FS_EmptySet, BatchAssumption DEF BatchInit, LimiterAgrees, SummaryIsComplete
<1> QED BY <1>1, <1>3 DEF BatchInv

\* A variation that takes a permit, keeps it, or gives it back.
LEMMA HoldersMove ==
    ASSUME BatchInv, NEW i \in Indexes, NEW there \in VariationPlaces,
           place' = [place EXCEPT ![i] = there]
    PROVE  /\ place' \in [Indexes -> VariationPlaces] /\ place'[i] = there
           /\ \A j \in Indexes : j # i => place'[j] = place[j]
           /\ Cardinality(Holders) \in Nat
           /\ Cardinality(Holders') =
                 IF (place[i] \in Holding) <=> (there \in Holding) THEN Cardinality(Holders)
                 ELSE IF there \in Holding THEN Cardinality(Holders) + 1
                 ELSE Cardinality(Holders) - 1
<1>1. /\ place' \in [Indexes -> VariationPlaces] /\ place'[i] = there
      /\ \A j \in Indexes : j # i => place'[j] = place[j]
    BY DEF BatchInv, BatchTypes
<1>2. IsFiniteSet(Holders) /\ Cardinality(Holders) \in Nat
    BY IndexesFinite, FS_Subset, FS_CardinalityType DEF Holders
<1>3. CASE (place[i] \in Holding) <=> (there \in Holding)
    <2>1. Holders' = Holders
        BY <1>1, <1>3 DEF Holders
    <2> QED BY <1>1, <1>2, <1>3, <2>1
<1>4. CASE place[i] \notin Holding /\ there \in Holding
    <2>1. Holders' = Holders \cup {i} /\ i \notin Holders
        BY <1>1, <1>4 DEF Holders
    <2> QED BY <1>1, <1>2, <1>4, <2>1, FS_AddElement
<1>5. CASE place[i] \in Holding /\ there \notin Holding
    <2>1. Holders' = Holders \ {i} /\ i \in Holders
        BY <1>1, <1>5 DEF Holders
    <2> QED BY <1>1, <1>2, <1>5, <2>1, FS_RemoveElement
<1> QED BY <1>3, <1>4, <1>5

\* The batch goes on while one variation ends with an entry that says no more
\* than the provider did.
LEMMA EndWithKeeps ==
    ASSUME BatchInv, NEW i \in Indexes, NEW e \in Entries, EndWith(i, e),
           place[i] # "over", e.index = i, e.produced => i \in executed,
           batchAt = "running", UNCHANGED <<product, batchAt, summary>>,
           executed' \in {executed, executed \cup {i}}
    PROVE  BatchInv'
<1>1. /\ place' = [place EXCEPT ![i] = "over"] /\ entry' = [entry EXCEPT ![i] = e]
      /\ limiter' = IF place[i] \in Holding THEN limiter + 1 ELSE limiter
    BY DEF EndWith
<1>2. BatchTypes /\ EntriesAgree /\ LimiterAgrees
    BY DEF BatchInv
<1>3. /\ place' \in [Indexes -> VariationPlaces] /\ place'[i] = "over"
      /\ \A j \in Indexes : j # i => place'[j] = place[j]
      /\ Cardinality(Holders) \in Nat
      /\ Cardinality(Holders') = IF place[i] \in Holding THEN Cardinality(Holders) - 1
                                 ELSE Cardinality(Holders)
    BY <1>1, HoldersMove DEF VariationPlaces, Holding
<1>4. BatchTypes'
    BY <1>1, <1>2, <1>3 DEF BatchTypes
<1>5. EntriesAgree'
    BY <1>1, <1>2, <1>3 DEF BatchTypes, EntriesAgree
<1>6. LimiterAgrees'
    BY <1>1, <1>2, <1>3, BatchAssumption DEF BatchTypes, LimiterAgrees
<1> QED BY <1>4, <1>5, <1>6 DEF BatchInv, SummaryIsComplete

\* A variation that begins, or whose request was executed.
LEMMA ProceedKeeps ==
    ASSUME BatchInv, NEW i \in Indexes, BeginVariation(i) \/ VariationSucceeds(i)
    PROVE  BatchInv'
<1> USE DEF BatchInv, BatchTypes
<1>1. /\ batchAt = "running" /\ UNCHANGED <<product, batchAt, entry, summary>>
      /\ \E there \in {"calling", "persisting"} :
            /\ place' = [place EXCEPT ![i] = there]
            /\ IF there = "calling"
               THEN place[i] \notin Holding /\ limiter > 0 /\ limiter' = limiter - 1 /\ executed' = executed
               ELSE place[i] \in Holding /\ limiter' = limiter /\ executed' = executed \cup {i}
    BY DEF BeginVariation, VariationSucceeds, Holding
<1>2. PICK there \in {"calling", "persisting"} :
            /\ place' = [place EXCEPT ![i] = there]
            /\ IF there = "calling"
               THEN place[i] \notin Holding /\ limiter > 0 /\ limiter' = limiter - 1 /\ executed' = executed
               ELSE place[i] \in Holding /\ limiter' = limiter /\ executed' = executed \cup {i}
    BY <1>1
<1>3. /\ place' \in [Indexes -> VariationPlaces] /\ place'[i] = there
      /\ \A j \in Indexes : j # i => place'[j] = place[j]
      /\ Cardinality(Holders) \in Nat
      /\ Cardinality(Holders') = IF there = "calling" THEN Cardinality(Holders) + 1
                                 ELSE Cardinality(Holders)
    BY <1>2, HoldersMove DEF VariationPlaces, Holding
<1>4. BatchTypes'
    BY <1>1, <1>2, <1>3
<1>5. EntriesAgree'
    BY <1>1, <1>2, <1>3 DEF EntriesAgree
<1>6. LimiterAgrees'
    BY <1>1, <1>2, <1>3, BatchAssumption DEF LimiterAgrees
<1> QED BY <1>1, <1>4, <1>5, <1>6 DEF SummaryIsComplete

\* How the end of a variation comes about.
LEMMA EndsProperly ==
    ASSUME BatchInv, NEW i \in Indexes, VariationFails(i) \/ Persist(i) \/ TimeOut(i)
    PROVE  BatchInv'
<1>1. CASE VariationFails(i)
    <2>1. PICK ambiguous \in BOOLEAN :
              /\ EndWith(i, Failure(i, "PROVIDER_ERROR", ambiguous))
              /\ executed' \in IF ambiguous THEN {executed, executed \cup {i}} ELSE {executed}
        BY <1>1 DEF VariationFails
    <2>2. /\ place[i] = "calling" /\ batchAt = "running" /\ UNCHANGED <<product, batchAt, summary>>
          /\ executed' \in {executed, executed \cup {i}}
        BY <1>1, <2>1 DEF VariationFails
    <2>3. LET e == Failure(i, "PROVIDER_ERROR", ambiguous)
          IN  e \in Entries /\ e.index = i /\ ~ e.produced
        BY EntryTypes DEF FailureCodes
    <2> QED BY <2>1, <2>2, <2>3, EndWithKeeps
<1>2. CASE Persist(i)
    <2>1. /\ place[i] = "persisting" /\ batchAt = "running"
          /\ UNCHANGED <<product, batchAt, executed, summary>> /\ i \in executed
        BY <1>2 DEF Persist, BatchInv, EntriesAgree
    <2>2. PICK e \in {Produced(i), Nothing(i), Failure(i, "UNEXPECTED_ERROR", FALSE)} : EndWith(i, e)
        BY <1>2 DEF Persist, TaskEntries, ImageEntries, AudioEntries
    <2>3. e \in Entries /\ e.index = i
        BY <2>2, EntryTypes DEF FailureCodes
    <2> QED BY <2>1, <2>2, <2>3, EndWithKeeps
<1>3. CASE TimeOut(i)
    <2>1. /\ place[i] # "over" /\ batchAt = "running" /\ UNCHANGED <<product, batchAt, summary>>
          /\ executed' \in {executed, executed \cup {i}} /\ EndWith(i, TimeoutEntry(i))
        BY <1>3 DEF TimeOut
    <2>2. TimeoutEntry(i) \in Entries /\ TimeoutEntry(i).index = i /\ ~ TimeoutEntry(i).produced
        BY EntryTypes DEF FailureCodes, TimeoutEntry
    <2> QED BY <2>1, <2>2, EndWithKeeps
<1> QED BY <1>1, <1>2, <1>3

\* What the summary counts as produced is at most what was executed.
LEMMA ProducedAreExecuted ==
    ASSUME BatchInv
    PROVE  Cardinality({n \in DOMAIN Results : Results[n].produced}) <= Cardinality(executed)
<1> DEFINE P == {n \in DOMAIN Results : Results[n].produced}
           f == [n \in P |-> n - 1]
<1>1. P \subseteq 1 .. Count /\ \A n \in P : n - 1 \in executed
    BY BatchAssumption DEF Results, Indexes, BatchInv, EntriesAgree
<1>2. f \in Injection(P, executed)
    BY <1>1, BatchAssumption DEF Injection, IsInjective
<1>3. IsFiniteSet(executed)
    BY IndexesFinite, FS_Subset DEF BatchInv, BatchTypes
<1> QED BY <1>2, <1>3, FS_Injection

\* The summary is made of the entries.
LEMMA SummariseKeeps == ASSUME BatchInv, Summarise PROVE BatchInv'
<1>1. /\ summary' = [total |-> Count,
                     succeeded |-> Cardinality({n \in DOMAIN Results : Results[n].produced}),
                     variations |-> Results]
      /\ batchAt' = "over" /\ UNCHANGED <<product, limiter, place, entry, executed>>
    BY DEF Summarise
<1>2. /\ DOMAIN Results = 1 .. Count /\ Len(Results) = Count
      /\ \A n \in 1 .. Count : /\ Results[n].index = n - 1
                               /\ Results[n].produced => n - 1 \in executed
    BY BatchAssumption DEF Results, Indexes, BatchInv, BatchTypes, EntriesAgree
<1>3. SummaryIsComplete'
    BY <1>1, <1>2, ProducedAreExecuted DEF SummaryIsComplete
<1> QED BY <1>1, <1>3 DEF BatchInv, BatchTypes, EntriesAgree, LimiterAgrees, Holders

\* The inductive step.
LEMMA BatchInductive == ASSUME BatchInv, [BatchNext]_batchVars PROVE BatchInv'
<1>1. CASE \/ \E p \in Products : StartBatch(p)
           \/ TimePasses \/ UNCHANGED batchVars
    <2>1. /\ UNCHANGED <<limiter, place, entry, executed, summary>>
          /\ product' \in Products /\ batchAt' \in {"idle", "running", "over", "cancelled"}
          /\ batchAt' = "over" => batchAt = "over"
        BY <1>1 DEF StartBatch, TimePasses, batchVars, BatchInv, BatchTypes
    <2> QED BY <2>1 DEF BatchInv, BatchTypes, EntriesAgree, LimiterAgrees, Holders, SummaryIsComplete
<1>2. CASE CancelBatch
    <2>1. /\ UNCHANGED <<product, limiter, place, entry, summary>> /\ batchAt' = "cancelled"
          /\ executed \subseteq executed' /\ executed' \subseteq Indexes
        BY <1>2 DEF CancelBatch, BatchInv, BatchTypes
    <2> QED BY <2>1 DEF BatchInv, BatchTypes, EntriesAgree, LimiterAgrees, Holders, SummaryIsComplete
<1> QED BY <1>1, <1>2, ProceedKeeps, EndsProperly, SummariseKeeps DEF BatchNext

\* A batch keeps its invariant.
LEMMA BatchCorrect == BatchSpec => []BatchInv
BY BatchInitially, BatchInductive, PTL DEF BatchSpec

\* The answer's types.
SummaryTyped ==
    /\ timeUp \in BOOLEAN
    /\ summary.total \in {0, Count} /\ summary.succeeded \in 0 .. Count
    /\ summary.variations \in Seq(Entries)

\* The types of a batch, after every step.
LEMMA SummaryTypedInductive ==
    ASSUME BatchInv, SummaryTyped, [BatchNext]_batchVars PROVE SummaryTyped'
<1>1. CASE Summarise
    <2> DEFINE P == {n \in DOMAIN Results : Results[n].produced}
    <2>1. /\ summary' = [total |-> Count, succeeded |-> Cardinality(P), variations |-> Results]
          /\ timeUp' = timeUp
        BY <1>1 DEF Summarise
    <2>2. \A n \in 1 .. Count : entry[n - 1] \in Entries
        BY BatchAssumption DEF BatchInv, BatchTypes, Indexes
    <2>3. Results \in Seq(Entries)
        BY <2>2, BatchAssumption DEF Results
    <2>4. Cardinality(P) \in Nat /\ Cardinality(P) <= Count
        <3>1. IsFiniteSet(1 .. Count) /\ Cardinality(1 .. Count) = Count
            BY FS_Interval, BatchAssumption
        <3>2. P \subseteq 1 .. Count
            BY DEF Results
        <3> QED BY <3>1, <3>2, FS_Subset, FS_CardinalityType
    <2> QED BY <2>1, <2>3, <2>4, BatchAssumption DEF SummaryTyped
<1>2. CASE UNCHANGED summary /\ timeUp' \in BOOLEAN
    BY <1>2 DEF SummaryTyped
<1>3. CASE UNCHANGED batchVars
    BY <1>2, <1>3 DEF batchVars, SummaryTyped
<1>4. ASSUME NEW i \in Indexes, BeginVariation(i) \/ VariationSucceeds(i) \/ VariationFails(i)
                                    \/ Persist(i) \/ TimeOut(i)
      PROVE  UNCHANGED <<summary, timeUp>>
    BY <1>4 DEF BeginVariation, VariationSucceeds, VariationFails, Persist, TimeOut
<1>5. ASSUME (\E p \in Products : StartBatch(p)) \/ TimePasses \/ CancelBatch
      PROVE  UNCHANGED summary /\ timeUp' \in {timeUp, TRUE}
    BY <1>5 DEF StartBatch, TimePasses, CancelBatch
<1> QED BY <1>1, <1>2, <1>3, <1>4, <1>5 DEF BatchNext, SummaryTyped

\* The batch has its types: permits come back no more often than they were
\* taken, and the summary counts no more successes than variations.
LEMMA BatchTypeCorrect == BatchSpec => []BatchTypeOK
<1>1. BatchInit => SummaryTyped
    <2>1. <<>> \in Seq(Entries) /\ 0 \in 0 .. Count
        BY BatchAssumption
    <2>2. ASSUME BatchInit
          PROVE  /\ summary.total = 0 /\ summary.succeeded = 0 /\ summary.variations = <<>>
                 /\ timeUp = FALSE
        BY <2>2 DEF BatchInit
    <2> QED BY <2>1, <2>2 DEF SummaryTyped
<1>2. BatchInv /\ SummaryTyped => BatchTypeOK
    <2>1. IsFiniteSet(Holders) /\ Cardinality(Holders) \in Nat
        BY IndexesFinite, FS_Subset, FS_CardinalityType DEF Holders
    <2>2. BatchInv => limiter \in 0 .. MaxConcurrent
        BY <2>1, BatchAssumption DEF BatchInv, BatchTypes, LimiterAgrees
    <2> QED BY <2>2 DEF BatchInv, BatchTypes, SummaryTyped, BatchTypeOK
<1> QED BY <1>1, <1>2, SummaryTypedInductive, BatchInitially, BatchInductive, PTL DEF BatchSpec

\* For any number of variations, however they end and in whatever order: the
\* summary has each at its index and claims no more than was executed.
THEOREM SummaryCorrect == BatchSpec => []SummaryIsComplete
<1>1. BatchInv => SummaryIsComplete
    BY DEF BatchInv
<1> QED BY <1>1, BatchCorrect, PTL

\* Never more variations are with the provider or storing than the batch's
\* semaphore has permits, timeouts and failures included.
THEOREM BatchWithinLimit == BatchSpec => [](Cardinality(Holders) <= MaxConcurrent)
<1>1. BatchInv => Cardinality(Holders) <= MaxConcurrent
    <2>1. IsFiniteSet(Holders) /\ Cardinality(Holders) \in Nat
        BY IndexesFinite, FS_Subset, FS_CardinalityType DEF Holders
    <2> QED BY <2>1, BatchAssumption DEF BatchInv, BatchTypes, LimiterAgrees
<1> QED BY <1>1, BatchCorrect, PTL

-----------------------------------------------------------------------------
(***************************************************************************)
(* The poll of a VOD task.                                                 *)
(***************************************************************************)

PollFields == {"at", "kind", "persist", "attempts", "body", "task", "output"}

\* A parsed poll has the task of a body that its kind of service accepts, its
\* URL there when the provider has finished.
ParsedIsNormalised ==
    poll.at = "parsed" =>
        /\ poll.body.status \in {"completed", "failed", "running", "processing"}
        /\ poll.task = Normalised(poll.body)
        /\ poll.body.status = "completed" => poll.task.url

VodInv ==
    /\ poll = [f \in PollFields |-> poll[f]]
    /\ poll.kind \in Kinds
    /\ ParsedIsNormalised /\ VodStateIsReported

\* No task model refuses what its service accepts.
LEMMA AcceptedIsValid ==
    ASSUME NEW kind \in Kinds, NEW b \in Bodies, Parses(kind, b), Accepts(kind, b)
    PROVE  /\ ValidTask(kind, Normalised(b))
           /\ b.status \in {"completed", "failed", "running", "processing"}
           /\ b.status = "completed" => Normalised(b).url
<1>1. b.result \in {"none", "empty", "urls"} /\ b.detail \in {"none", "blank", "text"}
    BY DEF Bodies
<1>2. b.status \in {"completed", "failed", "running", "processing"}
    BY DEF Accepts, EnhancementAccepts, TranscodeAccepts, SeparationAccepts, SubtitleAccepts
<1>3. b.status = "completed" => b.result = "urls"
    BY <1>1 DEF Parses, EnhancementParses, TranscodeParses, SeparationParses, SubtitleParses,
                Accepts, EnhancementAccepts, TranscodeAccepts, SeparationAccepts, SubtitleAccepts
<1>4. /\ Normalised(b).status = (IF b.status = "completed" THEN "succeeded"
                                 ELSE IF b.status = "failed" THEN "failed" ELSE "processing")
      /\ Normalised(b).url <=> b.status = "completed"
      /\ Normalised(b).failure <=> b.status = "failed"
    BY <1>3 DEF Normalised, Task, Sanitized
<1>5. ValidTask(kind, Normalised(b))
    BY <1>4 DEF Kinds, ValidTask, ValidEnhancementTask, ValidTranscodeTask, ValidSeparateVoiceTask,
                ValidSubtitleTask
<1> QED BY <1>2, <1>3, <1>4, <1>5

\* No output model refuses what a tool makes of a task.
LEMMA AnswerIsValid ==
    ASSUME NEW kind \in Kinds
    PROVE  /\ \A outcome \in {"persisted", "failed", "not_requested"} :
                 ValidOutput(kind, Output("succeeded", TRUE, outcome, FALSE))
           /\ ValidOutput(kind, Output("failed", FALSE, "not_applicable", TRUE))
           /\ ValidOutput(kind, Output("processing", FALSE, "not_applicable", FALSE))
BY DEF ValidOutput, ValidVideoOutput, ValidSeparationOutput, ValidTrack, Output

\* Nothing has been polled.
LEMMA VodInitially == VodInit => VodInv
BY DEF VodInit, VodInv, PollFields, Kinds, ParsedIsNormalised, VodStateIsReported

\* The inductive step, one case per action.
LEMMA VodStepKeeps ==
    ASSUME VodInv, [VodNext]_poll
    PROVE  VodInv'
<1> USE DEF VodInv
<1>1. ASSUME NEW kind \in Kinds, NEW persist \in BOOLEAN, Poll(kind, persist) PROVE VodInv'
    BY <1>1 DEF Poll, PollFields, ParsedIsNormalised, VodStateIsReported
<1>2. ASSUME NEW failure \in Failures, PollFails(failure) PROVE VodInv'
    BY <1>2 DEF PollFails, PollFields, ParsedIsNormalised, VodStateIsReported
<1>3. ASSUME NEW b \in Bodies, Receive(b) PROVE VodInv'
    <2>1. CASE Parses(poll.kind, b) /\ Accepts(poll.kind, b)
        <3>1. /\ ValidTask(poll.kind, Normalised(b))
              /\ b.status \in {"completed", "failed", "running", "processing"}
              /\ b.status = "completed" => Normalised(b).url
            BY <2>1, AcceptedIsValid
        <3>2. poll' = [poll EXCEPT !.body = b, !.task = Normalised(b), !.at = "parsed"]
            BY <1>3, <2>1, <3>1 DEF Receive
        <3> QED BY <3>1, <3>2 DEF PollFields, ParsedIsNormalised, VodStateIsReported
    <2>2. CASE ~ (Parses(poll.kind, b) /\ Accepts(poll.kind, b))
        BY <1>3, <2>2 DEF Receive, PollFields, ParsedIsNormalised, VodStateIsReported
    <2> QED BY <2>1, <2>2
<1>4. CASE AnswerSucceeded
    <2>1. /\ poll.body.status = "completed" /\ poll.task.url = TRUE
        BY <1>4 DEF AnswerSucceeded, ParsedIsNormalised, Normalised, Task
    <2>2. PICK outcome \in {"persisted", "failed", "not_requested"} :
              AnswerWith(Output("succeeded", TRUE, outcome, FALSE))
        BY <1>4, <2>1 DEF AnswerSucceeded
    <2> DEFINE o == Output("succeeded", TRUE, outcome, FALSE)
    <2>3. o.status = "succeeded" /\ o.source /\ ~ o.error
        BY DEF Output
    <2>4. poll' = [poll EXCEPT !.output = o, !.at = "answered"]
        BY <2>2, AnswerIsValid DEF AnswerWith
    <2> HIDE DEF o
    <2> QED BY <2>1, <2>3, <2>4 DEF PollFields, ParsedIsNormalised, VodStateIsReported
<1>5. CASE CacheFails
    BY <1>5 DEF CacheFails, PollFields, ParsedIsNormalised, VodStateIsReported
<1>6. CASE AnswerUnfinished
    <2> DEFINE o == Output(poll.task.status, FALSE, "not_applicable", poll.task.status = "failed")
    <2>1. /\ poll.body.status # "completed" /\ poll.task.status \in {"failed", "processing"}
          /\ (poll.task.status = "failed") <=> (poll.body.status = "failed")
        BY <1>6 DEF AnswerUnfinished, ParsedIsNormalised, Normalised, Task
    <2>2. ValidOutput(poll.kind, o)
        <3>1. CASE poll.task.status = "failed"
            <4>1. (poll.task.status = "failed") = TRUE
                BY <3>1
            <4> QED BY <3>1, <4>1, AnswerIsValid
        <3>2. CASE poll.task.status = "processing"
            <4>1. (poll.task.status = "failed") = FALSE
                BY <3>2
            <4> QED BY <3>2, <4>1, AnswerIsValid
        <3> QED BY <2>1, <3>1, <3>2
    <2>3. o.status = poll.task.status /\ ~ o.source /\ (o.error <=> poll.task.status = "failed")
        BY DEF Output
    <2>4. poll' = [poll EXCEPT !.output = o, !.at = "answered"]
        BY <1>6, <2>2 DEF AnswerUnfinished, AnswerWith
    <2> HIDE DEF o
    <2> QED BY <2>1, <2>3, <2>4 DEF PollFields, ParsedIsNormalised, VodStateIsReported
<1>7. CASE UNCHANGED poll
    BY <1>7 DEF ParsedIsNormalised, VodStateIsReported
<1> QED BY <1>1, <1>2, <1>3, <1>4, <1>5, <1>6, <1>7 DEF VodNext

\* The poll has its types: it is attempted no more often than the policy says.
LEMMA VodTypeCorrect == VodSpec => []VodTypeOK
<1>1. VodInit => VodTypeOK
    BY PollAssumption DEF VodInit, VodTypeOK, PollPlaces, Kinds, NoBody, Bodies
<1>2. ASSUME VodInv, VodTypeOK, [VodNext]_poll PROVE VodTypeOK'
    <2> USE DEF VodInv
    <2>1. ASSUME NEW kind \in Kinds, NEW persist \in BOOLEAN, Poll(kind, persist) PROVE VodTypeOK'
        BY <1>2, <2>1, PollAssumption DEF Poll, PollFields, VodTypeOK, PollPlaces
    <2>2. ASSUME NEW failure \in Failures, PollFails(failure) PROVE VodTypeOK'
        <3>1. CASE poll.attempts < MaxPollAttempts /\ poll' = [poll EXCEPT !.attempts = @ + 1]
            BY <1>2, <3>1, PollAssumption DEF PollFields, VodTypeOK
        <3>2. CASE poll' = [poll EXCEPT !.at = "error"]
            BY <1>2, <3>2 DEF PollFields, VodTypeOK, PollPlaces
        <3> QED BY <2>2, <3>1, <3>2 DEF PollFails
    <2>3. ASSUME NEW b \in Bodies, Receive(b) PROVE VodTypeOK'
        BY <1>2, <2>3 DEF Receive, PollFields, VodTypeOK, PollPlaces
    <2>4. CASE AnswerSucceeded \/ CacheFails \/ AnswerUnfinished
        BY <1>2, <2>4 DEF AnswerSucceeded, CacheFails, AnswerUnfinished, AnswerWith, PollFields,
                          VodTypeOK, PollPlaces
    <2>5. CASE UNCHANGED poll
        BY <1>2, <2>5 DEF VodTypeOK
    <2> QED BY <1>2, <2>1, <2>2, <2>3, <2>4, <2>5 DEF VodNext
<1> QED BY <1>1, <1>2, VodInitially, VodStepKeeps, PTL DEF VodSpec

\* Whatever body the provider sends to a vod_get_* tool, no later model refuses
\* what an earlier layer let through and the answer says what the provider said.
THEOREM VodCorrect == VodSpec => []VodStateIsReported
<1>1. VodInv => VodStateIsReported
    BY DEF VodInv
<1> QED BY <1>1, VodInitially, VodStepKeeps, PTL DEF VodSpec

-----------------------------------------------------------------------------
(***************************************************************************)
(* What a tool makes of a success.                                         *)
(*                                                                         *)
(* A success is charged before the tool looks at it, and stays charged.    *)
(* The caller is told of each item as the tool goes through the response:  *)
(* what was said of the items so far is an invariant of the loop, and at   *)
(* its end they are all the items.                                         *)
(***************************************************************************)

CallItems == Seq(Contents \cup {"task", "video", "text"})
CallRefs == Seq(Nat \X {"artifact", "url"})
CallRecords ==
    [tool : Tools, persist : BOOLEAN, at : CallPlaces, attempts : Nat, money : Money,
     items : CallItems, next : Nat \ {0}, refs : CallRefs, errors : SUBSET Nat,
     source : BOOLEAN, owned : BOOLEAN]

\* What an item of an image response gives the caller.
Useful(c, persist) == HasUrl(c) \/ (persist /\ HasData(c))

\* What an image is handed out as, and a sound.
ImageKind(persist) == IF persist THEN "artifact" ELSE "url"
SoundKind(c, persist) == IF persist /\ HasData(c) THEN "artifact" ELSE "url"

\* Before the provider's success there is nothing to hand out.
NothingYet ==
    call.at \in {"idle", "checking", "calling"} =>
        call.next = 1 /\ call.refs = <<>> /\ call.items = <<>>

\* What the items of a tool's success are.
ItemsFit ==
    /\ call.tool \in BilledTools => call.items \in Seq(Contents \cup {"text"})
    /\ call.items = <<"video">> => call.at \in {"handling", "answered", "cancelled"}

\* The images before the next one were handed out, in order, if they have what
\* the caller wants.
ImagesSoFar ==
    call.tool \in ImageTools /\ call.at \in {"handling", "answered"} =>
        /\ call.next <= Len(call.items) + 1
        /\ call.at = "answered" =>
              /\ call.next = Len(call.items) + 1
              /\ call.errors = {i \in 1 .. Len(call.items) : call.items[i] = "none"}
        /\ \A i \in 1 .. call.next - 1 :
              Useful(call.items[i], call.persist) => \E n \in DOMAIN call.refs : call.refs[n][1] = i
        /\ \A n \in DOMAIN call.refs :
              /\ call.refs[n][1] \in 1 .. call.next - 1
              /\ Useful(call.items[call.refs[n][1]], call.persist)
              /\ call.refs[n][2] = ImageKind(call.persist)
              /\ n > 1 => call.refs[n - 1][1] < call.refs[n][1]

\* The other tools hand out one thing.
OthersSoFar ==
    /\ call.tool = "seed_audio_generate" /\ call.at = "handling" => call.refs = <<>>
    /\ call.tool = "seed_audio_generate" /\ call.at = "answered" =>
          Len(call.refs) = 1 /\ call.refs[1][2] = SoundKind(call.items[1], call.persist)
    /\ call.at = "answered" /\ call.items = <<"task">> => call.owned
    /\ call.at = "answered" /\ call.items = <<"video">> => call.source

\* A success was charged, and whatever becomes of it the charge stays.
ChargedSoFar == call.tool \in BilledTools /\ call.items # <<>> => call.money = "committed"

ToolInv ==
    call \in CallRecords /\ NothingYet /\ ItemsFit /\ ImagesSoFar /\ OthersSoFar /\ ChargedSoFar

\* Items of different tools are told apart.
LEMMA ItemNames ==
    /\ <<"task">> # <<"video">> /\ <<"task">> # <<>> /\ <<"video">> # <<>>
    /\ \A s \in Seq(Contents \cup {"text"}) : s # <<"task">> /\ s # <<"video">>
<1>1. /\ <<"task">>[1] = "task" /\ <<"video">>[1] = "video" /\ Len(<<"task">>) = 1
      /\ Len(<<"video">>) = 1 /\ Len(<<>>) = 0
    OBVIOUS
<1>2. \A s \in Seq(Contents \cup {"text"}) : Len(s) = 1 => s[1] \in Contents \cup {"text"}
    OBVIOUS
<1>3. "task" \notin Contents \cup {"text"} /\ "video" \notin Contents \cup {"text"}
    BY DEF Contents
<1>4. \A s \in Seq(Contents \cup {"text"}) : s # <<"task">> /\ s # <<"video">>
    BY <1>1, <1>2, <1>3
<1> QED BY <1>1, <1>4

\* Every billed tool is a tool.
LEMMA ToolNames ==
    /\ {"seed_audio_generate", "seed_understand", "speech_to_text"} \subseteq BilledTools \ ImageTools
    /\ ImageTools \subseteq BilledTools /\ BilledTools \subseteq Tools
BY DEF ImageTools, SpeechTools, BilledTools, Tools

\* Nothing has been called.
LEMMA ToolInitially == ToolInit => ToolInv
<1> SUFFICES ASSUME ToolInit PROVE ToolInv
    OBVIOUS
<1>1. /\ call.tool = "seed_understand" /\ call.at = "idle" /\ call.items = <<>> /\ call.refs = <<>>
      /\ call.next = 1
    BY DEF ToolInit, NoCall
<1>2. call \in CallRecords
    <2>1. <<>> \in CallItems /\ <<>> \in CallRefs /\ {} \in SUBSET Nat /\ 1 \in Nat \ {0} /\ 0 \in Nat
        BY DEF CallItems, CallRefs
    <2>2. /\ "seed_understand" \in Tools /\ "idle" \in CallPlaces /\ "none" \in Money
        BY ToolNames DEF CallPlaces, Money
    <2> QED BY <2>1, <2>2 DEF ToolInit, NoCall, CallRecords
<1> QED BY <1>1, <1>2, ToolNames, ItemNames
       DEF ToolInv, NothingYet, ItemsFit, ImagesSoFar, OthersSoFar, ChargedSoFar

\* The bodies that ProviderSucceeds takes.
LEMMA ShapesFit ==
    ASSUME NEW t \in Tools, NEW items \in Shapes(t)
    PROVE  /\ items \in CallItems
           /\ t \in BilledTools => items \in Seq(Contents \cup {"text"})
<1>1. CASE t \in ImageTools
    <2>1. PICK n \in 0 .. MaxImages : items \in [1 .. n -> Contents]
        BY <1>1 DEF Shapes
    <2>2. items \in Seq(Contents)
        BY <2>1
    <2> QED BY <2>2 DEF CallItems
<1>2. CASE t \notin ImageTools /\ t \in BilledTools
    <2>1. PICK c \in Contents \cup {"text"} : items = <<c>>
        BY <1>2 DEF Shapes, BilledTools, SpeechTools, SubmitTools, SubtitleTools
    <2>2. items \in Seq(Contents \cup {"text"})
        BY <2>1
    <2>3. <<c>> \in Seq(Contents \cup {"task", "video", "text"})
        OBVIOUS
    <2> QED BY <2>1, <2>2, <2>3 DEF CallItems
<1>3. CASE t \notin ImageTools /\ t \notin BilledTools
    <2>1. PICK c \in {"task", "video"} : items = <<c>>
        BY <1>3 DEF Shapes, Tools, BilledTools, SpeechTools
    <2>2. <<c>> \in Seq(Contents \cup {"task", "video", "text"})
        OBVIOUS
    <2> QED BY <1>3, <2>1, <2>2 DEF CallItems
<1> QED BY <1>1, <1>2, <1>3

\* A call that moves before the provider's success, or to an end that answers
\* nothing.
LEMMA AsideKeeps ==
    ASSUME ToolInv, call' \in CallRecords,
           call'.tool = call.tool \/ call.at = "idle",
           call'.items = call.items, call'.next = call.next, call'.refs = call.refs,
           call'.at \notin {"handling", "answered"},
           call'.at \in {"idle", "checking", "calling"} => call.at \in {"idle", "checking", "calling"},
           call'.at = "cancelled" \/ call.at \in {"idle", "checking", "calling"},
           call'.money = call.money \/ call.at \in {"idle", "checking", "calling"}
    PROVE  ToolInv'
<1>1. NothingYet'
    BY DEF ToolInv, NothingYet
<1>2. ItemsFit'
    <2>1. call.at \in {"idle", "checking", "calling"} => call.items = <<>>
        BY DEF ToolInv, NothingYet
    <2>2. <<>> \in Seq(Contents \cup {"text"})
        OBVIOUS
    <2>3. call.items = <<"video">> => call'.at = "cancelled"
        BY <2>1, ItemNames
    <2>4. call'.tool \in BilledTools => call.items \in Seq(Contents \cup {"text"})
        BY <2>1, <2>2 DEF ToolInv, ItemsFit
    <2> QED BY <2>3, <2>4 DEF ItemsFit
<1>3. ChargedSoFar'
    BY DEF ToolInv, NothingYet, ChargedSoFar
<1> QED BY <1>1, <1>2, <1>3 DEF ToolInv, ImagesSoFar, OthersSoFar

\* What a handler raises loses nothing that the caller could have had, except
\* that it is never raised for a finished video.
LEMMA RaiseKeeps ==
    ASSUME ToolInv, call.at = "handling", call.items # <<"video">>, call' = Raise
    PROVE  ToolInv'
<1>1. /\ call' \in CallRecords /\ call'.at = "raised" /\ call'.tool = call.tool
      /\ call'.items = call.items /\ call'.refs = call.refs /\ call'.next = call.next
      /\ call'.money = call.money
    BY DEF Raise, ToolInv, CallRecords, CallPlaces
<1> QED BY <1>1 DEF ToolInv, NothingYet, ItemsFit, ImagesSoFar, OthersSoFar, ChargedSoFar

\* The next image has nothing for the caller, or what it has is handed out.
LEMMA SkipKeeps ==
    ASSUME ToolInv, call.at = "handling", call.tool \in ImageTools,
           call.next <= Len(call.items), ~ Useful(call.items[call.next], call.persist),
           call' = Skip
    PROVE  ToolInv'
<1>1. /\ call.next \in Nat \ {0} /\ call.next + 1 \in Nat \ {0} /\ Len(call.items) \in Nat
      /\ \A n \in DOMAIN call.refs : call.refs[n][1] \in Nat
    BY DEF ToolInv, CallRecords, CallItems, CallRefs
<1>2. /\ call' \in CallRecords /\ call'.at = call.at /\ call'.tool = call.tool
      /\ call'.items = call.items /\ call'.refs = call.refs /\ call'.next = call.next + 1
      /\ call'.persist = call.persist /\ call'.money = call.money
    BY <1>1 DEF Skip, ToolInv, CallRecords
<1>3. NothingYet' /\ ItemsFit' /\ OthersSoFar' /\ ChargedSoFar'
    BY <1>2, ToolNames, ItemNames DEF ToolInv, NothingYet, ItemsFit, OthersSoFar, ChargedSoFar
<1>4. ImagesSoFar'
    <2>1. \A i \in 1 .. call'.next - 1 : i \in 1 .. call.next - 1 \/ i = call.next
        BY <1>1, <1>2
    <2>2. \A i \in 1 .. call.next - 1 : i \in 1 .. call'.next - 1
        BY <1>1, <1>2
    <2> QED BY <1>1, <1>2, <2>1, <2>2 DEF ToolInv, ImagesSoFar
<1> QED BY <1>2, <1>3, <1>4 DEF ToolInv

\* An image that is kept as an artifact or handed out as a URL is one more
\* reference.
LEMMA ImageRefKeeps ==
    ASSUME ToolInv, call.at = "handling", call.tool \in ImageTools,
           call.next <= Len(call.items), Useful(call.items[call.next], call.persist),
           NEW kind \in {"artifact", "url"}, kind = ImageKind(call.persist),
           call' = WithRef(kind)
    PROVE  ToolInv'
<1> DEFINE more == Append(call.refs, <<call.next, kind>>)
<1>1. /\ call.next \in Nat \ {0} /\ call.next + 1 \in Nat \ {0} /\ Len(call.items) \in Nat
      /\ call.refs \in CallRefs /\ call.persist \in BOOLEAN
      /\ \A n \in DOMAIN call.refs : call.refs[n][1] \in Nat
    BY DEF ToolInv, CallRecords, CallItems, CallRefs
<1>2. more \in CallRefs
    BY <1>1 DEF CallRefs
<1>3. /\ Len(call.refs) \in Nat /\ DOMAIN call.refs = 1 .. Len(call.refs)
      /\ DOMAIN more = 1 .. Len(call.refs) + 1
      /\ more[Len(call.refs) + 1] = <<call.next, kind>>
      /\ \A n \in DOMAIN call.refs : more[n] = call.refs[n]
    BY <1>1 DEF CallRefs
<1>4. more[Len(call.refs) + 1][1] = call.next /\ more[Len(call.refs) + 1][2] = kind
    BY <1>3
<1>5. call' = [call EXCEPT !.next = call.next + 1, !.refs = more]
    BY DEF WithRef
<1> HIDE DEF more
<1>6. /\ call' \in CallRecords /\ call'.at = call.at /\ call'.tool = call.tool
      /\ call'.items = call.items /\ call'.refs = more /\ call'.next = call.next + 1
      /\ call'.persist = call.persist /\ call'.money = call.money
    BY <1>1, <1>2, <1>5 DEF ToolInv, CallRecords
<1>7. NothingYet' /\ ItemsFit' /\ OthersSoFar' /\ ChargedSoFar'
    BY <1>6, ToolNames, ItemNames DEF ToolInv, NothingYet, ItemsFit, OthersSoFar, ChargedSoFar
<1>8. /\ \A i \in 1 .. call.next - 1 :
            Useful(call.items[i], call.persist) => \E n \in DOMAIN call.refs : call.refs[n][1] = i
      /\ \A n \in DOMAIN call.refs :
            /\ call.refs[n][1] \in 1 .. call.next - 1
            /\ Useful(call.items[call.refs[n][1]], call.persist)
            /\ call.refs[n][2] = ImageKind(call.persist)
            /\ n > 1 => call.refs[n - 1][1] < call.refs[n][1]
    BY DEF ToolInv, ImagesSoFar
<1>9. \A i \in 1 .. call.next : i \in 1 .. call.next - 1 \/ i = call.next
    BY <1>1
<1>10. \A i \in 1 .. call.next : Useful(call.items[i], call.persist) =>
             \E n \in DOMAIN more : more[n][1] = i
    <2> SUFFICES ASSUME NEW i \in 1 .. call.next, Useful(call.items[i], call.persist)
                 PROVE  \E n \in DOMAIN more : more[n][1] = i
        OBVIOUS
    <2>1. CASE i = call.next
        BY <1>3, <1>4, <2>1
    <2>2. CASE i \in 1 .. call.next - 1
        <3>1. PICK n \in DOMAIN call.refs : call.refs[n][1] = i
            BY <1>8, <2>2
        <3> QED BY <1>3, <3>1
    <2> QED BY <1>9, <2>1, <2>2
<1>11. ASSUME NEW n \in DOMAIN more
       PROVE  /\ more[n][1] \in 1 .. call.next
              /\ Useful(call.items[more[n][1]], call.persist)
              /\ more[n][2] = ImageKind(call.persist)
              /\ n > 1 => more[n - 1][1] < more[n][1]
    <2>1. CASE n = Len(call.refs) + 1
        <3>1. n > 1 => n - 1 \in DOMAIN call.refs
            BY <1>3, <2>1
        <3>2. n > 1 => more[n - 1][1] < call.next
            BY <1>1, <1>3, <1>8, <3>1
        <3> QED BY <1>1, <1>4, <2>1, <3>2
    <2>2. CASE n \in DOMAIN call.refs
        <3>1. n > 1 => n - 1 \in DOMAIN call.refs
            BY <1>3, <2>2
        <3>2. call.refs[n][1] \in 1 .. call.next
            BY <1>1, <1>8, <2>2
        <3> QED BY <1>3, <1>8, <2>2, <3>1, <3>2
    <2> QED BY <1>3, <2>1, <2>2
<1>12. ImagesSoFar'
    <2>1. call'.next - 1 = call.next /\ call'.next <= Len(call.items) + 1
        BY <1>1, <1>6
    <2> QED BY <1>6, <1>10, <1>11, <2>1 DEF ImagesSoFar
<1> QED BY <1>6, <1>7, <1>12 DEF ToolInv

\* Each item of an image response, its errors included.
LEMMA HandleImageKeeps ==
    ASSUME ToolInv, HandleImage
    PROVE  ToolInv'
<1> DEFINE c == call.items[call.next]
<1>1. /\ call.at = "handling" /\ call.tool \in ImageTools /\ call.next <= Len(call.items)
      /\ call' \in IF call.persist
                   THEN IF HasData(c) \/ HasUrl(c) THEN Stored ELSE {Skip}
                   ELSE IF HasUrl(c) THEN {WithRef("url")} ELSE {Skip}
    BY DEF HandleImage
<1>2. call.items # <<"video">>
    BY <1>1, ToolNames, ItemNames DEF ToolInv, ItemsFit
<1>3. CASE Useful(c, call.persist)
    <2>1. \/ call' = Raise
          \/ call' = WithRef(ImageKind(call.persist))
        BY <1>1, <1>3 DEF Useful, Stored, ImageKind
    <2>2. ImageKind(call.persist) \in {"artifact", "url"}
        BY DEF ImageKind
    <2> QED BY <1>1, <1>2, <1>3, <2>1, <2>2, RaiseKeeps, ImageRefKeeps
<1>4. CASE ~ Useful(c, call.persist)
    <2>1. call' = Skip
        BY <1>1, <1>4 DEF Useful
    <2> QED BY <1>1, <1>4, <2>1, SkipKeeps
<1> QED BY <1>3, <1>4

\* The one item of an audio response.
LEMMA HandleAudioKeeps ==
    ASSUME ToolInv, HandleAudio
    PROVE  ToolInv'
<1>1. /\ call.at = "handling" /\ call.tool = "seed_audio_generate" /\ call.refs = <<>>
      /\ call.next \in Nat \ {0} /\ call.tool \notin ImageTools
    BY ToolNames DEF HandleAudio, ToolInv, OthersSoFar, CallRecords
<1>2. call.items # <<"video">> /\ call.items # <<"task">>
    BY <1>1, ToolNames, ItemNames DEF ToolInv, ItemsFit
<1>3. CASE call' = Raise
    BY <1>1, <1>2, <1>3, RaiseKeeps
<1>4. CASE call' # Raise
    <2> DEFINE kind == SoundKind(call.items[1], call.persist)
    <2>1. /\ call' = [WithRef(kind) EXCEPT !.at = "answered", !.source = HasUrl(call.items[1])]
          /\ kind \in {"artifact", "url"}
        BY <1>4 DEF HandleAudio, SoundKind
    <2> HIDE DEF kind
    <2> DEFINE one == Append(call.refs, <<call.next, kind>>)
    <2>2. one \in CallRefs /\ Len(one) = 1 /\ one[1] = <<call.next, kind>>
        BY <1>1, <2>1 DEF CallRefs
    <2>3. call.next + 1 \in Nat \ {0} /\ HasUrl(call.items[1]) \in BOOLEAN
        BY <1>1 DEF HasUrl
    <2>4. WithRef(kind) = [call EXCEPT !.next = call.next + 1, !.refs = one]
        BY DEF WithRef
    <2> HIDE DEF one
    <2>5. /\ WithRef(kind) \in CallRecords /\ WithRef(kind).refs = one
          /\ WithRef(kind).tool = call.tool /\ WithRef(kind).items = call.items
          /\ WithRef(kind).persist = call.persist /\ WithRef(kind).money = call.money
        BY <2>2, <2>3, <2>4 DEF ToolInv, CallRecords
    <2>6. /\ call' \in CallRecords /\ call'.at = "answered" /\ call'.tool = call.tool
          /\ call'.items = call.items /\ call'.refs = one
          /\ call'.persist = call.persist /\ call'.money = call.money
        BY <2>1, <2>3, <2>5 DEF CallRecords, CallPlaces
    <2>7. one[1][2] = SoundKind(call.items[1], call.persist)
        BY <2>2 DEF kind
    <2> QED BY <1>1, <1>2, <2>2, <2>6, <2>7
            DEF ToolInv, NothingYet, ItemsFit, ImagesSoFar, OthersSoFar, ChargedSoFar
<1> QED BY <1>3, <1>4

\* A finished task or video.
LEMMA HandleVodKeeps ==
    ASSUME ToolInv, RecordTask \/ HandleVideo
    PROVE  ToolInv'
<1>1. call.at = "handling" /\ call.items \in {<<"task">>, <<"video">>}
    BY DEF RecordTask, HandleVideo
<1>2. call.tool \notin BilledTools
    BY <1>1, ItemNames DEF ToolInv, ItemsFit
<1>3. CASE RecordTask
    <2>1. CASE call' = Raise
        BY <1>1, <1>3, <2>1, ItemNames, RaiseKeeps DEF RecordTask
    <2>2. CASE call' = [call EXCEPT !.at = "answered", !.owned = TRUE]
        <3>1. /\ call' \in CallRecords /\ call'.at = "answered" /\ call'.tool = call.tool
              /\ call'.items = <<"task">> /\ call'.owned
            BY <1>3, <2>2 DEF RecordTask, ToolInv, CallRecords, CallPlaces
        <3> QED BY <1>2, <3>1, ToolNames, ItemNames
                DEF ToolInv, NothingYet, ItemsFit, ImagesSoFar, OthersSoFar, ChargedSoFar
    <2> QED BY <1>3, <2>1, <2>2 DEF RecordTask
<1>4. CASE HandleVideo
    <2> DEFINE answer == [call EXCEPT !.at = "answered", !.source = TRUE]
    <2>1. /\ answer \in CallRecords /\ answer.at = "answered" /\ answer.tool = call.tool
          /\ answer.items = <<"video">> /\ answer.source = TRUE
        BY <1>4 DEF HandleVideo, ToolInv, CallRecords, CallPlaces
    <2>2. call' \in {answer, [answer EXCEPT !.refs = << <<1, "artifact">> >>]}
        BY <1>4 DEF HandleVideo
    <2> HIDE DEF answer
    <2>3. << <<1, "artifact">> >> \in CallRefs
        BY DEF CallRefs
    <2>4. /\ call' \in CallRecords /\ call'.at = "answered" /\ call'.tool = call.tool
          /\ call'.items = <<"video">> /\ call'.source = TRUE
        BY <2>1, <2>2, <2>3 DEF CallRecords
    <2> QED BY <1>2, <2>4, ToolNames, ItemNames
            DEF ToolInv, NothingYet, ItemsFit, ImagesSoFar, OthersSoFar, ChargedSoFar
<1> QED BY <1>3, <1>4

\* The inductive step, one case per action.
LEMMA ToolStepKeeps ==
    ASSUME ToolInv, [ToolNext]_call
    PROVE  ToolInv'
<1>1. call \in CallRecords
    BY DEF ToolInv
<1>2. ASSUME NEW t \in Tools, NEW persist \in BOOLEAN, InvokeTool(t, persist) PROVE ToolInv'
    BY <1>1, <1>2, AsideKeeps DEF InvokeTool, CallRecords, CallPlaces
<1>3. CASE RefuseInput \/ RefuseBudget
    <2>1. PICK end \in {"raised", "error"} : call.at = "checking" /\ call' = [call EXCEPT !.at = end]
        BY <1>3 DEF RefuseInput, RefuseBudget
    <2> QED BY <1>1, <2>1, AsideKeeps DEF CallRecords, CallPlaces
<1>4. CASE EnterSlot
    <2>1. PICK m \in Money : call' = [call EXCEPT !.at = "calling", !.attempts = 1, !.money = m]
        BY <1>4 DEF EnterSlot, Money
    <2>2. call.at = "checking"
        BY <1>4 DEF EnterSlot
    <2> QED BY <1>1, <2>1, <2>2, AsideKeeps DEF CallRecords, CallPlaces
<1>5. ASSUME NEW k \in Troubles, ProviderFails(k) PROVE ToolInv'
    <2>1. CASE RepeatsCall(call.tool, k)
        <3>1. call' = [call EXCEPT !.attempts = call.attempts + 1] /\ call.at = "calling"
            BY <1>5, <2>1 DEF ProviderFails
        <3>2. call.attempts + 1 \in Nat
            BY <1>1 DEF CallRecords
        <3> QED BY <1>1, <3>1, <3>2, AsideKeeps DEF CallRecords
    <2>2. CASE ~ RepeatsCall(call.tool, k)
        <3>1. \E m \in Money, end \in {"raised", "error"} :
                  call' = [call EXCEPT !.money = m, !.at = end]
            BY <1>5, <2>2 DEF ProviderFails, Settled, Money
        <3>2. call.at = "calling"
            BY <1>5 DEF ProviderFails
        <3> QED BY <1>1, <3>1, <3>2, AsideKeeps DEF CallRecords, CallPlaces
    <2> QED BY <2>1, <2>2
<1>6. ASSUME NEW items \in Shapes(call.tool), ProviderSucceeds(items) PROVE ToolInv'
    <2>1. /\ items \in CallItems /\ Len(items) \in Nat
          /\ call.tool \in BilledTools => items \in Seq(Contents \cup {"text"})
        BY <1>1, ShapesFit DEF CallRecords, CallItems
    <2>2. Settled("success") \in Money
        BY DEF Settled, Money
    <2>3. call.next = 1 /\ call.refs = <<>>
        BY <1>6 DEF ProviderSucceeds, ToolInv, NothingYet
    <2>4. /\ call' \in CallRecords /\ call'.at = "handling" /\ call'.tool = call.tool
          /\ call'.items = items /\ call'.refs = <<>> /\ call'.next = 1
          /\ call'.money = Settled("success")
        BY <1>1, <1>6, <2>1, <2>2, <2>3 DEF ProviderSucceeds, CallRecords, CallPlaces
    <2>5. call.tool \in BilledTools => Settled("success") = "committed"
        BY DEF Settled
    <2> QED BY <2>1, <2>4, <2>5
            DEF ToolInv, NothingYet, ItemsFit, ImagesSoFar, OthersSoFar, ChargedSoFar
<1>7. CASE FinishImages
    <2> DEFINE wrong == {i \in 1 .. Len(call.items) : call.items[i] = "none"}
    <2>1. wrong \in SUBSET Nat /\ Len(call.items) \in Nat
        BY <1>1 DEF CallRecords, CallItems
    <2>2. call.at = "handling" /\ call.tool \in ImageTools /\ call.next > Len(call.items)
        BY <1>7 DEF FinishImages
    <2>3. call' = [call EXCEPT !.at = "answered", !.errors = wrong]
        BY <1>7 DEF FinishImages
    <2> HIDE DEF wrong
    <2>4. /\ call' \in CallRecords /\ call'.at = "answered" /\ call'.tool = call.tool
          /\ call'.persist = call.persist /\ call'.errors = wrong /\ call'.money = call.money
          /\ call'.items = call.items /\ call'.refs = call.refs /\ call'.next = call.next
        BY <1>1, <2>1, <2>3 DEF CallRecords, CallPlaces
    <2>5. call.items # <<"task">> /\ call.items # <<"video">> /\ call.tool # "seed_audio_generate"
        BY <2>2, ToolNames, ItemNames DEF ToolInv, ItemsFit
    <2>6. ImagesSoFar'
        <3>1. call.next = Len(call.items) + 1
            BY <1>1, <2>1, <2>2 DEF ToolInv, ImagesSoFar, CallRecords
        <3> QED BY <2>2, <2>4, <3>1 DEF ToolInv, ImagesSoFar, wrong
    <2> QED BY <2>4, <2>5, <2>6 DEF ToolInv, NothingYet, ItemsFit, OthersSoFar, ChargedSoFar
<1>8. CASE HandleText
    <2>1. /\ call.at = "handling" /\ call.tool \in BilledTools \ ImageTools
          /\ call.tool # "seed_audio_generate" /\ call' = [call EXCEPT !.at = "answered"]
        BY <1>8, ToolNames DEF HandleText
    <2>2. /\ call' \in CallRecords /\ call'.at = "answered" /\ call'.tool = call.tool
          /\ call'.items = call.items /\ call'.money = call.money
        BY <1>1, <2>1 DEF CallRecords, CallPlaces
    <2>3. call.items # <<"task">> /\ call.items # <<"video">>
        BY <2>1, ItemNames DEF ToolInv, ItemsFit
    <2> QED BY <2>1, <2>2, <2>3
            DEF ToolInv, NothingYet, ItemsFit, ImagesSoFar, OthersSoFar, ChargedSoFar
<1>9. CASE CancelTool
    BY <1>1, <1>9, AsideKeeps DEF CancelTool, CallRecords, CallPlaces
<1>10. CASE UNCHANGED call
    BY <1>10 DEF ToolInv, NothingYet, ItemsFit, ImagesSoFar, OthersSoFar, ChargedSoFar
<1> QED BY <1>2, <1>3, <1>4, <1>5, <1>6, <1>7, <1>8, <1>9, <1>10,
           HandleImageKeeps, HandleAudioKeeps, HandleVodKeeps DEF ToolNext

\* How far a call may go: the attempts of the policy, the images of a response.
ToolBounded ==
    /\ call.attempts <= MaxToolAttempts
    /\ call.next <= Len(call.items) + 1
    /\ call.tool \in ImageTools => Len(call.items) <= MaxImages
    /\ call.tool = "seed_audio_generate" /\ call.at = "handling" => call.next = 1 /\ Len(call.items) = 1
    /\ \A n \in DOMAIN call.refs : call.refs[n][1] \in 1 .. MaxImages

\* A reference to the item whose turn it is.
LEMMA WithRefBounded ==
    ASSUME ToolInv, ToolBounded, NEW kind \in {"artifact", "url"},
           call.next <= Len(call.items), call.next <= MaxImages
    PROVE  /\ WithRef(kind).attempts = call.attempts /\ WithRef(kind).items = call.items
           /\ WithRef(kind).tool = call.tool /\ WithRef(kind).next <= Len(call.items) + 1
           /\ \A n \in DOMAIN WithRef(kind).refs : WithRef(kind).refs[n][1] \in 1 .. MaxImages
<1> DEFINE more == Append(call.refs, <<call.next, kind>>)
<1>1. /\ call.next \in Nat \ {0} /\ Len(call.items) \in Nat /\ call.refs \in CallRefs
      /\ MaxImages \in Nat
    BY ToolAssumption DEF ToolInv, CallRecords, CallItems
<1>2. /\ Len(call.refs) \in Nat /\ DOMAIN call.refs = 1 .. Len(call.refs)
      /\ DOMAIN more = 1 .. Len(call.refs) + 1
      /\ more[Len(call.refs) + 1] = <<call.next, kind>>
      /\ \A n \in DOMAIN call.refs : more[n] = call.refs[n]
    BY <1>1 DEF CallRefs
<1>3. \A n \in DOMAIN more : more[n][1] \in 1 .. MaxImages
    <2> SUFFICES ASSUME NEW n \in DOMAIN more PROVE more[n][1] \in 1 .. MaxImages
        OBVIOUS
    <2>1. CASE n = Len(call.refs) + 1
        BY <1>1, <1>2, <2>1
    <2>2. CASE n \in DOMAIN call.refs
        BY <1>2, <2>2 DEF ToolBounded
    <2> QED BY <1>2, <2>1, <2>2
<1>4. WithRef(kind) = [call EXCEPT !.next = call.next + 1, !.refs = more]
    BY DEF WithRef
<1> HIDE DEF more
<1> QED BY <1>1, <1>3, <1>4 DEF ToolInv, CallRecords

\* Every step of a call stays within these bounds.
LEMMA ToolBoundedInductive ==
    ASSUME ToolInv, ToolBounded, [ToolNext]_call PROVE ToolBounded'
<1>1. /\ call \in CallRecords /\ call.attempts \in Nat /\ call.next \in Nat \ {0}
      /\ call.items \in CallItems /\ Len(call.items) \in Nat
      /\ MaxImages \in Nat \ {0} /\ MaxToolAttempts \in Nat \ {0}
    BY ToolAssumption DEF ToolInv, CallRecords, CallItems
\* A step that hands out nothing and reads no response.
<1>2. ASSUME /\ call'.items = call.items /\ call'.refs = call.refs /\ call'.next = call.next
             /\ call'.attempts \in {call.attempts, 1} \/ call'.attempts <= MaxToolAttempts
             /\ call'.tool = call.tool \/ call.at = "idle"
             /\ call'.at = "handling" => call.at = "handling" /\ call'.tool = call.tool
      PROVE  ToolBounded'
    <2>1. call.at = "idle" => call.items = <<>> /\ Len(call.items) = 0
        BY DEF ToolInv, NothingYet
    <2> QED BY <1>1, <1>2, <2>1 DEF ToolBounded
<1>3. ASSUME NEW t \in Tools, NEW persist \in BOOLEAN, InvokeTool(t, persist) PROVE ToolBounded'
    BY <1>1, <1>2, <1>3 DEF InvokeTool, CallRecords
<1>4. CASE RefuseInput \/ RefuseBudget \/ CancelTool
    <2>1. PICK end \in {"raised", "error", "cancelled"} : call' = [call EXCEPT !.at = end]
        BY <1>4 DEF RefuseInput, RefuseBudget, CancelTool
    <2> QED BY <1>1, <1>2, <2>1 DEF CallRecords
<1>5. CASE EnterSlot
    BY <1>1, <1>2, <1>5 DEF EnterSlot, CallRecords
<1>6. ASSUME NEW k \in Troubles, ProviderFails(k) PROVE ToolBounded'
    <2>1. CASE RepeatsCall(call.tool, k)
        <3>1. call' = [call EXCEPT !.attempts = call.attempts + 1] /\ call.attempts < MaxToolAttempts
              /\ call.at = "calling"
            BY <1>6, <2>1 DEF ProviderFails, RepeatsCall
        <3>2. call'.attempts = call.attempts + 1 /\ call'.attempts <= MaxToolAttempts
            BY <1>1, <3>1 DEF CallRecords
        <3> QED BY <1>1, <1>2, <3>1, <3>2 DEF CallRecords
    <2>2. CASE ~ RepeatsCall(call.tool, k)
        <3>1. PICK m \in Money, end \in {"raised", "error"} :
                  call' = [call EXCEPT !.money = m, !.at = end]
            BY <1>6, <2>2 DEF ProviderFails, Settled, Money
        <3> QED BY <1>1, <1>2, <3>1 DEF CallRecords
    <2> QED BY <2>1, <2>2
<1>7. ASSUME NEW items \in Shapes(call.tool), ProviderSucceeds(items) PROVE ToolBounded'
    <2>1. call.tool \in Tools /\ call.next = 1 /\ call.refs = <<>>
        BY <1>1, <1>7 DEF ProviderSucceeds, ToolInv, NothingYet, CallRecords
    <2>2. /\ Len(items) \in Nat
          /\ call.tool \in ImageTools => Len(items) <= MaxImages
          /\ call.tool = "seed_audio_generate" => Len(items) = 1
        <3>1. CASE call.tool \in ImageTools
            <4>1. PICK n \in 0 .. MaxImages : items \in [1 .. n -> Contents]
                BY <3>1 DEF Shapes
            <4>2. Len(items) = n
                BY <1>1, <4>1
            <4> QED BY <1>1, <3>1, <4>2 DEF ImageTools
        <3>2. CASE call.tool \notin ImageTools
            <4>1. \E c : items = <<c>>
                BY <3>2 DEF Shapes
            <4> QED BY <3>2, <4>1
        <3> QED BY <3>1, <3>2
    <2>3. /\ call'.items = items /\ call'.next = 1 /\ call'.refs = <<>> /\ call'.tool = call.tool
          /\ call'.attempts = call.attempts
        BY <1>1, <1>7, <2>1 DEF ProviderSucceeds, CallRecords
    <2> QED BY <1>1, <2>1, <2>2, <2>3 DEF ToolBounded
<1>8. CASE HandleImage
    <2>1. call.at = "handling" /\ call.tool \in ImageTools /\ call.next <= Len(call.items)
          /\ call.tool # "seed_audio_generate" /\ call.next <= MaxImages
        BY <1>1, <1>8 DEF HandleImage, ImageTools, ToolBounded
    <2>2. CASE call' = Raise
        BY <1>1, <1>2, <2>1, <2>2 DEF Raise, CallRecords
    <2>3. CASE call' = Skip
        BY <1>1, <2>1, <2>3 DEF Skip, CallRecords, ToolBounded
    <2>4. ASSUME NEW kind \in {"artifact", "url"}, call' = WithRef(kind) PROVE ToolBounded'
        <3>1. /\ WithRef(kind).attempts = call.attempts /\ WithRef(kind).items = call.items
              /\ WithRef(kind).tool = call.tool /\ WithRef(kind).next <= Len(call.items) + 1
              /\ \A n \in DOMAIN WithRef(kind).refs : WithRef(kind).refs[n][1] \in 1 .. MaxImages
            BY <2>1, WithRefBounded
        <3> QED BY <2>1, <2>4, <3>1 DEF ToolBounded
    <2> QED BY <1>8, <2>2, <2>3, <2>4 DEF HandleImage, Stored
<1>9. CASE HandleAudio
    <2>1. call.at = "handling" /\ call.tool = "seed_audio_generate" /\ call.next = 1
          /\ Len(call.items) = 1 /\ call.tool \notin ImageTools
        BY <1>9 DEF HandleAudio, ToolBounded, ImageTools
    <2>2. CASE call' = Raise
        BY <1>1, <1>2, <2>1, <2>2 DEF Raise, CallRecords
    <2>3. CASE call' # Raise
        <3>1. PICK kind \in {"artifact", "url"} :
                  call' = [WithRef(kind) EXCEPT !.at = "answered", !.source = HasUrl(call.items[1])]
            BY <1>9, <2>3 DEF HandleAudio
        <3>2. /\ WithRef(kind).attempts = call.attempts /\ WithRef(kind).items = call.items
              /\ WithRef(kind).tool = call.tool /\ WithRef(kind).next <= Len(call.items) + 1
              /\ \A n \in DOMAIN WithRef(kind).refs : WithRef(kind).refs[n][1] \in 1 .. MaxImages
            BY <1>1, <2>1, WithRefBounded
        <3>3. DOMAIN WithRef(kind) = DOMAIN call
            BY DEF WithRef
        <3>4. /\ call'.attempts = WithRef(kind).attempts /\ call'.items = WithRef(kind).items
              /\ call'.tool = WithRef(kind).tool /\ call'.next = WithRef(kind).next
              /\ call'.refs = WithRef(kind).refs /\ call'.at = "answered"
            BY <1>1, <3>1, <3>3 DEF CallRecords
        <3> QED BY <2>1, <3>2, <3>4 DEF ToolBounded
    <2> QED BY <2>2, <2>3
<1>10. CASE FinishImages \/ HandleText \/ RecordTask
    <2>1. /\ call'.items = call.items /\ call'.refs = call.refs /\ call'.next = call.next
          /\ call'.attempts = call.attempts /\ call'.tool = call.tool
          /\ call'.at \in {"answered", "raised"}
        BY <1>1, <1>10 DEF FinishImages, HandleText, RecordTask, Raise, CallRecords
    <2> QED BY <1>2, <2>1
<1>11. CASE HandleVideo
    <2>1. call.at = "handling" /\ call.tool \notin ImageTools /\ call.tool # "seed_audio_generate"
        <3>1. call.tool \notin BilledTools
            BY <1>11, ItemNames DEF HandleVideo, ToolInv, ItemsFit
        <3> QED BY <1>11, <3>1, ToolNames DEF HandleVideo
    <2> DEFINE answer == [call EXCEPT !.at = "answered", !.source = TRUE]
               one == << <<1, "artifact">> >>
    <2>2. /\ answer.items = call.items /\ answer.refs = call.refs /\ answer.next = call.next
          /\ answer.attempts = call.attempts /\ answer.tool = call.tool /\ answer.at = "answered"
          /\ answer \in CallRecords
        BY <1>1 DEF CallRecords, CallPlaces
    <2>3. call' \in {answer, [answer EXCEPT !.refs = one]}
        BY <1>11 DEF HandleVideo
    <2>4. \A n \in DOMAIN one : one[n][1] \in 1 .. MaxImages
        BY <1>1
    <2> HIDE DEF answer, one
    <2>5. /\ call'.items = call.items /\ call'.refs \in {call.refs, one} /\ call'.next = call.next
          /\ call'.attempts = call.attempts /\ call'.tool = call.tool /\ call'.at = "answered"
        BY <2>2, <2>3 DEF CallRecords
    <2> QED BY <2>1, <2>4, <2>5 DEF ToolBounded
<1>12. CASE UNCHANGED call
    BY <1>12 DEF ToolBounded
<1> QED BY <1>3, <1>4, <1>5, <1>6, <1>7, <1>8, <1>9, <1>10, <1>11, <1>12 DEF ToolNext

\* A call keeps its types: no more attempts than the policy has, no reference
\* to an item that the response does not have.
LEMMA ToolTypeCorrect == ToolSpec => []ToolTypeOK
<1>1. ToolInit => ToolBounded
    <2>1. /\ NoCall.attempts = 0 /\ NoCall.next = 1 /\ Len(NoCall.items) = 0
          /\ NoCall.tool = "seed_understand" /\ DOMAIN NoCall.refs = {}
        BY DEF NoCall
    <2> QED BY <2>1, ToolAssumption DEF ToolInit, ToolBounded
<1>2. ASSUME ToolInv, ToolBounded PROVE ToolTypeOK
    <2>1. /\ call.tool \in Tools /\ call.persist \in BOOLEAN /\ call.at \in CallPlaces
          /\ call.attempts \in 0 .. MaxToolAttempts /\ call.money \in Money
          /\ call.items \in CallItems /\ call.next \in 1 .. Len(call.items) + 1
        BY <1>2, ToolAssumption DEF ToolInv, CallRecords, ToolBounded, CallItems
    <2>2. call.refs \in Seq((1 .. MaxImages) \X {"artifact", "url"})
        <3>1. call.refs \in CallRefs
            BY <1>2 DEF ToolInv, CallRecords
        <3>2. \A n \in 1 .. Len(call.refs) : call.refs[n] \in (1 .. MaxImages) \X {"artifact", "url"}
            BY <1>2, <3>1 DEF ToolBounded, CallRefs
        <3> QED BY <3>1, <3>2 DEF CallRefs
    <2> QED BY <2>1, <2>2 DEF ToolTypeOK, CallItems
<1> QED BY <1>1, <1>2, ToolBoundedInductive, ToolInitially, ToolStepKeeps, PTL DEF ToolSpec

\* What an answered call hands out of a success, what it reports and what it
\* leaves out, and that a success which a failing store or record loses was
\* charged (the handlers' loops, their stores and what these raise).
THEOREM ToolCorrect == ToolSpec => []AnswersAreExact
<1>1. ToolInv => AnswersAreExact
    <2> SUFFICES ASSUME ToolInv PROVE AnswersAreExact
        OBVIOUS
    <2>1. ASSUME call.at = "answered", call.tool \in ImageTools
          PROVE  /\ {call.refs[n][1] : n \in DOMAIN call.refs} =
                       {i \in DOMAIN call.items :
                           HasUrl(call.items[i]) \/ (call.persist /\ HasData(call.items[i]))}
                 /\ call.errors = {i \in DOMAIN call.items : call.items[i] = "none"}
                 /\ \A n \in DOMAIN call.refs :
                       /\ call.refs[n][2] = IF call.persist THEN "artifact" ELSE "url"
                       /\ n > 1 => call.refs[n - 1][1] < call.refs[n][1]
        <3>1. Len(call.items) \in Nat /\ DOMAIN call.items = 1 .. Len(call.items)
            BY DEF ToolInv, CallRecords, CallItems
        <3>2. /\ call.next - 1 = Len(call.items)
              /\ call.errors = {i \in 1 .. Len(call.items) : call.items[i] = "none"}
            BY <2>1, <3>1 DEF ToolInv, ImagesSoFar
        <3> QED BY <2>1, <3>1, <3>2 DEF ToolInv, ImagesSoFar, Useful, ImageKind
    <2>2. ASSUME call.at = "answered", call.tool = "seed_audio_generate"
          PROVE  /\ Len(call.refs) = 1
                 /\ call.refs[1][2] = IF call.persist /\ HasData(call.items[1])
                                      THEN "artifact" ELSE "url"
        BY <2>2 DEF ToolInv, OthersSoFar, SoundKind
    <2> QED BY <2>1, <2>2 DEF ToolInv, ItemsFit, OthersSoFar, ChargedSoFar, AnswersAreExact
<1> QED BY <1>1, ToolInitially, ToolStepKeeps, PTL DEF ToolSpec

-----------------------------------------------------------------------------
(***************************************************************************)
(* The wait for a transcription.                                           *)
(*                                                                         *)
(* Earlier attempts and the back-offs after them have used no more than    *)
(* their share, the running one its submission and what its deadline has   *)
(* seen; the last pause and the query after it may outlast the deadline.   *)
(***************************************************************************)

AsrTypes ==
    asr \in [at : AsrPlaces, attempt : Nat, delay : Nat, elapsed : Nat, waited : Nat]

\* What an attempt may poll, and its share of the wait: the submission, the
\* polls and the back-off after it.
PollLimit == PollMax - 1 + LongestDelay + RequestTimeout
AttemptShare == RequestTimeout + PollLimit + MaxBackoff

AttemptsAreBounded ==
    /\ asr.elapsed <= PollLimit
    /\ asr.at = "idle" => asr.waited = 0 /\ asr.elapsed = 0 /\ asr.attempt = 0
    /\ asr.at # "idle" => asr.attempt >= 1
    /\ asr.at = "submitting" => asr.waited <= (asr.attempt - 1) * AttemptShare
    /\ asr.at = "submitting" => asr.elapsed = 0
    /\ asr.at \in {"looping", "querying"} =>
          /\ asr.delay <= LongestDelay
          /\ asr.waited <= (asr.attempt - 1) * AttemptShare + RequestTimeout + asr.elapsed
    /\ asr.at = "querying" => asr.elapsed + RequestTimeout <= PollLimit
    /\ asr.at \in {"done", "failed", "cancelled"} =>
          asr.waited <= (asr.attempt - 1) * AttemptShare + RequestTimeout + PollLimit

AsrInv == AsrTypes /\ AttemptsAreBounded

\* Pauses and limits are positive, requests and back-offs may take no time.
LEMMA AsrConstants ==
    /\ PollInterval \in Nat \ {0} /\ PollMax \in Nat \ {0} /\ DelayCap \in Nat \ {0}
    /\ RequestTimeout \in Nat /\ MaxBackoff \in Nat
    /\ LongestDelay \in Nat \ {0} /\ PollInterval <= LongestDelay /\ DelayCap <= LongestDelay
    /\ PollLimit \in Nat \ {0} /\ PollLimit + 1 = PollMax + LongestDelay + RequestTimeout
    /\ AttemptShare \in Nat \ {0} /\ AttemptShare = RequestTimeout + PollLimit + MaxBackoff
    /\ LongestAttempt \in Nat /\ LongestAttempt + MaxBackoff = AttemptShare + 1
<1>1. /\ PollInterval \in Nat \ {0} /\ PollMax \in Nat \ {0} /\ DelayCap \in Nat \ {0}
      /\ RequestTimeout \in Nat /\ MaxBackoff \in Nat
    BY AsrAssumption
<1> QED BY <1>1 DEF LongestDelay, PollLimit, AttemptShare, LongestAttempt

\* One more attempt has one share more.
LEMMA NextAttempt ==
    ASSUME NEW n \in Nat, NEW k \in Nat
    PROVE  /\ (n + 1) * k = n * k + k /\ n * k \in Nat /\ (n + 1 - 1) * k = n * k
           /\ n >= 1 => n - 1 \in Nat /\ (n - 1) * k + k = n * k /\ (n - 1) * k \in Nat
<1>1. n + 1 - 1 = n
    OBVIOUS
<1>2. (n + 1) * k = n * k + k /\ n * k \in Nat
    BY SMT
<1>3. n >= 1 => n - 1 \in Nat /\ (n - 1) * k + k = n * k
    BY SMT
<1>4. n >= 1 => (n - 1) * k \in Nat
    BY <1>3, SMT
<1> QED BY <1>1, <1>2, <1>3, <1>4

\* The time that passes is added to both clocks and changes nothing else.
LEMMA ClocksAdvance ==
    ASSUME AsrTypes, NEW d \in Nat
    PROVE  /\ Took(d) \in [at : AsrPlaces, attempt : Nat, delay : Nat, elapsed : Nat, waited : Nat]
           /\ Took(d).at = asr.at /\ Took(d).attempt = asr.attempt /\ Took(d).delay = asr.delay
           /\ Took(d).elapsed = asr.elapsed + d /\ Took(d).waited = asr.waited + d
<1> DEFINE elapsed == asr.elapsed + d
           waited == asr.waited + d
<1>1. elapsed \in Nat /\ waited \in Nat
    BY DEF AsrTypes
<1>2. Took(d) = [asr EXCEPT !.elapsed = elapsed, !.waited = waited]
    BY DEF Took
<1> HIDE DEF elapsed, waited
<1>3. /\ Took(d) \in [at : AsrPlaces, attempt : Nat, delay : Nat, elapsed : Nat, waited : Nat]
      /\ Took(d).at = asr.at /\ Took(d).attempt = asr.attempt /\ Took(d).delay = asr.delay
      /\ Took(d).elapsed = elapsed /\ Took(d).waited = waited
    BY <1>1, <1>2 DEF AsrTypes
<1> QED BY <1>3 DEF elapsed, waited

\* Nothing has been waited yet.
LEMMA AsrInitially == AsrInit => AsrInv
<1> SUFFICES ASSUME AsrInit PROVE AsrInv
    OBVIOUS
<1> QED BY AsrConstants DEF AsrInit, AsrInv, AsrTypes, AttemptsAreBounded, AsrPlaces

\* The inductive step, one case per action.
LEMMA AsrStepKeeps ==
    ASSUME AsrInv, [AsrNext]_asr
    PROVE  AsrInv'
<1> DEFINE before == (asr.attempt - 1) * AttemptShare
           all == asr.attempt * AttemptShare
<1>1. /\ asr.attempt \in Nat /\ asr.delay \in Nat /\ asr.elapsed \in Nat /\ asr.waited \in Nat
      /\ asr.at \in AsrPlaces /\ AsrTypes
    BY DEF AsrInv, AsrTypes
<1>2. /\ AttemptShare \in Nat \ {0} /\ PollLimit \in Nat \ {0} /\ LongestDelay \in Nat
      /\ PollInterval \in Nat /\ DelayCap \in Nat /\ RequestTimeout \in Nat /\ MaxBackoff \in Nat
      /\ PollMax \in Nat \ {0} /\ PollInterval <= LongestDelay /\ DelayCap <= LongestDelay
      /\ PollMax + LongestDelay + RequestTimeout = PollLimit + 1
      /\ AttemptShare = RequestTimeout + PollLimit + MaxBackoff
    BY AsrConstants
<1>3. /\ (asr.attempt + 1 - 1) * AttemptShare = all /\ all \in Nat
      /\ asr.attempt >= 1 => before + AttemptShare = all /\ before \in Nat
    BY <1>1, <1>2, NextAttempt
<1>4. /\ asr.elapsed <= PollLimit
      /\ asr.at = "idle" => asr.waited = 0 /\ asr.elapsed = 0
      /\ asr.at # "idle" => asr.attempt >= 1
      /\ asr.at = "submitting" => asr.waited <= before /\ asr.elapsed = 0
      /\ asr.at \in {"looping", "querying"} =>
            asr.delay <= LongestDelay /\ asr.waited <= before + RequestTimeout + asr.elapsed
      /\ asr.at = "querying" => asr.elapsed + RequestTimeout <= PollLimit
    BY DEF AsrInv, AttemptsAreBounded
<1>5. AttemptShare' = AttemptShare /\ PollLimit' = PollLimit /\ LongestDelay' = LongestDelay
    BY DEF AttemptShare, PollLimit, LongestDelay
<1>6. CASE StartTranscription
    <2>1. /\ AsrTypes' /\ asr'.at = "submitting" /\ asr'.attempt = 1 /\ asr'.waited = 0 /\ asr'.elapsed = 0
        BY <1>1, <1>4, <1>6 DEF StartTranscription, AsrInv, AsrTypes, AsrPlaces
    <2>2. (1 - 1) * AttemptShare = 0
        BY <1>2
    <2> QED BY <1>2, <1>5, <2>1, <2>2 DEF AsrInv, AttemptsAreBounded
<1>7. ASSUME NEW d \in 0 .. RequestTimeout PROVE d \in Nat /\ d <= RequestTimeout
    BY <1>2
<1>8. ASSUME NEW d \in 0 .. RequestTimeout, Submitted(d) PROVE AsrInv'
    <2>1. /\ AsrTypes' /\ asr'.at = "looping" /\ asr'.attempt = asr.attempt
          /\ asr'.waited = asr.waited + d /\ asr'.elapsed = 0 /\ asr'.delay = PollInterval
          /\ asr.at = "submitting"
        BY <1>1, <1>2, <1>7, <1>8, ClocksAdvance DEF Submitted, AsrTypes, AsrPlaces
    <2>2. asr'.waited <= before + RequestTimeout + 0
        BY <1>1, <1>2, <1>3, <1>4, <1>7, <2>1
    <2> QED BY <1>1, <1>2, <1>4, <1>5, <2>1, <2>2 DEF AsrInv, AttemptsAreBounded
<1>9. ASSUME NEW d \in 0 .. RequestTimeout, asr.at \in {"submitting", "querying"}
      PROVE  /\ asr.waited + d <= before + RequestTimeout + PollLimit
             /\ asr.at = "querying" => /\ asr.elapsed + d <= PollLimit
                                       /\ asr.waited + d <= before + RequestTimeout + (asr.elapsed + d)
             /\ asr.elapsed + d <= PollLimit
    <2>1. RequestTimeout <= PollLimit
        BY AsrConstants
    <2> QED BY <1>1, <1>2, <1>3, <1>4, <1>7, <1>9, <2>1
<1>10. ASSUME NEW d \in 0 .. RequestTimeout, NEW b \in 0 .. MaxBackoff, AsrFailsAndRetries(d, b)
       PROVE  AsrInv'
    <2>1. b \in Nat /\ b <= MaxBackoff /\ d + b \in Nat /\ asr.attempt + 1 \in Nat
        BY <1>1, <1>2, <1>7
    <2>2. /\ asr.at \in {"submitting", "querying"}
          /\ asr' = [Took(d + b) EXCEPT !.at = "submitting", !.attempt = @ + 1, !.elapsed = 0]
        BY <1>10 DEF AsrFailsAndRetries
    <2>3. /\ AsrTypes' /\ asr'.at = "submitting" /\ asr'.attempt = asr.attempt + 1
          /\ asr'.waited = asr.waited + (d + b) /\ asr'.elapsed = 0
        BY <1>1, <2>1, <2>2, ClocksAdvance DEF AsrTypes, AsrPlaces
    <2>4. asr'.waited <= all
        BY <1>1, <1>2, <1>3, <1>4, <1>7, <1>9, <2>1, <2>2, <2>3
    <2>5. (asr'.attempt - 1) * AttemptShare = all /\ asr'.attempt >= 1
        BY <1>1, <1>3, <2>3
    <2> QED BY <1>2, <1>5, <2>3, <2>4, <2>5 DEF AsrInv, AttemptsAreBounded
<1>11. ASSUME NEW d \in 0 .. RequestTimeout, AsrFails(d) \/ Recognised(d)
       PROVE  AsrInv'
    <2>1. /\ asr.at \in {"submitting", "querying"}
          /\ AsrTypes' /\ asr'.at \in {"failed", "done"} /\ asr'.attempt = asr.attempt
          /\ asr'.waited = asr.waited + d /\ asr'.elapsed = asr.elapsed + d
        BY <1>1, <1>7, <1>11, ClocksAdvance DEF AsrFails, Recognised, AsrTypes, AsrPlaces
    <2> QED BY <1>4, <1>5, <1>9, <2>1 DEF AsrInv, AttemptsAreBounded
<1>12. CASE SleepBeforeQuery
    <2>1. /\ AsrTypes' /\ asr'.at = "querying" /\ asr'.attempt = asr.attempt
          /\ asr'.waited = asr.waited + asr.delay /\ asr'.elapsed = asr.elapsed + asr.delay
          /\ asr'.delay = asr.delay /\ asr.at = "looping" /\ asr.elapsed < PollMax
        BY <1>1, <1>12, ClocksAdvance DEF SleepBeforeQuery, AsrTypes, AsrPlaces
    <2>2. /\ asr'.elapsed + RequestTimeout <= PollLimit /\ asr'.elapsed <= PollLimit
          /\ asr'.waited <= before + RequestTimeout + asr'.elapsed
        BY <1>1, <1>2, <1>3, <1>4, <2>1
    <2> QED BY <1>1, <1>4, <1>5, <2>1, <2>2 DEF AsrInv, AttemptsAreBounded
<1>13. ASSUME NEW d \in 0 .. RequestTimeout, StillPending(d) PROVE AsrInv'
    <2>1. NextDelay(asr.delay) \in Nat /\ NextDelay(asr.delay) <= LongestDelay
        BY <1>1, <1>2 DEF NextDelay
    <2>2. /\ asr.at = "querying"
          /\ asr' = [Took(d) EXCEPT !.at = "looping", !.delay = NextDelay(@)]
        BY <1>13 DEF StillPending
    <2>3. /\ AsrTypes' /\ asr'.at = "looping" /\ asr'.attempt = asr.attempt
          /\ asr'.waited = asr.waited + d /\ asr'.elapsed = asr.elapsed + d
          /\ asr'.delay = NextDelay(asr.delay)
        BY <1>1, <1>7, <2>1, <2>2, ClocksAdvance DEF AsrTypes, AsrPlaces
    <2> QED BY <1>1, <1>4, <1>5, <1>9, <2>1, <2>2, <2>3 DEF AsrInv, AttemptsAreBounded
<1>14. CASE GiveUp \/ AbandonTranscription
    <2>1. /\ AsrTypes' /\ asr'.at \in {"failed", "cancelled"} /\ asr'.attempt = asr.attempt
          /\ asr'.waited = asr.waited /\ asr'.elapsed = asr.elapsed
          /\ asr.at \in {"submitting", "looping", "querying"}
        BY <1>1, <1>14 DEF GiveUp, AbandonTranscription, AsrTypes, AsrPlaces
    <2>2. asr.waited <= before + RequestTimeout + PollLimit
        BY <1>1, <1>2, <1>3, <1>4, <2>1
    <2> QED BY <1>4, <1>5, <2>1, <2>2 DEF AsrInv, AttemptsAreBounded
<1>15. CASE UNCHANGED asr
    BY <1>5, <1>15 DEF AsrInv, AsrTypes, AttemptsAreBounded
<1> QED BY <1>6, <1>8, <1>10, <1>11, <1>12, <1>13, <1>14, <1>15 DEF AsrNext

\* The wait has its types: attempts stay within the policy and no pause is
\* longer than the configured one or the cap.
LEMMA AsrTypeCorrect == AsrSpec => []AsrTypeOK
<1> DEFINE Waits == [at : AsrPlaces, attempt : 0 .. MaxAsrAttempts, delay : 0 .. LongestDelay,
                     elapsed : Nat, waited : Nat]
<1>1. AsrInit => AsrTypeOK
    <2>1. 0 \in 0 .. MaxAsrAttempts /\ 0 \in 0 .. LongestDelay
        BY AsrAssumption, AsrConstants
    <2> QED BY <2>1 DEF AsrInit, AsrTypeOK, AsrPlaces
<1>2. ASSUME AsrTypeOK, [AsrNext]_asr PROVE AsrTypeOK'
    <2>0. /\ asr \in Waits /\ MaxAsrAttempts \in Nat \ {0} /\ LongestDelay \in Nat \ {0}
          /\ PollInterval \in 0 .. LongestDelay /\ RequestTimeout \in Nat /\ MaxBackoff \in Nat
          /\ \A d \in Nat : NextDelay(d) \in 0 .. LongestDelay
        BY <1>2, AsrAssumption, AsrConstants DEF AsrTypeOK, NextDelay
    <2>1. ASSUME NEW d \in Nat PROVE Took(d) \in Waits /\ Took(d).delay = asr.delay
        <3>1. asr.elapsed + d \in Nat /\ asr.waited + d \in Nat
            BY <2>0
        <3> QED BY <2>0, <3>1 DEF Took
    <2>2. CASE StartTranscription
        <3>1. 1 \in 0 .. MaxAsrAttempts
            BY <2>0
        <3> QED BY <2>0, <2>2, <3>1 DEF StartTranscription, AsrTypeOK, AsrPlaces
    <2>3. ASSUME NEW d \in 0 .. RequestTimeout,
                 Submitted(d) \/ StillPending(d) \/ Recognised(d) \/ AsrFails(d)
          PROVE  AsrTypeOK'
        <3>1. d \in Nat /\ asr.delay \in Nat
            BY <2>0
        <3>2. Took(d) \in Waits /\ Took(d).delay = asr.delay /\ NextDelay(asr.delay) \in 0 .. LongestDelay
            BY <2>0, <2>1, <3>1
        <3>3. CASE Submitted(d)
            BY <2>0, <3>2, <3>3 DEF Submitted, AsrTypeOK, AsrPlaces
        <3>4. CASE StillPending(d)
            BY <3>2, <3>4 DEF StillPending, AsrTypeOK, AsrPlaces
        <3>5. CASE Recognised(d) \/ AsrFails(d)
            BY <3>2, <3>5 DEF Recognised, AsrFails, AsrTypeOK, AsrPlaces
        <3> QED BY <2>3, <3>3, <3>4, <3>5
    <2>4. ASSUME NEW d \in 0 .. RequestTimeout, NEW b \in 0 .. MaxBackoff, AsrFailsAndRetries(d, b)
          PROVE  AsrTypeOK'
        <3>1. d + b \in Nat
            BY <2>0
        <3>2. Took(d + b) \in Waits /\ Took(d + b).attempt = asr.attempt
            BY <2>0, <2>1, <3>1 DEF Took
        <3>3. asr.attempt + 1 \in 0 .. MaxAsrAttempts
            BY <2>0, <2>4 DEF AsrFailsAndRetries
        <3> QED BY <2>4, <3>2, <3>3 DEF AsrFailsAndRetries, AsrTypeOK, AsrPlaces
    <2>5. CASE SleepBeforeQuery
        <3>1. asr.delay \in Nat
            BY <2>0
        <3> QED BY <2>1, <2>5, <3>1 DEF SleepBeforeQuery, AsrTypeOK, AsrPlaces
    <2>6. CASE GiveUp \/ AbandonTranscription
        BY <2>0, <2>6 DEF GiveUp, AbandonTranscription, AsrTypeOK, AsrPlaces
    <2>7. CASE UNCHANGED asr
        BY <2>0, <2>7 DEF AsrTypeOK, LongestDelay
    <2> QED BY <1>2, <2>2, <2>3, <2>4, <2>5, <2>6, <2>7 DEF AsrNext
<1> QED BY <1>1, <1>2, PTL DEF AsrSpec

\* From its first submission on a caller waits no longer than every attempt's
\* requests, limit and last pause, and the back-offs between attempts, together
\* (transcribe() in call_with_retry()).
THEOREM WaitCorrect == AsrSpec => []WaitIsBounded
<1>1. AsrInv => WaitIsBounded
    <2> SUFFICES ASSUME AsrInv, asr.at # "idle" PROVE WaitIsBounded
        BY DEF WaitIsBounded
    <2> DEFINE n == asr.attempt
               before == (n - 1) * AttemptShare
    <2>1. /\ n \in Nat /\ n >= 1 /\ asr.elapsed \in Nat /\ asr.waited \in Nat
          /\ asr.at \in AsrPlaces /\ asr.elapsed <= PollLimit
        BY DEF AsrInv, AsrTypes, AttemptsAreBounded
    <2>2. before \in Nat
        BY <2>1, AsrConstants, NextAttempt
    <2>3. asr.waited <= before + RequestTimeout + PollLimit
        BY <2>1, <2>2, AsrConstants DEF AsrInv, AttemptsAreBounded, AsrPlaces
    <2>4. before <= (n - 1) * (LongestAttempt + MaxBackoff)
        <3>1. ASSUME NEW m \in Nat PROVE m * AttemptShare <= m * (AttemptShare + 1)
            BY AsrConstants, SMT
        <3> QED BY <2>1, <3>1, AsrConstants
    <2>5. ASSUME NEW m \in Nat, m >= 1, NEW x \in Nat, NEW y \in Nat
          PROVE  (m - 1) * (x + y) + x = m * x + (m - 1) * y
        BY <2>5, SMT
    <2>6. /\ (n - 1) * (LongestAttempt + MaxBackoff) + LongestAttempt
                 = n * LongestAttempt + (n - 1) * MaxBackoff
          /\ RequestTimeout + PollLimit <= LongestAttempt
        BY <2>1, <2>5, AsrConstants DEF LongestAttempt
    <2> HIDE DEF before
    <2>7. asr.waited <= n * LongestAttempt + (n - 1) * MaxBackoff
        <3> DEFINE total == (n - 1) * (LongestAttempt + MaxBackoff)
        <3>1. total \in Nat
            BY <2>1, AsrConstants, NextAttempt
        <3>2. before <= total /\ total + LongestAttempt = n * LongestAttempt + (n - 1) * MaxBackoff
            BY <2>4, <2>6
        <3> HIDE DEF total
        <3>3. asr.waited <= total + LongestAttempt
            BY <2>1, <2>2, <2>3, <2>6, <3>1, <3>2, AsrConstants
        <3> QED BY <3>2, <3>3
    <2> QED BY <2>1, <2>7, AsrConstants DEF WaitIsBounded
<1> QED BY <1>1, AsrInitially, AsrStepKeeps, PTL DEF AsrSpec
-----------------------------------------------------------------------------
(***************************************************************************)
(* The server's components side by side, as the runs check them: whatever  *)
(* one of them does is a step of that component and leaves the others      *)
(* where they are.  So each behaves as its own specification says, and     *)
(* what is proved of a component holds in the server.                      *)
(***************************************************************************)

\* Every component makes a step of its own or none.
EachMoves ==
    /\ [JobsNext]_jobVars /\ [TasksNext]_taskVars /\ [KeysNext]_keyVars
    /\ [BatchNext]_batchVars /\ [HttpNext]_httpVars
    /\ [VodNext]_poll /\ [ToolNext]_call /\ [AsrNext]_asr
    /\ [SurfaceNext]_surfaceVars /\ [DownloadNext]_fetch /\ [MigrationNext]_migrationVars

\* A step of the server is a step of one component, and part says of which.
LEMMA ServerStep ==
    ASSUME [ServerNext]_serverVars
    PROVE  EachMoves /\ part' = part
<1>1. CASE MoveJobs
    <2>1. JobsNext
        BY <1>1 DEF MoveJobs, JobsNext
    <2> QED BY <1>1, <2>1 DEF MoveJobs, EachMoves, singleVars
<1>2. CASE MoveTasks
    BY <1>2 DEF MoveTasks, EachMoves, singleVars
<1>3. CASE MoveKeys
    BY <1>3 DEF MoveKeys, EachMoves, singleVars
<1>4. CASE MoveBatch
    BY <1>4 DEF MoveBatch, EachMoves, singleVars
<1>5. CASE MoveHttp
    BY <1>5 DEF MoveHttp, EachMoves, singleVars, HttpNext
<1>6. CASE MoveSingle
    BY <1>6 DEF MoveSingle, EachMoves
<1>7. CASE UNCHANGED serverVars
    BY <1>7 DEF serverVars, singleVars, EachMoves
<1> QED BY <1>1, <1>2, <1>3, <1>4, <1>5, <1>6, <1>7 DEF ServerNext

\* In the server each component behaves as its own specification says, its
\* fairness included.
THEOREM PartsCorrect ==
    ServerSpec => /\ JobsSpec /\ TasksSpec /\ KeysSpec /\ BatchSpec /\ HttpSpec /\ VodSpec
                  /\ ToolSpec /\ AsrSpec /\ SurfaceSpec /\ DownloadSpec /\ MigrationSpec
<1>1. ServerInit => /\ JobsInit /\ TasksInit /\ KeysInit /\ BatchInit /\ HttpInit /\ VodInit
                    /\ ToolInit /\ AsrInit /\ SurfaceInit /\ DownloadInit /\ MigrationInit
    BY DEF ServerInit
<1>2. [ServerNext]_serverVars => /\ [JobsNext]_jobVars /\ [TasksNext]_taskVars /\ [KeysNext]_keyVars
                                 /\ [BatchNext]_batchVars /\ [HttpNext]_httpVars
                                 /\ [VodNext]_poll /\ [ToolNext]_call /\ [AsrNext]_asr
                                 /\ [SurfaceNext]_surfaceVars /\ [DownloadNext]_fetch
                                 /\ [MigrationNext]_migrationVars
    BY ServerStep DEF EachMoves
<1> QED BY <1>1, <1>2, PTL DEF ServerSpec, JobsSpec, TasksSpec, KeysSpec, BatchSpec, HttpSpec, VodSpec,
           ToolSpec, AsrSpec, SurfaceSpec, DownloadSpec, MigrationSpec

\* Every component of the server keeps its types.
THEOREM ServerTypeCorrect == ServerSpec => []ServerTypeOK
<1>1. ServerInit => part \in Parts
    BY DEF ServerInit
<1>2. part \in Parts /\ [ServerNext]_serverVars => (part \in Parts)'
    BY ServerStep DEF Parts
<1>3. /\ JobsInv => JobsTypeOK
      /\ DownloadInv => DownloadTypeOK
      /\ MigrationInv => MigrationTypeOK
    BY DEF JobsInv, DownloadInv, MigrationInv
<1>4. /\ part \in Parts
      /\ JobsTypeOK /\ TasksTypeOK /\ KeysTypeOK /\ BatchTypeOK /\ HttpTypeOK
      /\ VodTypeOK /\ ToolTypeOK /\ AsrTypeOK /\ SurfaceTypeOK
      /\ DownloadTypeOK /\ MigrationTypeOK
      => ServerTypeOK
    BY DEF ServerTypeOK
<1>5. ServerSpec => [](part \in Parts)
    BY <1>1, <1>2, PTL DEF ServerSpec
<1> QED BY <1>3, <1>4, <1>5, PartsCorrect, JobsInvCorrect, TasksTypeCorrect, KeysTypeCorrect,
           BatchTypeCorrect, HttpTypeCorrect, VodTypeCorrect, ToolTypeCorrect, AsrTypeCorrect,
           SurfaceTypeCorrect, DownloadInvCorrect, MigrationInvCorrect, PTL

\* What is promised of the components holds in the server.
ServerSafe ==
    /\ StartedOnce /\ JobsArePrivate /\ AcceptedIsOwned
    /\ DeletesAreExpected /\ TasksArePrivate
    /\ UsedKeysStay /\ UrlsArePrivate
    /\ SummaryIsComplete
    /\ EvictionIsInvisible /\ RetryAfterIsEnough /\ BodyIsBounded
    /\ VodStateIsReported /\ AnswersAreExact /\ WaitIsBounded /\ AuthorisedOnEveryPath
    /\ DownloadIsConfined /\ MigrationKeepsRows

\* The promises of all components hold together, for every value of the
\* constants and whatever the components do beside each other.
THEOREM ServerSafetyCorrect == ServerSpec => []ServerSafe
<1>1. /\ StartedOnce /\ JobsArePrivate /\ AcceptedIsOwned
      /\ DeletesAreExpected /\ TasksArePrivate
      /\ UsedKeysStay /\ UrlsArePrivate
      /\ SummaryIsComplete
      /\ EvictionIsInvisible /\ RetryAfterIsEnough /\ BodyIsBounded
      /\ VodStateIsReported /\ AnswersAreExact /\ WaitIsBounded /\ AuthorisedOnEveryPath
      /\ DownloadIsConfined /\ MigrationKeepsRows
      => ServerSafe
    BY DEF ServerSafe
<1> QED BY <1>1, PartsCorrect, StartedOnceCorrect, PrivacyCorrect, AcceptedCorrect, DeletesCorrect,
           TasksPrivacyCorrect, UsedKeysCorrect, UrlsPrivacyCorrect, SummaryCorrect, EvictionCorrect,
           RetryAfterCorrect, BodyCorrect, VodCorrect, ToolCorrect, WaitCorrect, SurfaceCorrect,
           DownloadCorrect, MigrationCorrect, PTL
=============================================================================
