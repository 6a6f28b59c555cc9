---------------------------- MODULE Transcription ----------------------------
(***************************************************************************)
(* speech_to_text's wait for the recogniser: submit, then query with       *)
(* growing pauses until a deadline, inside call_with_retry, which starts   *)
(* again, after a back-off, with a new deadline and the same request id.   *)
(* Time passes in requests, pauses and back-offs.  httpx limits the        *)
(* connecting, the sending and every piece of an answer: RequestTimeout    *)
(* stands for their sum when the answer comes in one piece.                *)
(***************************************************************************)
EXTENDS Naturals

CONSTANTS
    PollInterval, PollMax,   \* seed_speech_asr_poll_interval_seconds, ..._max_seconds
    DelayCap,                \* the 10.0 of min(delay * 2, 10.0)
    RequestTimeout,          \* the longest a submit or a query takes
    MaxBackoff,              \* the longest sleep of call_with_retry, its jitter included
    MaxAsrAttempts           \* RetryPolicy.max_attempts

ASSUME AsrAssumption ==
    /\ {PollInterval, PollMax, DelayCap, MaxAsrAttempts} \subseteq Nat \ {0}
    /\ RequestTimeout \in Nat /\ MaxBackoff \in Nat

VARIABLE asr

AsrPlaces == {"idle", "submitting", "looping", "querying", "done", "failed", "cancelled"}

LongestDelay == IF PollInterval > DelayCap THEN PollInterval ELSE DelayCap

\* elapsed: since this attempt's submission began, once it has succeeded since
\* its deadline was set; waited: since the first submission of the call began.
AsrTypeOK ==
    asr \in [at : AsrPlaces, attempt : 0 .. MaxAsrAttempts, delay : 0 .. LongestDelay,
             elapsed : Nat, waited : Nat]

AsrInit == asr = [at |-> "idle", attempt |-> 0, delay |-> 0, elapsed |-> 0, waited |-> 0]

-----------------------------------------------------------------------------
StartTranscription ==
    asr.at = "idle" /\ asr' = [asr EXCEPT !.at = "submitting", !.attempt = 1]

\* A request or a pause is over after d.
Took(d) == [asr EXCEPT !.elapsed = @ + d, !.waited = @ + d]

Submitted(d) ==
    /\ asr.at = "submitting"
    /\ asr' = [Took(d) EXCEPT !.at = "looping", !.delay = PollInterval, !.elapsed = 0]

\* Retryable and unambiguous: a connection or transport error, a 429.  The next
\* attempt begins after the back-off b.
AsrFailsAndRetries(d, b) ==
    /\ asr.at \in {"submitting", "querying"} /\ asr.attempt < MaxAsrAttempts
    /\ asr' = [Took(d + b) EXCEPT !.at = "submitting", !.attempt = @ + 1, !.elapsed = 0]

AsrFails(d) ==
    /\ asr.at \in {"submitting", "querying"}
    /\ asr' = [Took(d) EXCEPT !.at = "failed"]

SleepBeforeQuery ==
    /\ asr.at = "looping" /\ asr.elapsed < PollMax
    /\ asr' = [Took(asr.delay) EXCEPT !.at = "querying"]

\* Mutant: the pauses grow without end.
NextDelayUncapped(d) == 2 * d
NextDelay(d) == IF 2 * d < DelayCap THEN 2 * d ELSE DelayCap

StillPending(d) ==
    /\ asr.at = "querying"
    /\ asr' = [Took(d) EXCEPT !.at = "looping", !.delay = NextDelay(@)]

Recognised(d) == asr.at = "querying" /\ asr' = [Took(d) EXCEPT !.at = "done"]

\* TIMEOUT, neither retryable nor ambiguous.
GiveUp ==
    /\ asr.at = "looping" /\ asr.elapsed >= PollMax
    /\ asr' = [asr EXCEPT !.at = "failed"]

\* Cancelled anywhere: the caller waits no longer.
AbandonTranscription ==
    /\ asr.at \in {"submitting", "looping", "querying"}
    /\ asr' = [asr EXCEPT !.at = "cancelled"]

AsrNext ==
    \/ StartTranscription \/ SleepBeforeQuery \/ GiveUp \/ AbandonTranscription
    \/ \E d \in 0 .. RequestTimeout :
          \/ Submitted(d) \/ StillPending(d) \/ Recognised(d) \/ AsrFails(d)
          \/ \E b \in 0 .. MaxBackoff : AsrFailsAndRetries(d, b)

AsrSpec == AsrInit /\ [][AsrNext]_asr

-----------------------------------------------------------------------------
(* Property                                                                *)

\* An attempt: the submission, then polls that may outrun the deadline by the
\* last pause and the query after it.
LongestAttempt == RequestTimeout + PollMax + LongestDelay + RequestTimeout

\* How long a caller waits for a transcription, from its first submission on and
\* with requests and back-offs counted: no attempt polls longer than the limit, a
\* pause and a query, and every retry adds a whole attempt and a back-off.  That is
\* more than the "maximum total seconds to wait" of env.py, whatever it is set to.
WaitIsBounded ==
    asr.at # "idle" =>
        /\ asr.elapsed < PollMax + LongestDelay + RequestTimeout
        /\ asr.waited <= asr.attempt * LongestAttempt + (asr.attempt - 1) * MaxBackoff
=============================================================================
