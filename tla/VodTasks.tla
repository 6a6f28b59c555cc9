------------------------------ MODULE VodTasks ------------------------------
(***************************************************************************)
(* One poll of a VOD MediaKit task by a vod_get_* tool: what the provider  *)
(* says passes the DTO of the response, the normalised task with its       *)
(* validator, the best-effort copy and the output model with its own, each *)
(* written for four kinds of task.                                         *)
(*                                                                         *)
(* The four separated tracks are alike and stand for one.  How concurrent  *)
(* polls copy is TaskArtifacts'; the owner check and the foreground refusal*)
(* of persist_output change nothing and come first.                        *)
(***************************************************************************)
EXTENDS Naturals

CONSTANT MaxPollAttempts   \* RetryPolicy.max_attempts

ASSUME PollAssumption == MaxPollAttempts \in Nat \ {0}

VARIABLE poll   \* the poll: where it is, what it got and what it answers

-----------------------------------------------------------------------------
Kinds == {"enhancement", "transcode", "separation", "subtitle"}

\* A 2xx body.  type is "own" for the tool's task type; detail is the text of
\* error.code and error.message; result may lack its URLs.
Bodies == [json : BOOLEAN, success : BOOLEAN, sameTask : BOOLEAN,
           type : {"own", "other", "missing"},
           status : {"completed", "failed", "running", "processing", "queued"},
           result : {"none", "empty", "urls"},
           detail : {"none", "blank", "text"}]
Failures == {"429", "4xx", "5xx", "timeout", "transport"}
NoBody == [json |-> FALSE, success |-> FALSE, sameTask |-> FALSE, type |-> "missing",
           status |-> "queued", result |-> "none", detail |-> "none"]

Task(status, url, failure) == [status |-> status, url |-> url, failure |-> failure]
NoTask == Task("none", FALSE, FALSE)
Output(status, source, persistence, error) ==
    [status |-> status, source |-> source, persistence |-> persistence, error |-> error,
     video |-> persistence = "persisted", issue |-> persistence = "failed"]
NoOutput == Output("none", FALSE, "not_applicable", FALSE)
PollPlaces == {"idle", "asking", "parsed", "answered", "error", "raised", "invalid"}

VodTypeOK ==
    /\ poll.at \in PollPlaces /\ poll.kind \in Kinds /\ poll.persist \in BOOLEAN
    /\ poll.attempts \in 0 .. MaxPollAttempts
    /\ poll.body \in Bodies

VodInit ==
    poll = [at |-> "idle", kind |-> "transcode", persist |-> FALSE, attempts |-> 0,
            body |-> NoBody, task |-> NoTask, output |-> NoOutput]

-----------------------------------------------------------------------------
(* What a DTO accepts                                                      *)

EnhancementParses(b) == b.success /\ b.type = "own" /\ b.result # "empty"
TranscodeParses(b) == b.success /\ b.result # "empty"
SeparationParses(b) == b.success
SubtitleParses(b) == b.success /\ b.type # "missing" /\ b.result # "empty"
Parses(kind, b) ==
    b.json /\ \/ kind = "enhancement" /\ EnhancementParses(b)
              \/ kind = "transcode" /\ TranscodeParses(b)
              \/ kind = "separation" /\ SeparationParses(b)
              \/ kind = "subtitle" /\ SubtitleParses(b)

(* What get() accepts of it: enhancement and subtitle polls compare the    *)
(* task id, the latter also the type.                                      *)

EnhancementAccepts(b) ==
    /\ b.sameTask
    /\ b.status \in {"completed", "failed", "running"}
    /\ b.status = "completed" => b.result # "none"
TranscodeAccepts(b) ==
    /\ b.status \in {"completed", "failed", "running"}
    /\ b.status = "completed" => b.result = "urls"
\* Mutant: a completed task is taken without a look at its tracks.
SeparationAcceptsAny(b) ==
    /\ b.status \in {"completed", "failed", "running"}
    /\ b.status = "completed" => b.result # "none"
SeparationAccepts(b) ==
    /\ b.status \in {"completed", "failed", "running"}
    /\ b.status = "completed" => b.result = "urls"
SubtitleAccepts(b) ==
    /\ b.sameTask /\ b.type = "own"
    /\ b.status \in {"completed", "failed", "running", "processing"}
    /\ b.status = "completed" => b.result # "none"
Accepts(kind, b) ==
    \/ kind = "enhancement" /\ EnhancementAccepts(b)
    \/ kind = "transcode" /\ TranscodeAccepts(b)
    \/ kind = "separation" /\ SeparationAccepts(b)
    \/ kind = "subtitle" /\ SubtitleAccepts(b)

\* sanitize_task_error() and reject_blank_optional_strings(): a blank message is
\* replaced by the fallback, a blank code dropped.
Sanitized(detail) == IF detail = "text" THEN "text" ELSE "fallback"

\* The normalised task of an accepted body.
Normalised(b) ==
    IF b.status = "completed" THEN Task("succeeded", b.result = "urls", FALSE)
    ELSE IF b.status = "failed" THEN Task("failed", FALSE, Sanitized(b.detail) # "blank")
    ELSE Task("processing", FALSE, FALSE)

(* The validators of the task models.                                      *)

ValidEnhancementTask(t) ==
    /\ t.status = "succeeded" => t.url /\ ~ t.failure
    /\ t.status = "processing" => ~ t.url /\ ~ t.failure
    /\ t.status = "failed" => ~ t.url
ValidTranscodeTask(t) ==
    /\ t.status = "succeeded" => t.url /\ ~ t.failure
    /\ t.status = "processing" => ~ t.url
    /\ t.status = "failed" => t.failure
ValidSeparateVoiceTask(t) ==
    /\ t.status = "succeeded" => t.url /\ ~ t.failure
    /\ t.status = "processing" => ~ t.url
    /\ t.status = "failed" => t.failure
ValidSubtitleTask(t) ==
    /\ t.status = "succeeded" => t.url /\ ~ t.failure
    /\ t.status = "processing" => ~ t.url /\ ~ t.failure
    /\ t.status = "failed" => t.failure
ValidTask(kind, t) ==
    \/ kind = "enhancement" /\ ValidEnhancementTask(t)
    \/ kind = "transcode" /\ ValidTranscodeTask(t)
    \/ kind = "separation" /\ ValidSeparateVoiceTask(t)
    \/ kind = "subtitle" /\ ValidSubtitleTask(t)

(* The validators of the outputs.                                          *)

ValidVideoOutput(o) ==
    /\ o.status = "processing" => ~ o.source /\ ~ o.video /\ o.persistence = "not_applicable"
    /\ o.status = "succeeded" =>
          /\ o.source /\ o.persistence # "not_applicable" /\ ~ o.error
          /\ o.persistence = "persisted" => o.video /\ ~ o.issue
          /\ o.persistence = "failed" => o.issue
          /\ o.persistence = "not_requested" => ~ o.video /\ ~ o.issue
    /\ o.status = "failed" => o.error
ValidTrack(o) ==
    /\ o.persistence = "not_requested" => ~ o.video /\ ~ o.issue
    /\ o.persistence = "persisted" => o.video /\ ~ o.issue
    /\ o.persistence = "failed" => o.issue
ValidSeparationOutput(o) ==
    /\ o.status = "processing" => ~ o.source /\ ~ o.error
    /\ o.status = "succeeded" => o.source /\ ValidTrack(o) /\ ~ o.error
    /\ o.status = "failed" => o.error
ValidOutput(kind, o) ==
    IF kind = "separation" THEN ValidSeparationOutput(o) ELSE ValidVideoOutput(o)

-----------------------------------------------------------------------------
Poll(kind, persist) ==
    /\ poll.at = "idle"
    /\ poll' = [poll EXCEPT !.at = "asking", !.kind = kind, !.persist = persist, !.attempts = 1]

\* A transport failure or an error status: only 429 is repeated, a timeout of a
\* read is not.
PollFails(failure) ==
    /\ poll.at = "asking"
    /\ poll' = IF failure = "429" /\ poll.attempts < MaxPollAttempts
               THEN [poll EXCEPT !.attempts = @ + 1]
               ELSE [poll EXCEPT !.at = "error"]

\* get() of the four services: INVALID_RESPONSE, or a task, which its model may
\* still refuse.
Receive(b) ==
    /\ poll.at = "asking"
    /\ poll' = IF ~ (Parses(poll.kind, b) /\ Accepts(poll.kind, b))
               THEN [poll EXCEPT !.at = "error", !.body = b]
               ELSE [poll EXCEPT !.body = b, !.task = Normalised(b),
                                 !.at = IF ValidTask(poll.kind, Normalised(b))
                                        THEN "parsed" ELSE "invalid"]

\* The tool's output, which its model may refuse.
AnswerWith(o) ==
    poll' = [poll EXCEPT !.output = o,
                         !.at = IF ValidOutput(poll.kind, o) THEN "answered" ELSE "invalid"]

\* A finished task: its output is copied, or found in the cache, or not, when
\* the caller asked for it; the source URL stays in the answer.
AnswerSucceeded ==
    /\ poll.at = "parsed" /\ poll.task.status = "succeeded"
    /\ \E outcome \in (IF poll.persist THEN {"persisted", "failed"} ELSE {"not_requested"}) :
          AnswerWith(Output("succeeded", poll.task.url, outcome, FALSE))

\* The cache cannot be read or written: the enhancement and the subtitle polls
\* go on without it, the others raise.
CacheRaises(kind) == kind \in {"transcode", "separation"}
CacheFails ==
    /\ poll.at = "parsed" /\ poll.task.status = "succeeded" /\ poll.persist
    /\ CacheRaises(poll.kind)
    /\ poll' = [poll EXCEPT !.at = "raised"]

AnswerUnfinished ==
    /\ poll.at = "parsed" /\ poll.task.status \in {"failed", "processing"}
    /\ AnswerWith(Output(poll.task.status, FALSE, "not_applicable", poll.task.status = "failed"))

VodNext ==
    \/ \E kind \in Kinds, persist \in BOOLEAN : Poll(kind, persist)
    \/ \E failure \in Failures : PollFails(failure)
    \/ \E b \in Bodies : Receive(b)
    \/ AnswerSucceeded \/ CacheFails \/ AnswerUnfinished

VodSpec == VodInit /\ [][VodNext]_poll

-----------------------------------------------------------------------------
(* Property                                                                *)

\* Whatever body the provider sends, the models of a later layer never refuse
\* what an earlier one let through, and the answer says what the provider said:
\* a completed task with its URL, whether the copy worked or not ("persistence:
\* outcome ... independent of provider success"), a failed one with its error.
VodStateIsReported ==
    /\ poll.at # "invalid"
    /\ poll.at = "answered" =>
          /\ (poll.output.status = "succeeded" /\ poll.output.source)
                <=> (poll.body.status = "completed")
          /\ poll.output.error <=> (poll.body.status = "failed")
=============================================================================
