----------------------------- MODULE ToolCalls ------------------------------
(***************************************************************************)
(* One call of a tool that asks a provider for an output or a VOD task:    *)
(* checks, the billed slot or the bare limiter, the service and its        *)
(* errors, and what the handler does with a success: storing each image or *)
(* sound, copying a video, recording the owner of a task.                  *)
(*                                                                         *)
(* BilledCall has the slot, the limiters and many calls at once; here they *)
(* are one step, and what differs between the tools is kept: which errors  *)
(* are normalised, which are ambiguous, what a failing store does.  Checks *)
(* of models, sizes and sources have no effect and may refuse.             *)
(***************************************************************************)
EXTENDS Naturals, Sequences

CONSTANTS
    MaxImages,         \* bound: items of an image response
    MaxToolAttempts    \* RetryPolicy.max_attempts

ASSUME ToolAssumption == MaxImages \in Nat \ {0} /\ MaxToolAttempts \in Nat \ {0}

VARIABLE call

-----------------------------------------------------------------------------
ImageTools == {"seedream_generate_image", "seedream_edit_image"}
SpeechTools == {"seed_audio_generate", "speech_to_text"}
BilledTools == ImageTools \cup SpeechTools \cup {"seed_understand"}
SubtitleTools == {"vod_add_subtitles", "vod_remove_subtitles"}
SubmitTools == SubtitleTools \cup {"vod_transcode_video", "vod_separate_audio"}
Tools == BilledTools \cup SubmitTools \cup {"vod_enhance_video"}

\* What an item of a success body carries; "none" has neither field, in "empty"
\* one is an empty string and the other no better.
Contents == {"data", "url", "both", "none", "empty"}
HasData(c) == c \in {"data", "both"}
HasUrl(c) == c \in {"url", "both"}

\* Success bodies: images, a sound, a text, an accepted task, a finished video.
Shapes(t) ==
    IF t \in ImageTools THEN UNION {[1 .. n -> Contents] : n \in 0 .. MaxImages}
    ELSE IF t = "seed_audio_generate" THEN {<<c>> : c \in Contents}
    ELSE IF t = "vod_enhance_video" THEN {<<"task">>, <<"video">>}
    ELSE IF t \in SubmitTools THEN {<<"task">>} ELSE {<<"text">>}

CallPlaces == {"idle", "checking", "calling", "handling", "answered", "error", "raised", "cancelled"}
Money == {"none", "reserved", "committed", "released"}
NoCall == [tool |-> "seed_understand", persist |-> FALSE, at |-> "idle", attempts |-> 0,
           money |-> "none", items |-> <<>>, next |-> 1, refs |-> <<>>, errors |-> {},
           source |-> FALSE, owned |-> FALSE]

ToolTypeOK ==
    /\ call.tool \in Tools /\ call.persist \in BOOLEAN /\ call.at \in CallPlaces
    /\ call.attempts \in 0 .. MaxToolAttempts /\ call.money \in Money
    /\ call.items \in Seq(Contents \cup {"task", "video", "text"})
    /\ call.next \in 1 .. Len(call.items) + 1
    /\ call.refs \in Seq((1 .. MaxImages) \X {"artifact", "url"})

ToolInit == call = NoCall

-----------------------------------------------------------------------------
(* Before the provider                                                     *)

InvokeTool(t, persist) ==
    /\ call.at = "idle"
    /\ call' = [call EXCEPT !.at = "checking", !.tool = t, !.persist = persist]

\* No credential, a model that lacks the feature, a source that is refused.
RefuseInput ==
    /\ call.at = "checking"
    /\ \E end \in (IF call.tool \in BilledTools \ {"speech_to_text"} THEN {"raised"}
                   ELSE {"raised", "error"}) : call' = [call EXCEPT !.at = end]

\* BudgetExceededError.
RefuseBudget ==
    /\ call.at = "checking" /\ call.tool \in BilledTools
    /\ call' = [call EXCEPT !.at = "raised"]

EnterSlot ==
    /\ call.at = "checking"
    /\ call' = [call EXCEPT !.at = "calling", !.attempts = 1,
                            !.money = IF call.tool \in BilledTools THEN "reserved" ELSE "none"]

-----------------------------------------------------------------------------
(* The provider's answers that are no success                              *)

\* unreadable: a 2xx that is not JSON; misshapen: JSON that the DTO refuses;
\* coded: a 2xx with an error code (Seed Audio), a failed or late transcription.
Troubles == {"timeout", "connect", "transport", "429", "5xx", "4xx",
             "unreadable", "misshapen", "coded"}

ModelArkVerdict(k) ==
    IF k \in {"timeout", "5xx"} THEN "ambiguous"
    ELSE IF k \in {"misshapen", "coded"} THEN "exception" ELSE "failure"
SeedAudioVerdict(k) ==
    IF k \in {"timeout", "5xx"} THEN "ambiguous"
    ELSE IF k \in {"unreadable", "misshapen"} THEN "exception" ELSE "failure"
AsrVerdict(k) ==
    IF k \in {"timeout", "5xx"} THEN "ambiguous"
    ELSE IF k = "misshapen" THEN "exception" ELSE "failure"
MediaKitVerdict(k) ==
    IF k \in {"timeout", "connect", "transport", "5xx"} THEN "ambiguous" ELSE "failure"
SubtitleVerdict(k) ==
    IF k \in {"timeout", "connect", "transport", "5xx", "unreadable", "misshapen"}
    THEN "ambiguous" ELSE "failure"
Verdict(t, k) ==
    IF t \in ImageTools \cup {"seed_understand"} THEN ModelArkVerdict(k)
    ELSE IF t = "seed_audio_generate" THEN SeedAudioVerdict(k)
    ELSE IF t = "speech_to_text" THEN AsrVerdict(k)
    ELSE IF t \in SubtitleTools THEN SubtitleVerdict(k)
    ELSE MediaKitVerdict(k)

\* call_with_retry; the MediaKit handlers call the service once.
RepeatsCall(t, k) ==
    /\ t \in BilledTools
    /\ k \in {"connect", "transport", "429"} /\ Verdict(t, k) # "ambiguous"
    /\ call.attempts < MaxToolAttempts

Settled(verdict) ==
    IF call.tool \notin BilledTools THEN "none"
    ELSE IF verdict \in {"success", "ambiguous"} THEN "committed" ELSE "released"

ProviderFails(k) ==
    /\ call.at = "calling"
    /\ \/ /\ RepeatsCall(call.tool, k)
          /\ call' = [call EXCEPT !.attempts = @ + 1]
       \/ /\ ~ RepeatsCall(call.tool, k)
          /\ call' = [call EXCEPT !.money = Settled(Verdict(call.tool, k)),
                                  !.at = IF Verdict(call.tool, k) = "exception"
                                         THEN "raised" ELSE "error"]

ProviderSucceeds(items) ==
    /\ call.at = "calling"
    /\ call' = [call EXCEPT !.at = "handling", !.items = items, !.money = Settled("success")]

-----------------------------------------------------------------------------
(* After a success                                                         *)

Skip == [call EXCEPT !.next = @ + 1]
WithRef(kind) == [call EXCEPT !.next = @ + 1, !.refs = Append(@, <<call.next, kind>>)]
Raise == [call EXCEPT !.at = "raised"]

\* Mutant: a store that fails leaves the image out.
StoredOrSkipped == {WithRef("artifact"), Skip}
\* put_base64 and copy_from_trusted_url: what they raise fails the call.
Stored == {WithRef("artifact"), Raise}

\* The next image: its data, else its URL, is stored; without persist only an
\* URL is returned.
HandleImage ==
    /\ call.at = "handling" /\ call.tool \in ImageTools /\ call.next <= Len(call.items)
    /\ LET c == call.items[call.next]
       IN  call' \in IF call.persist
                     THEN IF HasData(c) \/ HasUrl(c) THEN Stored ELSE {Skip}
                     ELSE IF HasUrl(c) THEN {WithRef("url")} ELSE {Skip}

\* extract_item_errors(): an item without either field is reported, here by its
\* place.
FinishImages ==
    /\ call.at = "handling" /\ call.tool \in ImageTools /\ call.next > Len(call.items)
    /\ call' = [call EXCEPT !.at = "answered",
                            !.errors = {i \in 1 .. Len(call.items) : call.items[i] = "none"}]

\* Data is stored when asked for, else the URL is returned, else the call fails.
HandleAudio ==
    /\ call.at = "handling" /\ call.tool = "seed_audio_generate"
    /\ LET c == call.items[1]
           answer(kind) == [WithRef(kind) EXCEPT !.at = "answered", !.source = HasUrl(c)]
       IN  call' \in IF call.persist /\ HasData(c) THEN {answer("artifact"), Raise}
                     ELSE IF HasUrl(c) THEN {answer("url")} ELSE {Raise}

HandleText ==
    /\ call.at = "handling" /\ call.tool \in {"seed_understand", "speech_to_text"}
    /\ call' = [call EXCEPT !.at = "answered"]

\* record(), whose failure fails the call.
RecordTask ==
    /\ call.at = "handling" /\ call.items = <<"task">>
    /\ call' \in {[call EXCEPT !.at = "answered", !.owned = TRUE], Raise}

\* A video at once: the copy is best effort, its URL is returned in any case.
HandleVideo ==
    /\ call.at = "handling" /\ call.items = <<"video">>
    /\ LET answer == [call EXCEPT !.at = "answered", !.source = TRUE]
       IN  call' \in IF call.persist THEN {answer, [answer EXCEPT !.refs = << <<1, "artifact">> >>]}
                     ELSE {answer}

\* The client is gone.
CancelTool ==
    /\ call.at \in {"calling", "handling"}
    /\ call' = [call EXCEPT !.at = "cancelled"]

ToolNext ==
    \/ \E t \in Tools, persist \in BOOLEAN : InvokeTool(t, persist)
    \/ RefuseInput \/ RefuseBudget \/ EnterSlot
    \/ \E k \in Troubles : ProviderFails(k)
    \/ \E items \in Shapes(call.tool) : ProviderSucceeds(items)
    \/ HandleImage \/ FinishImages \/ HandleAudio \/ HandleText \/ RecordTask \/ HandleVideo
    \/ CancelTool

ToolSpec == ToolInit /\ [][ToolNext]_call

-----------------------------------------------------------------------------
(* Property                                                                *)

\* What an answered call hands out of a success: with persist every image that
\* has a content, in order and as an artifact, without it every one that has a
\* URL; item errors for exactly those without either field, so that an empty
\* string, and data nobody asked to store, are in neither list; one sound, an
\* artifact if its data came and was asked for, else the provider's URL; a task
\* its caller may poll.  A finished video is never lost to a failing copy
\* ("provider success may already be billable"); of the other successes a store
\* or a record that fails, or a cancellation, leaves nothing but the charge.
AnswersAreExact ==
    /\ call.at = "answered" /\ call.tool \in ImageTools =>
          /\ {call.refs[n][1] : n \in DOMAIN call.refs} =
                {i \in DOMAIN call.items :
                    HasUrl(call.items[i]) \/ (call.persist /\ HasData(call.items[i]))}
          /\ call.errors = {i \in DOMAIN call.items : call.items[i] = "none"}
          /\ \A n \in DOMAIN call.refs :
                /\ call.refs[n][2] = IF call.persist THEN "artifact" ELSE "url"
                /\ n > 1 => call.refs[n - 1][1] < call.refs[n][1]
    /\ call.at = "answered" /\ call.tool = "seed_audio_generate" =>
          /\ Len(call.refs) = 1
          /\ call.refs[1][2] = IF call.persist /\ HasData(call.items[1])
                               THEN "artifact" ELSE "url"
    /\ call.at = "answered" /\ call.items = <<"task">> => call.owned
    /\ call.items = <<"video">> /\ call.at \notin {"handling", "cancelled"} =>
          call.at = "answered" /\ call.source
    /\ call.tool \in BilledTools /\ call.items # <<>> => call.money = "committed"
=============================================================================
