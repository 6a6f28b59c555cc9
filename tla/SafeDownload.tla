---------------------------- MODULE SafeDownload ----------------------------
(***************************************************************************)
(* SafeDownloader.download() of a provider's output, and what the artifact *)
(* store makes of it: every hop is validated, resolved, connected to by    *)
(* the address that was checked, read up to a limit and, when it is a      *)
(* redirect, followed by hand.                                             *)
(*                                                                         *)
(* A location is its syntax and its host; a resolver answers what it likes *)
(* each time it is asked.                                                  *)
(***************************************************************************)
EXTENDS Naturals

CONSTANTS
    MaxRedirects,     \* max_redirects
    MaxOutput         \* max_bytes, in units of a chunk

ASSUME DownloadAssumption == MaxRedirects \in Nat /\ MaxOutput \in Nat \ {0}

VARIABLE fetch

\* wellFormed: HTTPS without credentials, on port 443, no metadata host.
Locations == [wellFormed : BOOLEAN, trusted : BOOLEAN]
Addresses == {"public", "other public", "private"}
IsBlockedAddress(a) == a = "private"

FetchPlaces == {"idle", "validating", "connecting", "reading", "storing", "stored", "failed"}
ResponseStatuses == {"ok", "gone", "rejected", "unavailable"}

\* The codes of ArtifactPersistenceError.
StoreCodes == {"untrusted_output_host", "output_too_large", "source_expired",
               "download_failed", "invalid_output_mime", "storage_failed"}

NoFetch == [at |-> "idle", hop |-> 0, location |-> [wellFormed |-> FALSE, trusted |-> FALSE],
            checked |-> {}, address |-> "none", contacted |-> 0, status |-> "ok",
            units |-> 0, code |-> "none", retryable |-> FALSE]

DownloadTypeOK ==
    fetch \in [at : FetchPlaces, hop : 0 .. MaxRedirects, location : Locations,
               checked : SUBSET Addresses, address : Addresses \cup {"none"},
               contacted : 0 .. MaxRedirects + 1, status : ResponseStatuses,
               units : 0 .. MaxOutput + 1, code : StoreCodes \cup {"none"}, retryable : BOOLEAN]

DownloadInit == fetch = NoFetch

-----------------------------------------------------------------------------
\* _translate_download_error().
Translated(code) ==
    IF code \in {"untrusted_host", "redirect_rejected"} THEN "untrusted_output_host"
    ELSE IF code = "too_large" THEN "output_too_large"
    ELSE IF code = "source_expired" THEN code ELSE "download_failed"

DownloadError(code, retryable) ==
    [fetch EXCEPT !.at = "failed", !.code = Translated(code), !.retryable = retryable]

\* The same refusal has another name after a redirect.
Refused(code) == DownloadError(IF fetch.hop = 0 THEN code ELSE "redirect_rejected", FALSE)

BeginDownload(location) ==
    /\ fetch.at = "idle"
    /\ fetch' = [fetch EXCEPT !.at = "validating", !.location = location]

\* validate_url(): the resolver's answer must be public to the last address;
\* then the host must be trusted.
ValidateHop(answer) ==
    /\ fetch.at = "validating"
    /\ fetch' =
          IF ~ fetch.location.wellFormed \/ answer = {} \/ \E a \in answer : IsBlockedAddress(a)
          THEN Refused("invalid_url")
          ELSE IF ~ fetch.location.trusted THEN Refused("untrusted_host")
          ELSE [fetch EXCEPT !.at = "connecting", !.checked = answer]

\* Mutant: the connection is made by name, and the name resolved once more.
ConnectAddressesByName == Addresses
\* _request_pinned(): one of the addresses that were checked.
ConnectAddresses == fetch.checked

Connect(address) ==
    /\ fetch.at = "connecting" /\ address \in ConnectAddresses
    /\ fetch' = [fetch EXCEPT !.at = "reading", !.address = address, !.units = 0,
                              !.contacted = @ + 1]

\* httpx.TimeoutException, httpx.TransportError.
ConnectionFails ==
    /\ fetch.at \in {"connecting", "reading"}
    /\ fetch' = DownloadError("network_error", TRUE)

\* The body of a redirect is not read.
Redirected(hasTarget, location) ==
    /\ fetch.at = "reading" /\ fetch.units = 0
    /\ fetch' = IF ~ hasTarget \/ fetch.hop = MaxRedirects
                THEN DownloadError("redirect_rejected", FALSE)
                ELSE [fetch EXCEPT !.at = "validating", !.hop = @ + 1, !.location = location,
                                   !.checked = {}]

\* A content-length above the limit; one that cannot be read counts as zero.
DeclaredTooLarge ==
    /\ fetch.at = "reading" /\ fetch.units = 0
    /\ fetch' = DownloadError("too_large", FALSE)

ReceiveChunk ==
    /\ fetch.at = "reading"
    /\ fetch' = IF fetch.units + 1 > MaxOutput
                THEN [DownloadError("too_large", FALSE) EXCEPT !.units = @ + 1]
                ELSE [fetch EXCEPT !.units = @ + 1]

\* The status counts only once the whole body is there.
BodyEnds(status) ==
    /\ fetch.at = "reading"
    /\ fetch' = [(IF status = "ok" THEN [fetch EXCEPT !.at = "storing"]
                  ELSE IF status = "gone" THEN DownloadError("source_expired", FALSE)
                  ELSE DownloadError("http_error", status = "unavailable"))
                    EXCEPT !.status = status]

\* copy_from_trusted_url() after the download: a media type that is not
\* supported, a disk that is full, or an artifact.
Store ==
    /\ fetch.at = "storing"
    /\ \/ fetch' = [fetch EXCEPT !.at = "stored"]
       \/ fetch' = [fetch EXCEPT !.at = "failed", !.code = "invalid_output_mime"]
       \/ fetch' = [fetch EXCEPT !.at = "failed", !.code = "storage_failed", !.retryable = TRUE]

DownloadNext ==
    \/ \E location \in Locations : BeginDownload(location)
    \/ \E answer \in SUBSET Addresses : ValidateHop(answer)
    \/ \E address \in Addresses : Connect(address)
    \/ \E hasTarget \in BOOLEAN, location \in Locations : Redirected(hasTarget, location)
    \/ \E status \in ResponseStatuses : BodyEnds(status)
    \/ DeclaredTooLarge \/ ReceiveChunk \/ ConnectionFails \/ Store

DownloadSpec == DownloadInit /\ [][DownloadNext]_fetch

-----------------------------------------------------------------------------
(* Property                                                                *)

\* On no hop is anything but a checked, public address of a trusted host spoken
\* to, whatever the resolver says later; a download is bounded in requests and
\* in memory; what is stored is the whole body of a success within the limit;
\* no refusal of an address or a host invites a retry.
DownloadIsConfined ==
    /\ fetch.at \in {"reading", "storing", "stored"} =>
          /\ ~ IsBlockedAddress(fetch.address) /\ fetch.address \in fetch.checked
          /\ fetch.location.trusted /\ fetch.location.wellFormed
    /\ fetch.contacted <= fetch.hop + 1
    /\ fetch.at = "stored" => fetch.status = "ok" /\ fetch.units <= MaxOutput
    /\ fetch.code \in {"untrusted_output_host", "output_too_large"} => ~ fetch.retryable
=============================================================================
