----------------------------- MODULE ObjectKeys -----------------------------
(***************************************************************************)
(* media_upload, media_presign and media_presign_batch, and the table      *)
(* object_key_ownership of SQLiteObjectKeyOwnershipStore.                  *)
(*                                                                         *)
(* An upload puts the object into the bucket, signs a URL for it and       *)
(* records its owner last, each a step that may fail or be cancelled.      *)
(* Signing again requires the owner, and renews the row's created_at, so   *)
(* that prune() removes keys that were not used for a while.  The bucket   *)
(* is external; nothing is ever removed from it.                           *)
(*                                                                         *)
(* A key's shape is what the validators tell apart: "plain" keys match     *)
(* validate_object_key(); "odd" ones come from a key_prefix that ends in   *)
(* "/", begins with "/", "-" or "_", or contains "//".                     *)
(***************************************************************************)
EXTENDS OwnershipRows, FiniteSets, Sequences

CONSTANTS
    Keys,        \* object keys
    ShapeOf,     \* the shape of each
    UploaderOf,  \* who uploads each
    MaxBatch,    \* bound: keys in a presign request (100 in the code)
    MaxKeyDay    \* bound: last day

ASSUME KeysAssumption ==
    UploaderOf \in [Keys -> Principals] /\ ShapeOf \in [Keys -> {"plain", "odd"}]
ASSUME KeyBounds == MaxBatch \in Nat /\ MaxKeyDay \in Nat

VARIABLES
    keyRows,   \* object_key_ownership
    keyDay,    \* the date
    objects,   \* the bucket
    upload,    \* where the upload of each key is
    batch,     \* a presign request: its caller, the keys to go, the items so far
    used,      \* the last day each key was recorded or signed for its owner (history)
    urls       \* <<principal, key>>: URLs handed out by presigning (history)

keyVars == <<keyRows, keyDay, objects, upload, batch, used, urls>>

-----------------------------------------------------------------------------
UploadPlaces == {"idle", "uploading", "signing", "recording", "answered", "failed"}
PresignCodes == {"url", "INVALID_KEY", "NOT_OWNED", "provider", "INTERNAL"}
KeySeqs == UNION {[1 .. n -> Keys] : n \in 1 .. MaxBatch}
NoBatch == [at |-> "idle", by |-> CHOOSE o \in Principals : TRUE, keys |-> <<>>, items |-> <<>>]

KeysTypeOK ==
    /\ keyRows \subseteq OwnerRow(Keys, 0 .. MaxKeyDay)
    /\ keyDay \in 0 .. MaxKeyDay
    /\ objects \subseteq Keys
    /\ upload \in [Keys -> UploadPlaces]
    /\ batch.at \in {"idle", "owner", "sign"} /\ batch.by \in Principals \cup {NoBatch.by}
    /\ batch.keys \in Seq(Keys) /\ batch.items \in Seq(PresignCodes)
    /\ Len(batch.items) <= Len(batch.keys) /\ Len(batch.keys) <= MaxBatch
    /\ used \in [Keys -> 0 .. MaxKeyDay]
    /\ urls \subseteq Principals \X Keys

KeysInit ==
    /\ keyRows = {}
    /\ keyDay = 0
    /\ objects = {}
    /\ upload = [k \in Keys |-> "idle"]
    /\ batch = NoBatch
    /\ used = [k \in Keys |-> 0]
    /\ urls = {}

\* Mutant: the date of the first record stays.
RenewedOnce(k, o) == Recorded(keyRows, k, o, keyDay)

\* record(): unlike a task's row, the row of a key takes the new date.
Renewed(k, o) == (keyRows \ RowsOf(keyRows, k)) \cup {[key |-> k, owner |-> o, at |-> keyDay]}

-----------------------------------------------------------------------------
(* media_upload                                                            *)

AcceptsPrefix(k) == ShapeOf[k] \in {"plain", "odd"}
StartUpload(k) ==
    /\ upload[k] = "idle"
    /\ AcceptsPrefix(k)
    /\ upload' = [upload EXCEPT ![k] = "uploading"]
    /\ UNCHANGED <<keyRows, keyDay, objects, batch, used, urls>>

PutObject(k) ==
    /\ upload[k] = "uploading"
    /\ upload' = [upload EXCEPT ![k] = "signing"]
    /\ objects' = objects \cup {k}
    /\ UNCHANGED <<keyRows, keyDay, batch, used, urls>>

SignUpload(k) ==
    /\ upload[k] = "signing"
    /\ upload' = [upload EXCEPT ![k] = "recording"]
    /\ UNCHANGED <<keyRows, keyDay, objects, batch, used, urls>>

RecordKey(k) ==
    /\ upload[k] = "recording"
    /\ upload' = [upload EXCEPT ![k] = "answered"]
    /\ keyRows' = Renewed(k, UploaderOf[k])
    /\ used' = [used EXCEPT ![k] = keyDay]
    /\ UNCHANGED <<keyDay, objects, batch, urls>>

\* The provider or the store fails, the client is gone or the process dies:
\* an object sent may be in the bucket, a row may be entered by its thread.
UploadFails(k) ==
    /\ upload[k] \in {"uploading", "signing", "recording"}
    /\ upload' = [upload EXCEPT ![k] = "failed"]
    /\ \/ UNCHANGED <<objects, keyRows, used>>
       \/ upload[k] = "uploading" /\ objects' = objects \cup {k} /\ UNCHANGED <<keyRows, used>>
       \/ /\ upload[k] = "recording"
          /\ keyRows' = Renewed(k, UploaderOf[k])
          /\ used' = [used EXCEPT ![k] = keyDay]
          /\ UNCHANGED objects
    /\ UNCHANGED <<keyDay, batch, urls>>

-----------------------------------------------------------------------------
(* media_presign (a batch of one that fails as a whole) and its batch form *)

StartPresign(o, ks) ==
    /\ batch.at = "idle"
    /\ batch' = [NoBatch EXCEPT !.at = "owner", !.by = o, !.keys = ks]
    /\ UNCHANGED <<keyRows, keyDay, objects, upload, used, urls>>

Current == batch.keys[Len(batch.items) + 1]

\* The next key, or the end: every key has its item.
WithItem(code) ==
    IF Len(batch.items) + 1 = Len(batch.keys) THEN NoBatch
    ELSE [batch EXCEPT !.at = "owner", !.items = Append(@, code)]

ValidKey(k) == ShapeOf[k] = "plain"

\* validate_object_key() and require_owner(), which renews the row it finds.
RequireKeyOwner ==
    /\ batch.at = "owner"
    /\ \/ /\ ~ ValidKey(Current)
          /\ batch' = WithItem("INVALID_KEY")
          /\ UNCHANGED <<keyRows, used>>
       \/ /\ ValidKey(Current) /\ ~ MayUse(keyRows, Current, batch.by)
          /\ batch' = WithItem("NOT_OWNED")
          /\ UNCHANGED <<keyRows, used>>
       \/ /\ ValidKey(Current) /\ MayUse(keyRows, Current, batch.by)
          /\ batch' = [batch EXCEPT !.at = "sign"]
          /\ keyRows' = IF HasRow(keyRows, Current) THEN Renewed(Current, batch.by) ELSE keyRows
          /\ used' = IF HasRow(keyRows, Current) THEN [used EXCEPT ![Current] = keyDay] ELSE used
    /\ UNCHANGED <<keyDay, objects, upload, urls>>

\* The signature is computed for any key, in the bucket or not.
SignKey ==
    /\ batch.at = "sign"
    /\ urls' = urls \cup {<<batch.by, Current>>}
    /\ batch' = WithItem("url")
    /\ UNCHANGED <<keyRows, keyDay, objects, upload, used>>

PresignFails ==
    /\ batch.at \in {"owner", "sign"}
    /\ batch' \in {WithItem("INTERNAL"), NoBatch}
    /\ UNCHANGED <<keyRows, keyDay, objects, upload, used, urls>>

-----------------------------------------------------------------------------
PruneKeys ==
    /\ keyRows' = PrunedRows(keyRows, keyDay)
    /\ keyRows' # keyRows
    /\ UNCHANGED <<keyDay, objects, upload, batch, used, urls>>

NextKeyDay ==
    /\ keyDay < MaxKeyDay
    /\ keyDay' = keyDay + 1
    /\ UNCHANGED <<keyRows, objects, upload, batch, used, urls>>

KeysNext ==
    \/ \E k \in Keys : StartUpload(k) \/ PutObject(k) \/ SignUpload(k) \/ RecordKey(k) \/ UploadFails(k)
    \/ \E o \in Principals, ks \in KeySeqs : StartPresign(o, ks)
    \/ RequireKeyOwner \/ SignKey \/ PresignFails \/ PruneKeys \/ NextKeyDay

KeysSpec == KeysInit /\ [][KeysNext]_keyVars

-----------------------------------------------------------------------------
(* Properties                                                              *)

\* A key stays its owner's for the whole retention after its last use: signing
\* a URL renews the row (docs of require_owner), so a key in use is never lost.
UsedKeysStay ==
    \A k \in Keys :
        upload[k] = "answered" /\ keyDay <= used[k] + RetentionDays
            => \E r \in keyRows : r.key = k /\ r.owner = UploaderOf[k]

\* A remote principal gets URLs of its own uploads only, also of objects whose
\* record was never made or was pruned.
UrlsArePrivate ==
    \A u \in urls : u[1] \notin LocalPrincipals => u[1] = UploaderOf[u[2]]

\* What media_upload returned, media_presign takes: "object key returned by a
\* prior media_upload call" is its input.
UploadedIsPresignable == \A k \in Keys : upload[k] = "answered" => ValidKey(k)
=============================================================================
