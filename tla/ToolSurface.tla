----------------------------- MODULE ToolSurface -----------------------------
(***************************************************************************)
(* What a server offers and to whom: settings are validated, the tools of  *)
(* every configured credential are registered with a scope and a task      *)
(* mode, and a request reaches a handler as a plain call, as a native MCP  *)
(* task or through ark_job_submit, each path with checks of its own.       *)
(*                                                                         *)
(* A scope is abstracted to whether the token grants the one of the tool   *)
(* asked for.  Over stdio there is no token: that JWT needs HTTP is an     *)
(* assumption here, not a check of the code.                               *)
(***************************************************************************)
EXTENDS Naturals, FiniteSets

CONSTANT AskedTools   \* bound: the tools that requests name

-----------------------------------------------------------------------------
(* Tools                                                                   *)

JobTools == {"ark_job_capabilities", "ark_job_submit", "ark_job_get", "ark_job_cancel"}
AudioTools == {"seed_audio_generate", "seed_audio_generate_variations"}
StorageTools == {"media_upload", "media_presign", "media_presign_batch"}
VodSubmitTools == {"vod_enhance_video", "vod_transcode_video", "vod_separate_audio",
                   "vod_add_subtitles", "vod_remove_subtitles"}
VodGetTools == {"vod_get_enhancement_task", "vod_get_transcode_task",
                "vod_get_audio_separation", "vod_get_subtitle_addition_task",
                "vod_get_subtitle_removal_task"}
ArkGenerationTools ==
    {"seedream_generate_image", "seedream_edit_image", "seedream_generate_image_variations",
     "seedance_create_task", "seedance_create_task_variations",
     "seedance_2_5_create_task", "seedance_2_5_create_task_variations", "seed_understand"}
ArkTaskTools == {"seedance_get_task", "seedance_list_tasks", "seedance_cancel_or_delete_task"}
Seed3DTools == {"hyper3d_create_task", "hyper3d_get_task", "hyper3d_list_tasks",
                "hyper3d_cancel_or_delete_task", "hitem3d_create_task", "hitem3d_get_task",
                "hitem3d_list_tasks", "hitem3d_cancel_or_delete_task"}

\* BACKGROUND_TOOL_SPECS by mode.
RequiredTools ==
    AudioTools \cup VodSubmitTools \cup ArkGenerationTools
        \cup {"media_upload", "speech_to_text", "hyper3d_create_task", "hitem3d_create_task"}
OptionalTools ==
    VodGetTools \cup {"seedance_get_task", "hyper3d_get_task", "hitem3d_get_task"}

\* The tools that ask for no scope.
ScopelessTools == JobTools

\* register_tools(): keys is the set of configured features.
RegisteredTools(keys) ==
    JobTools \cup {"seed_media_get_artifact"}
        \cup (IF "speech" \in keys THEN AudioTools \cup {"speech_to_text"} ELSE {})
        \cup (IF "storage" \in keys THEN StorageTools ELSE {})
        \cup (IF "vod" \in keys THEN VodSubmitTools \cup VodGetTools ELSE {})
        \cup (IF "modelark" \in keys THEN ArkGenerationTools \cup ArkTaskTools ELSE {})
        \cup (IF {"modelark", "seed3d"} \subseteq keys THEN Seed3DTools ELSE {})

-----------------------------------------------------------------------------
(* Settings                                                                *)

StorageParts == {"access", "secret", "bucket"}
HasStore(parts) == parts = StorageParts

\* models: the default model is known, has its family or a binding, or neither.
Settings ==
    [keys : SUBSET {"modelark", "seed3d", "speech", "vod"}, models : {"known", "bound", "custom"},
     auth : {"local", "jwt"}, jwks : BOOLEAN, discovery : BOOLEAN,
     transport : {"stdio", "http"}, host : {"loopback", "public"},
     tos : SUBSET StorageParts, s3 : SUBSET StorageParts, backend : {"tos", "s3"},
     artifacts : {"filesystem", "object_storage"}]

HasObjectStorage(s) == IF s.backend = "s3" THEN HasStore(s.s3) ELSE HasStore(s.tos)

\* validate_model_bindings(), which checks far more than its name says.
ValidSettings(s) ==
    /\ s.models # "custom"
    /\ s.auth = "jwt" => s.jwks
    /\ s.discovery => s.auth = "jwt"
    /\ s.transport = "http" /\ s.auth = "local" => s.host = "loopback"
    /\ "access" \in s.tos <=> "secret" \in s.tos
    /\ "access" \in s.s3 <=> "secret" \in s.s3
    /\ "access" \in s.s3 => "bucket" \in s.s3
    /\ s.backend = "s3" => HasStore(s.s3)
    /\ s.backend = "tos" /\ HasStore(s.s3) => HasStore(s.tos)
    /\ s.artifacts = "object_storage" => HasObjectStorage(s)

\* What the server keeps of its settings.
Configured(s) ==
    [keys |-> s.keys \cup (IF HasObjectStorage(s) THEN {"storage"} ELSE {}),
     auth |-> s.auth, transport |-> s.transport, host |-> s.host, artifacts |-> s.artifacts]

-----------------------------------------------------------------------------
VARIABLES
    surface,   \* the server's settings
    ask        \* the one request that is followed

surfaceVars == <<surface, ask>>

\* forged: what JWTVerifier refuses; endless: no exp; early: nbf beyond the skew.
Tokens == {"none", "forged", "endless", "early", "good"}
AskPlaces == {"unbuilt", "refused", "serving", "received", "queued", "running", "rejected"}
NoneAsked == [at |-> "unbuilt", tool |-> "ark_job_get", path |-> "plain", persist |-> FALSE,
          token |-> "none", grants |-> FALSE, tenant |-> FALSE]
Unbuilt == [keys |-> {}, auth |-> "local", transport |-> "stdio", host |-> "loopback",
            artifacts |-> "filesystem"]

SurfaceTypeOK ==
    /\ surface \in [keys : SUBSET {"modelark", "seed3d", "speech", "vod", "storage"},
                    auth : {"local", "jwt"}, transport : {"stdio", "http"},
                    host : {"loopback", "public"}, artifacts : {"filesystem", "object_storage"}]
    /\ ask \in [at : AskPlaces, tool : AskedTools \cup {"ark_job_get"},
                path : {"plain", "task", "job"}, persist : BOOLEAN, token : Tokens,
                grants : BOOLEAN, tenant : BOOLEAN]

SurfaceInit == surface = Unbuilt /\ ask = NoneAsked

\* create_server().
BuildServer(s) ==
    /\ ValidSettings(s) /\ (s.auth = "jwt" => s.transport = "http")
    /\ surface' = Configured(s) /\ ask' = [ask EXCEPT !.at = "serving"]

RefuseSettings(s) ==
    /\ ~ ValidSettings(s)
    /\ ask' = [ask EXCEPT !.at = "refused"] /\ UNCHANGED surface

-----------------------------------------------------------------------------
(* A request                                                               *)

RejectAsk == ask' = [ask EXCEPT !.at = "rejected"]
RunHandler == ask' = [ask EXCEPT !.at = "running"]

\* StrictJWTVerifier.verify_token().
Verified(token) == token = "good"

ReceiveRequest(tool, path, persist, token, grants, tenant) ==
    /\ surface.auth = "local" => token = "none"
    /\ ~ Verified(token) => ~ grants /\ ~ tenant
    /\ persist => tool \in OptionalTools
    /\ ask' = [at |-> IF surface.auth = "local" \/ Verified(token) THEN "received" ELSE "rejected",
               tool |-> tool, path |-> path, persist |-> persist, token |-> token,
               grants |-> grants, tenant |-> tenant]
    /\ UNCHANGED surface

\* get_principal() finds a subject and a tenant.
HasPrincipal == surface.auth = "local" \/ ask.tenant
\* component_auth() of the tool.
Authorised == surface.auth = "local" \/ ask.tool \in ScopelessTools \/ ask.grants
Offered == ask.tool \in RegisteredTools(surface.keys) /\ Authorised

\* In the foreground a required tool is refused by its task mode, an optional
\* one by its handler when it is to store its output.
PlainCall ==
    /\ ask.at = "received" /\ ask.path = "plain"
    /\ IF Offered /\ ask.tool \notin RequiredTools
          /\ ~ (ask.tool \in OptionalTools /\ ask.persist)
       THEN RunHandler ELSE RejectAsk
    /\ UNCHANGED surface

\* TenantTasksExtension.intercept_tool_call(): a tool that is no task is called
\* in the foreground or refused, as the library decides.
NativeTask ==
    /\ ask.at = "received" /\ ask.path = "task"
    /\ \/ ~ (HasPrincipal /\ Offered) /\ RejectAsk
       \/ /\ HasPrincipal /\ Offered /\ ask.tool \in RequiredTools \cup OptionalTools
          /\ ask' = [ask EXCEPT !.at = "queued"]
       \/ /\ HasPrincipal /\ Offered /\ ask.tool \notin RequiredTools \cup OptionalTools
          /\ RunHandler \/ RejectAsk
    /\ UNCHANGED surface

\* Mutant: any token may submit any job.
JobAuthorisedAny == TRUE
\* owner.is_local or the scope of the specification.
JobAuthorised == surface.auth = "local" \/ ask.grants

\* ark_job_submit(), itself open to every verified token.
SubmitJob ==
    /\ ask.at = "received" /\ ask.path = "job"
    /\ IF /\ ask.tool \in RequiredTools \cup OptionalTools
          /\ HasPrincipal /\ JobAuthorised
          /\ ask.tool \in RegisteredTools(surface.keys)
       THEN ask' = [ask EXCEPT !.at = "queued"] ELSE RejectAsk
    /\ UNCHANGED surface

\* The worker asks for no scope again: it runs what was queued.
WorkerStarts == ask.at = "queued" /\ RunHandler /\ UNCHANGED surface

SurfaceNext ==
    \/ ask.at = "unbuilt" /\ \E s \in Settings : BuildServer(s) \/ RefuseSettings(s)
    \/ ask.at = "serving" /\ \E tool \in AskedTools, path \in {"plain", "task", "job"}, persist \in BOOLEAN,
          token \in Tokens, grants \in BOOLEAN, tenant \in BOOLEAN :
          ReceiveRequest(tool, path, persist, token, grants, tenant)
    \/ PlainCall \/ NativeTask \/ SubmitJob \/ WorkerStarts

SurfaceSpec == SurfaceInit /\ [][SurfaceNext]_surfaceVars

-----------------------------------------------------------------------------
(* Property                                                                *)

\* A handler runs only where its feature is configured and, whichever path it
\* came by, for a token that grants its scope; work that is billed or stored
\* runs only in the background and for a principal; without tokens nobody but
\* this host is served.
AuthorisedOnEveryPath ==
    ask.at = "running" =>
        /\ ask.tool \in StorageTools => "storage" \in surface.keys
        /\ ask.tool \in Seed3DTools => {"modelark", "seed3d"} \subseteq surface.keys
        /\ surface.auth = "jwt" =>
              ask.token = "good" /\ (ask.tool \in JobTools \/ ask.grants)
        /\ ask.tool \in RequiredTools \/ (ask.tool \in OptionalTools /\ ask.persist) =>
              ask.path # "plain" /\ HasPrincipal
        /\ surface.auth = "local" => surface.transport = "stdio" \/ surface.host = "loopback"
        /\ surface.artifacts = "object_storage" => "storage" \in surface.keys
=============================================================================
