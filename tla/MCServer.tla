------------------------------ MODULE MCServer ------------------------------
(***************************************************************************)
(* Instances of the components that share no state with one another: each  *)
(* behaviour moves one of them, named by part, from its initial state, and *)
(* leaves the others where they are.  What the components do does not      *)
(* depend on each other, so their product would show nothing more.  For    *)
(* the same reason one background job moves at a time: jobs meet only in   *)
(* rows of their own.                                                      *)
(***************************************************************************)
EXTENDS BackgroundJobs, ProviderTasks, ObjectKeys, VariationBatch, HttpLimits,
        VodTasks, ToolCalls, Transcription, ToolSurface,
        SafeDownload, SchemaMigration, TLC

CONSTANTS ann, bob, stdio, taskA, taskB, r1, r2, k1, k2, c1, c2

ServerPrincipals == {ann, bob, stdio}
\* A job of a task-only tool, of a tool that may run as a task, and a local one.
JobSubmitters == "required" :> ann @@ "optional" :> bob @@ "local" :> stdio
TaskOwners == taskA :> ann @@ taskB :> bob
RequestCallers == r1 :> ann @@ r2 :> stdio
KeyShapes == k1 :> "plain" @@ k2 :> "odd"
KeyUploaders == k1 :> ann @@ k2 :> bob
\* One tool of every group and task mode.
RequestedTools == {"ark_job_submit", "seed_media_get_artifact", "speech_to_text", "media_upload",
                   "media_presign", "vod_get_transcode_task", "seedance_create_task",
                   "hyper3d_list_tasks"}

VARIABLE part

Parts == Jobs \cup {"tasks", "keys", "batch", "rate", "body", "poll", "call", "asr", "surface",
                       "fetch", "migration"}

ServerInit ==
    /\ part \in Parts
    /\ JobsInit /\ TasksInit /\ KeysInit /\ BatchInit /\ HttpInit
    /\ VodInit /\ ToolInit /\ AsrInit /\ SurfaceInit /\ DownloadInit /\ MigrationInit

singleVars == <<poll, call, asr, surfaceVars, fetch, migrationVars>>

MoveJobs ==
    /\ part \in Jobs
    /\ JobStep(part) \/ Surroundings
    /\ UNCHANGED <<part, taskVars, keyVars, batchVars, httpVars, singleVars>>
MoveTasks ==
    /\ part = "tasks" /\ TasksNext
    /\ UNCHANGED <<part, jobVars, keyVars, batchVars, httpVars, singleVars>>
MoveKeys ==
    /\ part = "keys" /\ KeysNext
    /\ UNCHANGED <<part, jobVars, taskVars, batchVars, httpVars, singleVars>>
MoveBatch ==
    /\ part = "batch" /\ BatchNext
    /\ UNCHANGED <<part, jobVars, taskVars, keyVars, httpVars, singleVars>>
MoveHttp ==
    /\ (part = "rate" /\ RateNext) \/ (part = "body" /\ BodyNext)
    /\ UNCHANGED <<part, jobVars, taskVars, keyVars, batchVars, singleVars>>
MoveSingle ==
    /\ \/ /\ part = "poll" /\ VodNext
          /\ UNCHANGED <<call, asr, surfaceVars, fetch, migrationVars>>
       \/ /\ part = "call" /\ ToolNext
          /\ UNCHANGED <<poll, asr, surfaceVars, fetch, migrationVars>>
       \/ /\ part = "asr" /\ AsrNext
          /\ UNCHANGED <<poll, call, surfaceVars, fetch, migrationVars>>
       \/ /\ part = "surface" /\ SurfaceNext
          /\ UNCHANGED <<poll, call, asr, fetch, migrationVars>>
       \/ /\ part = "fetch" /\ DownloadNext
          /\ UNCHANGED <<poll, call, asr, surfaceVars, migrationVars>>
       \/ /\ part = "migration" /\ MigrationNext
          /\ UNCHANGED <<poll, call, asr, surfaceVars, fetch>>
    /\ UNCHANGED <<part, jobVars, taskVars, keyVars, batchVars, httpVars>>

ServerTypeOK ==
    /\ part \in Parts
    /\ JobsTypeOK /\ TasksTypeOK /\ KeysTypeOK /\ BatchTypeOK /\ HttpTypeOK
    /\ VodTypeOK /\ ToolTypeOK /\ AsrTypeOK /\ SurfaceTypeOK
    /\ DownloadTypeOK /\ MigrationTypeOK

ServerNext == MoveJobs \/ MoveTasks \/ MoveKeys \/ MoveBatch \/ MoveHttp \/ MoveSingle

serverVars == <<part, jobVars, taskVars, keyVars, batchVars, httpVars, singleVars>>

\* A part that does not move has nothing to be fair about: its actions are
\* disabled in its initial state.
ServerSpec == ServerInit /\ [][ServerNext]_serverVars /\ JobsFairness /\ BatchFairness
=============================================================================
