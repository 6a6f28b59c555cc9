SPECIFICATION ServerSpec
CONSTANTS
    ann = ann  bob = bob  stdio = stdio
    taskA = taskA  taskB = taskB  r1 = r1  r2 = r2
    k1 = k1  k2 = k2  c1 = c1  c2 = c2
    Principals <- ServerPrincipals
    LocalPrincipals = {stdio}
    RetentionDays = 1
    Jobs = {"required", "optional", "local"}
    SubmitterOf <- JobSubmitters
    NativeJobs = {"optional"}
    RequiredJobs = {"required"}
    MaxDeliveries = 2
    DeliveryDays = 1
    MaxJobDay = 4
    Tasks = {taskA, taskB}
    TaskOwner <- TaskOwners
    Requests = {r1, r2}
    CallerOf <- RequestCallers
    MaxDeleteAttempts = 2
    Keys = {k1, k2}
    ShapeOf <- KeyShapes
    UploaderOf <- KeyUploaders
    MaxBatch = 2
    MaxKeyDay = 2
    Count = 3
    MaxConcurrent = 2
    Clients = {c1, c2}
    Rpm = 2
    Capacity = 2
    Minute = 3
    MaxBuckets = 1
    MaxTick = 6
    MaxBytes = 2
    MaxPollAttempts = 3
    MaxImages = 2
    MaxToolAttempts = 2
    PollInterval = 1
    PollMax = 5
    DelayCap = 2
    RequestTimeout = 1
    MaxBackoff = 1
    MaxAsrAttempts = 2
    AskedTools <- RequestedTools
    MaxRedirects = 2
    MaxOutput = 2
    MigratedTasks = {taskA, taskB}
    MaxWrites = 2
INVARIANTS
    ServerTypeOK
    StartedOnce JobsArePrivate AcceptedIsOwned
    DeletesAreExpected TasksArePrivate
    UsedKeysStay UrlsArePrivate
    SummaryIsComplete
    EvictionIsInvisible RetryAfterIsEnough BodyIsBounded
    VodStateIsReported  WaitIsBounded AuthorisedOnEveryPath
    DownloadIsConfined MigrationKeepsRows
PROPERTIES JobsEnd BatchEnds
CHECK_DEADLOCK FALSE
