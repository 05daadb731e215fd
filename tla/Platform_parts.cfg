\* The small instances of the components around the services; MCPlatform bounds
\* each part further.
SPECIFICATION PlatformFairSpec
CONSTANTS
    i1 = i1
    k1 = k1
    a1 = a1
    ObjectKeys = {k1, k2}
    PartNumbers = {1, 2}
    StoreCalls = {11, 12, 13}
    ObjectChunks = 2
    NoFile = NoFile
    CloudKeys = {k1, k2}
    CloudCalls = {21, 22, 23}
    NoObject = NoObject
    ProfileInstances = {i1, i2}
    ProfileCalls = {v1, v2}
    RoleCodes = {ra}
    ProfileLocalTTL = 1
    ProfileRemoteTTL = 2
    MaxProfileChanges = 2
    NoProfile = NoProfile
    Overtaken = Overtaken
    HttpRequests = {q1}
    QueuedTasks = {t1}
    ServerTimeout = 2
    WorkerTimeout = 2
    NotStarted = NotStarted
    LoadInstances = {i1, i2}
    LoadCalls = {c1, c2, c3}
    NobodyLoads = NobodyLoads
    AuthzInstances = {i1, i2}
    AuthzRequests = {c1}
    AuthzChanges = {a1, a2}
    AuthzRoles = {ra}
    NotCached = NotCached
    HalfRange = 64
    RetryTimes = {0, 1, 3, 4}
    Second = 2
    MaxRetries = 8
    NoDelay = NoDelay
INVARIANTS
    PlatformTypes
    AcknowledgedObjectKept
    TransfersAreFaithful
    CloudObjectKept
    StaleProfileHasCause
    ProfileAgeBounded
    OneFillPerRemoval
    ClosedUnderWorkOnlyLate
    AdmittedOnGround
PROPERTIES
    RolesLostHaveCause
    RetriesBackOff
    CancelledRunEnds
CHECK_DEADLOCK FALSE
