SPECIFICATION SandboxSpec
CONSTANTS
    Requests = {"r1", "r2"}
    Minimums = {1, 2}
    Leeway = 1
    Lifetime = 3
    MaxClock = 2
    MaxTokens = 3
    MaxDeaths = 1
    MaxFaults = 1
    NoAccount = NoAccount
    Comments = {"m1"}
    Long = {}
    MaxTurns = 2
    MaxCrashes = 3
    MaxFlukes = 1
    NoWords = NoWords
    Threshold = 2
    LookupFaultLimit = 3
    NoCount = NoCount
    Stages = {"a", "b", "c"}
    Entry = "a"
    StageOutcomes = {"ok", "bad"}
    Unknown = "unknown"
    Terminal = "terminal"
    Graphs <- MCGraphs
    Blobs = {"b1", "b2", "b3"}
    Shards = {"shard1", "shard2"}
    ShardOf <- MCShardOf
    MaxKills = 2
    MaxOutages = 2
    NoBlob = "no_blob"
    Resolutions = {"x", "y"}
    MaxFence = 3
    MaxLookups = 3
    MaxMoves = 2
    Nobody = "nobody"
INVARIANTS
    SandboxTypeOK
    VerdictIsRight
    StorageSafe
    SteeringSafe
    FatalNeedsAbsences
PROPERTIES
    CredentialsSafe
    RejectionSafe
    SandboxSettles
CHECK_DEADLOCK FALSE
