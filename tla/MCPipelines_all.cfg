SPECIFICATION PipelinesSpec
CONSTANTS
    n1 = n1
    n2 = n2
    Notices = {n1, n2}
    StartWidth = 1
    MaxRefusals = 2
    MaxRestarts = 1
    NoNotice = NoNotice
    ReentryLimit = 2
    MaxOutages = 1
    Nil = Nil
    u1 = u1
    u2 = u2
    s1 = s1
    s2 = s2
    ra = ra
    rb = rb
    rc = rc
    Slots = {s1, s2}
    Units = {u1, u2}
    Needs <- MCNeeds
    Solo = Solo
    None = None
    WorkRetryLimit = 1
    MaxReentries = 1
    Rejects = {"create", "start", "stop", "integrate", "push", "pull_request"}
    LossStages = {"publish"}
    FaultStages = {"provision", "work", "publish", "stop"}
    MaxFaults = 2
    MaxRecoveries = 1
    MaxResumes = 1
    MaxSubject = 1
    Runs = {ra, rb, rc}
    ItemCount <- MCItems
    PoolSize <- MCPool
    ExecutionWidth = 2
    MaxConcurrent = 2
    MaxFlaky = 1
    Nobody = Nobody
    WorkItems = {"a", "b", "c", "d", "e"}
    Left = {"c"}
    Twice = {"a"}
    Poison <- MCPoison
    CycleLimit = 2
    Width = 1
    LeaseCycles = 2
    Retries = 1
    StaleAfter = 2
    RequiredChecks <- MCRequired
    RequiredStatuses = {cla}
    Window = 2
    FailureLimit = 3
    MaxRuns = 2
    Publications = 2
    MaxTouches = 3
    MaxDeaths = 2
    Nothing = Nothing
    Stranger = Stranger
INVARIANTS
    PipelinesTypeOK
    SchedulingSafe
    StartSafe
    PromotionSafe
PROPERTIES
    LifecycleSafe
    EventsComeFirst
    WaitSafe
    PublicationSafe
    PipelinesSettle
CHECK_DEADLOCK FALSE
