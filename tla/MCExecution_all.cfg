SPECIFICATION ExecutedSpec
CONSTANTS
    PlanUnits <- MCPlanUnits
    DependsOn <- MCDependsOn
    PlanOrder <- MCPlanOrder
    On <- MCOn
    Edits = {"implement_unit", "repair_unit", "final_repair"}
    UnitGates = {"unit_test"}
    FinalGates = {"final_test"}
    Body = {"implement_unit", "unit_test", "accept_unit", "repair_unit"}
    Personas <- MCPersonas
    UnitWidth = 1
    ReviewWidth = 2
    Sizes = {1, 2}
    EvidenceLimit = 3
    Unbounded = Unbounded
    Names <- MCNames
    Config = "config"
    Core = {"flow", "agent"}
    Bodies = {"p", "q"}
    Malformed = "bad"
    Absent = "absent"
    Unreadable = "nul"
    Owner <- MCOwner
    Clashes = {{"mine", "MINE"}}
    MaxFiles = 4
    Environments = {"old", "new"}
    Selects <- MCSelects
    Trees <- MCTrees
    Catalogs <- MCCatalogs
    MaxCommits = 1
    MaxReleases = 1
    Actions = {"agent", "command"}
    Proposals = {ca, cb}
    RetryLimit = 1
    CorrectionLimit = 1
    MaxErrors = 1
    Unset = Unset
    Waves <- MCWaves
    PoolWidth = 2
    Attempts = 2
    Paths = {"path"}
    Contents = {0, 1, 2}
    Start = 0
    MaxInterruptions = 1
    Items = {"i1", "i2"}
    Releases = {"a", "b"}
    First = "a"
    MaxChanges = 6
    MaxCrashes = 2
    NoRelease = "none"
INVARIANTS
    ExecutedTypeOK
    StructuredSafe
    CheckpointSafe
    ReleaseSafe
PROPERTIES
    ClosureSafe
    AttemptSafe
    ExecutionSettles
CHECK_DEADLOCK FALSE
