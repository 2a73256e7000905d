SPECIFICATION Spec
CONSTANTS
    a1 = a1
    a2 = a2
    a3 = a3
    e1 = e1
    e2 = e2
    Attempts = {a1, a2}
    Deps <- NoDeps
    Cohort = {a1, a2}
    CohortWidth = 2
    ExecutionWidth = 2
    RetryLimit = 1
    CorrectionLimit = 1
    Executions = {e1, e2}
    MaxFaults = 0
    None = None
INVARIANTS
    RecoveryReplaysOnlyUnfinished
CHECK_DEADLOCK FALSE
