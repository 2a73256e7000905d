SPECIFICATION FairSpec
CONSTANTS
    a1 = a1
    a2 = a2
    a3 = a3
    e1 = e1
    e2 = e2
    Attempts = {a1}
    Deps <- NoDeps
    Cohort = {}
    CohortWidth = 2
    ExecutionWidth = 2
    RetryLimit = 1
    CorrectionLimit = 1
    Executions = {e1}
    MaxFaults = 1
    None = None
PROPERTIES
    CompletedWorkGoesOn
CHECK_DEADLOCK FALSE
