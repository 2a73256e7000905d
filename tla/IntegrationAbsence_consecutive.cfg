SPECIFICATION AbsenceSpec
CONSTANTS
    Threshold = 2
    LookupFaultLimit = 1
    NoCount = NoCount
INVARIANTS
    FatalAbsencesAreConsecutive
CHECK_DEADLOCK FALSE
