SPECIFICATION Spec
CONSTANTS
    Versions = {"a", "b", "c", "d"}
    Kind <- MCKind
    LastDate = 3
    Closes <- MCCloses
    Tables = {1, 2}
    Absent = Absent
    Torn = Torn
    MaxRuns = 3
    MaxFaults = 1
CHECK_DEADLOCK FALSE
INVARIANTS
    ResumedReportIsOwn
PROPERTIES
    TrustedPrefixIsReused
