SPECIFICATION Spec
CONSTANTS
    Configs <- MCConfigs
    Sides = {"LONG", "SHORT"}
    MaxPairs = 2
    Interval = 1
    MaxSteps = 7
    Times <- MCTimes
INVARIANTS
    AuditAddsUp
    PositionIsHedged
    FailuresAreReported
PROPERTIES
    ImplementsSession
