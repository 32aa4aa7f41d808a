SPECIFICATION Spec
CONSTANTS
    MaxTick = 3
    TickSize = 1
    Orders <- MCOrderPerAsset
    Mode = "hbt"
    MaxTs = 5
    Scenarios <- MCScenarios
    Durations = {0, 2}
    Limits = {2}
    ExchTimes = {1, 2}
    FeedLags = {0, 1}
    EntryLags = {0, 1}
    ResponseLags = {0, 1}
INVARIANTS
    NothingOverdue
    DecisionMatchesReplay
PROPERTIES
    ImplementsTimeline
