SPECIFICATION FairSpec
CONSTANTS
    MaxTick = 2
    TickSize = 1
    Orders <- MCTwoOrders
    Mode = "sequence"
    MaxTs = 5
    Scenarios <- MCOneAsset
    Durations = {0, 2}
    Limits = {2}
    ExchTimes = {2}
    FeedLags = {0, 1}
    EntryLags = {0, 1}
    ResponseLags = {0, 1}
INVARIANTS
    MatchedOnArrivalBook
PROPERTIES
    WaitTellsTheTruth
    CallsReturn
