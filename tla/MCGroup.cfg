SPECIFICATION Spec
CONSTANTS
    Keys = {1, 2, 3}
    SpotOf <- MCSpotOf
    FutureOf <- MCFutureOf
    Requests <- MCRequests
    MaxRuns = 2
    EventRows <- MCEventRows
    Options <- MCOptions
    Libraries <- MCLibraries
    Sides = {"LONG"}
    MaxPairs = 2
    Interval = 2
    MaxSteps = 2
    Times <- MCTimes
INVARIANTS
    GroupEntriesApart
    NothingIsLost
