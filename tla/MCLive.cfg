SPECIFICATION FairSpec
CONSTANTS
    Lot = 2
    MaxPairs = 1
    MaxPending = 2
    Directions = {1}
    Flattens = TRUE
    FlattenTif = "IOC"
CHECK_DEADLOCK FALSE
INVARIANTS
    OrdersFollowThePlan
    NakedLegIsHeld
    FreshConfigStarts
PROPERTIES
    PendingSettles
