SPECIFICATION BookSpec
CONSTANTS
    MaxTick = 4
    TickSize = 2
    Prices = {0, 2, 3, 6, 7}
    Quantity = 1
    BookRows <- MCRows
INVARIANTS
    NeverCrossed
    ViewShowsProperRow
    HaltHoldsUntilRequoted
