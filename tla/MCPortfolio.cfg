SPECIFICATION PSpec
CONSTANTS
    Keys = {1, 2}
    Delivery <- MCDelivery
    Calendar <- MCCalendar
    TradeDates <- MCDates
    MonthDays = 4
    Wednesday = 2
    Excluded <- MCExcluded
    Outcomes <- MCOutcomes
    MaxPairs = 2
    None = None
    TotalCapital = 60
    SpotRate = 4
    FutureRate = 2
    Scale = 10
    Leverage = TRUE
    Notional <- MCNotional
    Quote <- MCQuote
    FlattenGain <- MCFlattenGain
    FeeRate = 1
    TaxRate = 2
    Intervals <- MCIntervals
    SampleRows = 2
CHECK_DEADLOCK FALSE
INVARIANTS
    ExpiryIsReported
    CapitalAccounts
    OpenLotsBracketHeld
    TotalsReconcile
    StreamedTablesAreWhole
PROPERTIES
    HeldUntilClosed
