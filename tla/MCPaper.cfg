SPECIFICATION Spec
CONSTANTS
    Unset = Unset
    BoardLot = 1
    Pair <- MCPair
    CostRate <- MCCost
    TickChange <- MCTickChange
    Tables <- MCTables
    Latencies <- MCLatencies
    Opens = 0
    Closes = 6
    FilterTrial = TRUE
    MaxAge = 4
    ProfitCheck = TRUE
CHECK_DEADLOCK FALSE
INVARIANTS
    EveryChangeIsEvaluated
    FillsAreInForce
    CashIsAccounted
    DecisionPathsAgree
