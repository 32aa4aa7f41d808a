SPECIFICATION TableSpec
CONSTANTS
  Quotes <- MCNothing
  Stamps = {1, 2, 3}
  Latencies <- MCNothing
  Traded <- MCNothing
  Levels = 2
  PriceOnlyQty = 3
  BaseLatency = 1
  MaxRows = 3
  Kind = "stock"
  Deliveries <- MCDeliveries
  Allowed <- MCNothing
  Names <- MCNames
  Session <- MCSession
  MaxBatch = 2
CHECK_DEADLOCK FALSE
INVARIANTS
  ScanIsExact
  BuiltIsAccepted
