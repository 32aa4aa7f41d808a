SPECIFICATION Spec
CONSTANTS
  Quotes <- MCQuotes
  Stamps = {1, 2}
  Latencies <- MCLatencies
  Traded = {1}
  Levels = 2
  PriceOnlyQty = 3
  BaseLatency = 1
  MaxRows = 3
CHECK_DEADLOCK FALSE
INVARIANTS
  EachClockSeesItsOwnOrder
  BookIsTheLatestRow
  PathsAgree
