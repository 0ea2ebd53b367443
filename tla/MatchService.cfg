SPECIFICATION ServiceFairSpec
CONSTANTS
  tklam = tklam
  NoOrder = NoOrder
  NoRequest = NoRequest
  NoValue = NoValue
  Code = tklam
  Requests <- Various
  TradedRingSize = 2
  MaxOrders = 5
  IntMax = 5
  Size = 2
  HighWater = 1
INVARIANTS ServiceIInv NothingLost Backlog LotsConserved TradesAsOrdered
PROPERTIES TakesAll BookPromise
CHECK_DEADLOCK FALSE
