SPECIFICATION FairSpec
CONSTANTS
  NoOrder = NoOrder
  Requests <- Mixed
  TradedRingSize = 4
  MaxOrders = 4
INVARIANTS IInv BooksSorted NoYoungerFirst QuietWhenDone
PROPERTIES ExchangePromise
CHECK_DEADLOCK FALSE
