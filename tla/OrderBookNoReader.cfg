SPECIFICATION FairSpec
CONSTANTS
  NoOrder = NoOrder
  Requests <- Mixed
  TradedRingSize = 1
  MaxOrders = 4
PROPERTIES ResultReturned
CHECK_DEADLOCK FALSE
