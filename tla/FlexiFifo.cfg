SPECIFICATION FairSpec
CONSTANTS
  p1 = p1
  p2 = p2
  c1 = c1
  c2 = c2
  Producers = {p1, p2}
  Consumers = {c1, c2}
  HeadPolicy = "Shared"
  Size = 4
  Pending = 2
  MaxPuts = 6
CHECK_DEADLOCK FALSE
INVARIANTS SlotsConserved Window
PROPERTIES PutReturns
