SPECIFICATION FairSpec
CONSTANTS
  p1 = p1
  p2 = p2
  p3 = p3
  m1 = m1
  m2 = m2
  NoMsg = NoMsg
  Consumer = Consumer
  Published = Published
  Producers = {p1, p2, p3}
  Size = 2
  Msgs = {m1, m2}
  MaxPuts = 4
CHECK_DEADLOCK FALSE
INVARIANTS NoOverwrite
PROPERTIES RingPromise PutReturns GetDrains
