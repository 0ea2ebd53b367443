SPECIFICATION FairSpec
CONSTANTS
  m = m
  eos = eos
  Unlimited = Unlimited
  Rings = 2
  Msgs = {m}
  Counts = {0, 1, 2}
  Width = 3
  Limits = {1, Unlimited}
  Size = 2
  MaxPuts = 5
CHECK_DEADLOCK FALSE
INVARIANTS AccountedFor StopsAtNth EachServed
PROPERTIES LoopEnds KeepsUp
