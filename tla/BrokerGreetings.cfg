SPECIFICATION Spec
CONSTANTS
  s1 = s1
  s2 = s2
  s3 = s3
  tklam = tklam
  other = other
  Motto = Motto
  NoService = NoService
  Services = {s1, s2}
  Assets = {tklam, other}
  Asset <- AssetOf
  Mortal = {}
  HighWater = 1
  MaxOrders = 3
INVARIANT GreetingRegisters
CHECK_DEADLOCK FALSE
