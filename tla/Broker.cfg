SPECIFICATION FairSpec
CONSTANTS
  s1 = s1
  s2 = s2
  s3 = s3
  tklam = tklam
  other = other
  Motto = Motto
  NoService = NoService
  Services = {s1, s2, s3}
  Assets = {tklam, other}
  Asset <- AssetOf
  Mortal = {s1}
  HighWater = 1
  MaxOrders = 3
INVARIANTS IInv InOrder OneBook
PROPERTIES RoutesOn
CHECK_DEADLOCK FALSE
