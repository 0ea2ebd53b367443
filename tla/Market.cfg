SPECIFICATION MarketFairSpec
CONSTANTS
  s1 = s1
  s2 = s2
  tklam = tklam
  other = other
  journal = journal
  route = route
  Motto = Motto
  NoService = NoService
  NoOrder = NoOrder
  AssetCodes = {tklam, other}
  Spread = 2
  FirstPrices = {1}
  Dirs = {1}
  Size = 2
  HighWater = 1
  MaxOrders = 5
  Journal = journal
  Route = route
  Services = {s1, s2}
  Asset <- AssetOf
  Mortal = {s1}
INVARIANTS IInv JournalFirst BoundedLead FilledWasSaved
PROPERTIES GetsSent
CHECK_DEADLOCK FALSE
