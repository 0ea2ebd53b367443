SPECIFICATION FairSpec
CONSTANTS
  p1 = p1
  p2 = p2
  journal = journal
  route = route
  audit = audit
  m1 = m1
  m2 = m2
  Published = Published
  NoMsg = NoMsg
  Producers = {p1, p2}
  Consumers = {journal, route, audit}
  Barrier <- RingBarrier
  CommitPolicy = "Shared"
  BatchSizes = {1}
  Size = 2
  Msgs = {m1, m2}
  MaxPuts = 3
INVARIANTS IInv NoOverwrite ReadAfterUpstream ReadsTheLog
PROPERTIES PutReturns StreamDelivers StreamPromise
