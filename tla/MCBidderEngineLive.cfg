\* Liveness: two auctions, two keys, two slots and one place at one bidder.
CONSTANTS
  k1 = k1
  k2 = k2
  d1 = d1
  d2 = d2
  a1 = a1
  a2 = a2
  Missing = Missing
  CacheKeys = {k1, k2}
  PlacementOf <- OwnPlacement
  Bidders <- OneBidder
  Answers <- OneAnswer
  Auctions = {a1, a2}
  MaxFanout = 1
  MaxConcurrent = 1
  MaxRefreshes = 2
  MaxKeys = 1
  Threshold = 2
SPECIFICATION FairSpec
CHECK_DEADLOCK FALSE
PROPERTIES
  MarksReturned
  DrainsAfterCancel
  CircuitRetried
