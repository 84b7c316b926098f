\* Safety: two keys compete for one place of a bidder and one place in the cache.
CONSTANTS
  k1 = k1
  k2 = k2
  d1 = d1
  d2 = d2
  a1 = a1
  a2 = a2
  Missing = Missing
  CacheKeys = {k1, k2}
  PlacementOf <- OwnPlacement
  Bidders <- TwoBidders
  Answers <- OneAnswer
  Auctions = {a1, a2}
  MaxFanout = 1
  MaxConcurrent = 1
  MaxRefreshes = 2
  MaxKeys = 1
  Threshold = 2
SPECIFICATION Spec
SYMMETRY AuctionSymmetry
CHECK_DEADLOCK FALSE
INVARIANTS
  TypeOK
  SingleFlight
  SlotsAccounted
  CallsBounded
  ProbeHeld
  CacheBounded
  CachedBidsBelong
PROPERTIES
  FreshNotEvicted
