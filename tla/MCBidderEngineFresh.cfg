\* Two auctions for one key: a refresh ends between the look at the cache and the mark.
CONSTANTS
  k1 = k1
  k2 = k2
  d1 = d1
  d2 = d2
  a1 = a1
  a2 = a2
  Missing = Missing
  CacheKeys = {k1}
  PlacementOf <- OwnPlacement
  Bidders <- OneBidder
  Answers <- OneAnswer
  Auctions = {a1, a2}
  MaxFanout = 1
  MaxConcurrent = 1
  MaxRefreshes = 2
  MaxKeys = 1
  Threshold = 2
SPECIFICATION Spec
SYMMETRY AuctionSymmetry
CHECK_DEADLOCK FALSE
PROPERTY
  FreshPreventsRefresh
