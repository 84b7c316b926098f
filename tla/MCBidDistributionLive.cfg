\* Liveness: bids of two placements written elsewhere, reads that fail now and then.
CONSTANTS
  b1 = b1
  x = x
  y = y
  h1 = h1
  h2 = h2
  s1 = s1
  Absent = Absent
  Elsewhere = Elsewhere
  NoSnapshot = NoSnapshot
  Placements = {1, 2}
  BidIDs = {b1}
  Contents = {x, y}
  Revisions = {1, 2}
  MaxRevision = 2
  Precision = 2
  Handlers = {h1, h2}
  Requests <- TwoPlacements
  MaxRetries = 0
  Cluster = FALSE
  Servers = {s1}
  Home <- NoneHere
  Traffic = {}
  Unreachable = {}
  Flaky = TRUE
  MaxCrashes = 0
SPECIFICATION FairSpec
CHECK_DEADLOCK FALSE
PROPERTIES
  RefreshesEnd
  Converges
