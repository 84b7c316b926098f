\* An invalidation that arrives while a refresh of the placement is under way.
CONSTANTS
  b1 = b1
  x = x
  y = y
  h1 = h1
  h2 = h2
  s1 = s1
  Absent = Absent
  Elsewhere = Elsewhere
  NoSnapshot = NoSnapshot
  Placements = {1}
  BidIDs = {b1}
  Contents = {x}
  Revisions = {1, 2}
  MaxRevision = 2
  Precision = 2
  Handlers = {h1, h2}
  Requests <- UpsertDelete
  MaxRetries = 0
  Cluster = FALSE
  Servers = {s1}
  Home <- OneHere
  Traffic = {1}
  Unreachable = {}
  Flaky = FALSE
  MaxCrashes = 0
SPECIFICATION DistSpec
CHECK_DEADLOCK FALSE
PROPERTY
  MessageStartsRead
