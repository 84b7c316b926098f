\* Safety: one server, mutations of two placements, failed reads, a crash and a restart.
CONSTANTS
  b1 = b1
  x = x
  y = y
  h1 = h1
  h2 = h2
  s1 = s1
  Absent = Absent
  Elsewhere = Elsewhere
  NoSnapshot = NoSnapshot
  Placements = {1, 2}
  BidIDs = {b1}
  Contents = {x, y}
  Revisions = {1, 2}
  MaxRevision = 2
  Precision = 2
  Handlers = {h1, h2}
  Requests <- Three
  MaxRetries = 0
  Cluster = FALSE
  Servers = {s1}
  Home <- OneHere
  Traffic = {1}
  Unreachable = {}
  Flaky = TRUE
  MaxCrashes = 1
SPECIFICATION DistSpec
CHECK_DEADLOCK FALSE
INVARIANTS
  DistTypeOK
  SnapshotsSound
  SameRevisionSameBid
  NotOlderThanStart
