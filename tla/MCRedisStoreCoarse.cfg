\* Revisions past the precision of a Lua number: two requests.
CONSTANTS
  p1 = p1
  p2 = p2
  b1 = b1
  x = x
  y = y
  h1 = h1
  h2 = h2
  Absent = Absent
  Placements = {p1}
  BidIDs = {b1}
  Contents = {x, y}
  Revisions = {4, 5, 6}
  MaxRevision = 6
  Precision = 2
  Handlers = {h1, h2}
  Requests <- CoarseRequests
  MaxRetries = 1
  Cluster = FALSE
SPECIFICATION Spec
SYMMETRY HandlerSymmetry
CHECK_DEADLOCK FALSE
INVARIANT
  ConflictMeansOld
