\* Exact revisions: two requests, attempts lost, repeated and late.
CONSTANTS
  p1 = p1
  p2 = p2
  b1 = b1
  x = x
  y = y
  h1 = h1
  h2 = h2
  Absent = Absent
  Placements = {p1, p2}
  BidIDs = {b1}
  Contents = {x, y}
  Revisions = {0, 1, 2, 3}
  MaxRevision = 3
  Precision = 2
  Handlers = {h1, h2}
  Requests <- ExactRequests
  MaxRetries = 0
  Cluster = TRUE
SPECIFICATION Spec
SYMMETRY HandlerSymmetry
CHECK_DEADLOCK FALSE
INVARIANTS
  TypeOK
  HashesAgree
  IndexedBeforeWritten
  AckMeansApplied
  ConflictMeansOld
PROPERTIES
  RevisionGoverns
  ImplementsRegister
