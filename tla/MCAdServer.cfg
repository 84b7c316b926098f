\* Two requests at a time, a decision log with one place, one latency bucket.
CONSTANTS
  Unset = Unset
  Malformed = Malformed
  NoEntry = NoEntry
  ValidIDs = {"alpha", "beta"}
  AcceptableURLs = {"https", "ftp"}
  ValidURLs = {"https"}
  latencyUpperUS <- OneBucket
  Envs <- ManyEnvs
  Handlers = {1, 2}
  Workloads <- Mixes
  Courses <- FewCourses
SPECIFICATION Spec
CHECK_DEADLOCK FALSE
INVARIANTS
  TypeOK
  ConfigInForce
  AcceptedIsLogged
  GraceRespected
  EveryRequestCounted
  QuietScrapeExact
  ScrapeNotAhead
PROPERTIES
  AuctionsEnd
  ProcessEnds
