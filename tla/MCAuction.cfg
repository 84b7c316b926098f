\* Up to three snapshot bids and two DSP bids under both pricing models.
CONSTANTS
  Inputs <- AllInputs
  Countries = {"de", "fr"}
  Devices = {"tv", "pc"}
  BPS = 4
  MaxInt = 7
SPECIFICATION Spec
CHECK_DEADLOCK FALSE
INVARIANTS
  TypeOK
  WinnerIsBest
  RunnerUpIsNext
  ClearingBounded
  PacedPrice
  PricedNextBidSetsPrice
