\* The next bid is paced down to a price of zero.
CONSTANTS
  Inputs <- AllInputs
  Countries = {"de", "fr"}
  Devices = {"tv", "pc"}
  BPS = 4
  MaxInt = 7
SPECIFICATION Spec
CHECK_DEADLOCK FALSE
INVARIANT
  NextBidSetsPrice
