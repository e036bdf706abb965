SPECIFICATION Spec
CHECK_DEADLOCK FALSE
CONSTANTS
  SizeMax = 7
  httpHeaderTableMaxSize = 4
  hhReservedBase = 9
  Reserved <- ReservedNames
  Unfoldable = "()"
  Seeds <- AllSeeds
INVARIANTS
  UriRoundTrip
  Base64FitsAndReturns
  TableFindsItsNames
