SPECIFICATION Spec
CONSTANTS
  Quotes <- MCQuotes
  Sizes  <- MCSizes
  Caps   <- MCCaps
  ChaseReserve = 1
INVARIANTS
  TypeOK
  ReturnsLargestFit
  LoopsReturnFitSize
  ChasedPairBreaksEven
PROPERTIES
  Terminates
