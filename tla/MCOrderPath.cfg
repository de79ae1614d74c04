SPECIFICATION Spec
CONSTANTS
  Markets = {m1, m2}
  NoMarket = NoMarket
  kMax = 2
  Threads = {t1, t2}
  MaxWall = 1
  Orders <- MCOrders
  Keyed <- MCKeyed
  BookPrices <- MCBookPrices
  MaxOrders = 2
SYMMETRY ThreadSymmetry
INVARIANTS
  SlotForEveryMarket
  RequestMeansLeg
  BookNeverFlatters
  FillIsWholeWithinLimit
  ReportedIsBooked
PROPERTIES
  LocksRefined
  StampsRefined
CHECK_DEADLOCK FALSE
