SPECIFICATION Spec
CONSTANTS
  m1 = m1
  NoMarket = NoMarket
  Markets = {m1}
  Feeds = {t1, t2}
  Workers = {w1, w2}
  MarketViews <- MCViews
  Limits <- MCLimits
  InitialCash <- MCCash
  Configured <- MCConfigured
  ChaseTries = 2
  Improvements = {0}
  SellPrices = {30}
  PriceOmitted = TRUE
  LostReplies = TRUE
  RefreshFails = TRUE
  Stoppable = TRUE
  Expiring = {m1}
  MaxTicks = 2
  BoundFlattens = TRUE
SYMMETRY ThreadSymmetry
INVARIANTS
  ReservedIsHeld
  FlattenBalances
PROPERTIES
  LocksRefined
