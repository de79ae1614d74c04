SPECIFICATION Spec
CONSTANTS
  m1 = m1
  m2 = m2
  NoMarket = NoMarket
  Markets = {m1, m2}
  Feeds = {t1, t2}
  Workers = {w1, w2}
  MarketViews <- MCViews
  Limits <- MCLimits
  InitialCash <- MCCash
  Configured <- MCConfigured
  ChaseTries = 15
  Improvements = {0, 1}
  SellPrices = {30}
  PriceOmitted = FALSE
  LostReplies = FALSE
  RefreshFails = FALSE
  Stoppable = FALSE
  Expiring = {}
  MaxTicks = 2
  BoundFlattens = TRUE
SYMMETRY ThreadSymmetry
INVARIANTS
  TypeOK
  OneJobPerMarket
  ReservedIsHeld
  PositionMatchesVenue
  FlattenSellsSurplus
  PairKeepsEdge
  KillSwitchHalts
