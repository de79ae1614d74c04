SPECIFICATION FairProcess
CONSTANTS
  m1 = m1
  NoMarket = NoMarket
  Markets = {m1}
  Feeds = {t1}
  Workers = {w1}
  MarketViews <- MCViews
  Limits <- MCLimits
  InitialCash <- MCCash
  Configured <- MCConfigured
  ChaseTries = 1
  Improvements = {0}
  SellPrices = {30}
  PriceOmitted = TRUE
  LostReplies = FALSE
  RefreshFails = FALSE
  Stoppable = TRUE
  Expiring = {}
  MaxTicks = 2
  BoundFlattens = FALSE
  LotPrices = {45}
  LotsFail = TRUE
  MaxCrashes = 1
INVARIANTS
  SurplusMatchesVenue
  IdleCashIsVenueCash
PROPERTIES
  JobsFinish
  StopDrains
  LeftoverIsSold
