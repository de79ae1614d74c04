SPECIFICATION Spec
CONSTANTS
  Markets = {m1}
  NoMarket = NoMarket
  Feeds = {t1, t2}
  Workers = {w1, w2}
  MarketViews <- MCOneView
  Limits <- MCOnePair
  InitialCash <- MCCash
  Configured <- MCConfigured
  ChaseTries = 15
  Improvements = {0}
  SellPrices = {30}
  PriceOmitted = FALSE
  LostReplies = FALSE
  RefreshFails = FALSE
  Stoppable = FALSE
  Expiring = {}
  MaxTicks = 2
  BoundFlattens = TRUE
INVARIANT ContractCapRespected
