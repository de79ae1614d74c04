SPECIFICATION FairSpec
CONSTANTS
  m1 = m1
  NoMarket = NoMarket
  Markets = {m1}
  Feeds = {t1, t2}
  MarketViews <- MCViews
  Limits <- MCLimits
  PaperCash <- MCCash
  Reports <- MCReports
  Expiring = {m1}
  MaxTicks = 2
  MaxReplays = 2
INVARIANTS
  TypeOK
PROPERTIES
  ReplayKeepsLimits
  PaperSettles
