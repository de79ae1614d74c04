SPECIFICATION FairSpec
CONSTANTS
  ka = ka
  kb = kb
  ga = ga
  ga2 = ga2
  gc = gc
  NoTicker = NoTicker
  Rows <- MCOneRow
  MaxMarkets = 2
  Tickers <- MCTickers
  Keyed <- MCKeyed
  Books <- MCSilent
PROPERTIES
  FeedsReturn
