SPECIFICATION Spec
CONSTANTS
  ka = ka
  kb = kb
  ga = ga
  ga2 = ga2
  gc = gc
  NoTicker = NoTicker
  Rows <- MCRows
  MaxMarkets = 2
  Tickers <- MCTickers
  Keyed <- MCKeyed
  Books <- MCBooks
INVARIANTS
  TypeOK
  QuoteIsLastSent
  TickSeesItsQuote
  WaitFollowsFailures
