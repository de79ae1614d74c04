-------------------------------- MODULE Risk --------------------------------
(***************************************************************************)
(* approve_pair (risk.hpp): both legs are shrunk together against each     *)
(* limit in turn, and the first limit that leaves no contract names the    *)
(* rejection.                                                              *)
(*                                                                         *)
(* A book is a Portfolio snapshot: cash, exposure and reserved cents per   *)
(* venue, and the position of each market.                                 *)
(***************************************************************************)
EXTENDS Strategy, Sequences

\* The RiskLimits that approve_pair reads, and the two that bound a live job.
RiskLimits == [max_market_pct : 0..100, max_allocation_pct : 0..100,
               venue_reserve_pct : 0..100, max_contracts : Nat,
               chase_reserve : Nat, max_drawdown : Nat]

\* Portfolio::venueCash: cash not set aside, never negative.
venueCash(book, v) ==
  LET spendable == book.cash[v] - book.reserved[v]
  IN  IF spendable > 0 THEN spendable ELSE 0

OverVenues(f) == f[Kalshi] + f[Polymarket] + f[Gemini]

\* A reserve that is taken from what is left instead of from all there was.
reserveRoomOfCash(book, v, limits) ==
  truncDiv(book.cash[v] * (100 - limits.venue_reserve_pct), 100) - book.reserved[v]

\* What the venue-reserve limit leaves to spend on a venue.
reserveRoom(book, v, limits) ==
  truncDiv((book.cash[v] + book.exposure[v]) * (100 - limits.venue_reserve_pct), 100)
    - book.exposure[v] - book.reserved[v]

contractRoom(position, limits) ==
  limits.max_contracts - (position.count[YesSided] + position.count[NoSided])

marketExposure(position) ==
    position.avg[YesSided] * position.count[YesSided]
  + position.avg[NoSided] * position.count[NoSided]

\* The size left by one per-venue limit: a pair on one venue is fitted as a
\* whole, otherwise each leg against its own venue.
fitVenues(yes, no, size, room) ==
  IF yes.venue = no.venue
  THEN fitPair(size, room[yes.venue], yes, no)
  ELSE fitLeg(fitLeg(size, room[yes.venue], yes), room[no.venue], no)

approve_pair(yes, no, market, book, limits, halted) ==
  LET position == book.pos[market]
      asked  == IF yes.size < no.size THEN yes.size ELSE no.size
      room   == contractRoom(position, limits)
      equity == OverVenues(book.cash) + OverVenues(book.exposure)

      onContracts == IF 2 * asked > room THEN truncDiv(room, 2) ELSE asked
      onCash      == fitVenues(yes, no, onContracts, [v \in Venues |-> venueCash(book, v)])
      onReserve   == fitVenues(yes, no, onCash, [v \in Venues |-> reserveRoom(book, v, limits)])
      onAllocation ==
        fitPair(onReserve,
                truncDiv((OverVenues(book.cash) - OverVenues(book.reserved))
                           * limits.max_allocation_pct, 100)
                  - OverVenues(book.exposure), yes, no)
      onMarket ==
        fitPair(onAllocation,
                truncDiv(equity * limits.max_market_pct, 100) - marketExposure(position),
                yes, no)
      onEdge == Max({0} \cup {k \in 1..onMarket : pairProfitableAtSize(yes, no, k)})

      checks == << <<"Halted",       halted>>,
                   <<"ContractCap",  onContracts < 1>>,
                   <<"VenueCash",    onCash < 1>>,
                   <<"VenueReserve", onReserve < 1>>,
                   <<"NoCash",       OverVenues(book.cash) = 0>>,
                   <<"Allocation",   onAllocation < 1>>,
                   <<"NoEquity",     equity = 0>>,
                   <<"MarketPct",    onMarket < 1>>,
                   <<"BelowMinEdge", onEdge < 1>> >>
      failed == {i \in 1..Len(checks) : checks[i][2]}
  IN  IF failed = {} THEN [reason |-> "Ok", size |-> onEdge]
      ELSE [reason |-> checks[Min(failed)][1], size |-> 0]
=============================================================================
