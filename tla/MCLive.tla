------------------------------- MODULE MCLive -------------------------------
(* Two markets on Kalshi and Polymarket.  The quotes are tight, so a chase
   reaches its ceiling within a few orders, and cover both send orders: yes on
   Kalshi, and only no on Kalshi. *)
EXTENDS LiveTrading, TLC

Quote(yesAsk, noAsk, depth) ==
  [listed |-> TRUE, depth |-> [s \in Sides |-> depth],
   ask |-> [s \in Sides |-> IF s = YesSided THEN yesAsk ELSE noAsk]]
Unlisted == [listed |-> FALSE, depth |-> [s \in Sides |-> 0], ask |-> [s \in Sides |-> 0]]

OnTwoVenues(kalshi, polymarket) ==
  [v \in Venues |-> CASE v = Kalshi     -> kalshi
                      [] v = Polymarket -> polymarket
                      [] OTHER          -> Unlisted]

\* yes on Kalshi at 44, no on Polymarket at 51: one cent of room to chase.
YesOnKalshi == OnTwoVenues(Quote(44, 60, 2), Quote(48, 51, 2))
\* yes on Polymarket at 52, no on Kalshi at 43: the no leg is sent first.
NoOnKalshi  == OnTwoVenues(Quote(60, 43, 3), Quote(52, 52, 3))

CONSTANTS m1, m2
MCViews == (m1 :> {YesOnKalshi, NoOnKalshi}) @@ (m2 :> {NoOnKalshi})
MCLimits == [max_market_pct |-> 100, max_allocation_pct |-> 100, venue_reserve_pct |-> 0,
             max_contracts |-> 4, chase_reserve |-> 1, max_drawdown |-> 5]
MCCash == [v \in Venues |-> IF v = Gemini THEN 0 ELSE 110]
MCConfigured == {Kalshi, Polymarket}
ThreadSymmetry == Permutations(Feeds) \cup Permutations(Workers)
=============================================================================
