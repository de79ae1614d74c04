----------------------------- MODULE MCRestart ------------------------------
(* One market, one feed, and venues that fill, miss or refuse to answer, with
   one crash.  Pairs of both kinds and of different sizes are bought, so
   positions of both sides lie on both venues when the process dies, and one
   worker suffices: a market has one job at a time. *)
EXTENDS Restart, TLC

Quote(yesAsk, noAsk, depth) ==
  [listed |-> TRUE, depth |-> [s \in Sides |-> depth],
   ask |-> [s \in Sides |-> IF s = YesSided THEN yesAsk ELSE noAsk]]
Unlisted == [listed |-> FALSE, depth |-> [s \in Sides |-> 0], ask |-> [s \in Sides |-> 0]]
View3(kalshi, gemini) ==
  [v \in Venues |-> CASE v = Kalshi -> kalshi [] v = Gemini -> gemini [] OTHER -> Unlisted]

CONSTANT m1
MCViews == m1 :> {View3(Quote(44, 60, 3), Quote(60, 48, 3)),
                  View3(Quote(60, 40, 2), Quote(50, 60, 2))}
MCLimits == [max_market_pct |-> 90, max_allocation_pct |-> 90, venue_reserve_pct |-> 10,
             max_contracts |-> 6, chase_reserve |-> 2, max_drawdown |-> 100]
MCCash == [v \in Venues |-> IF v = Polymarket THEN 0 ELSE 300]
MCConfigured == {Kalshi, Gemini}
=============================================================================
