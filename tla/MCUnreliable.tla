---------------------------- MODULE MCUnreliable ----------------------------
(* One market, traded repeatedly by two feeds while everything around the
   engine misbehaves: replies are lost or come without a price, balance
   requests fail, the operator stops trading and the market expires.  The
   chase reserve is two cents, so a pair that just pays is over its ceiling
   before the first order, and a leg is tried at most twice. *)
EXTENDS LiveTrading, TLC

Quote(yesAsk, noAsk, depth) ==
  [listed |-> TRUE, depth |-> [s \in Sides |-> depth],
   ask |-> [s \in Sides |-> IF s = YesSided THEN yesAsk ELSE noAsk]]
Unlisted == [listed |-> FALSE, depth |-> [s \in Sides |-> 0], ask |-> [s \in Sides |-> 0]]
View3(kalshi, gemini) ==
  [v \in Venues |-> CASE v = Kalshi -> kalshi [] v = Gemini -> gemini [] OTHER -> Unlisted]

CONSTANT m1
\* 44+2 yes on Kalshi and 51+2 no on Gemini: 99, over the ceiling at once.
NoRoom == View3(Quote(44, 60, 2), Quote(60, 51, 2))
\* no on Kalshi at 40, yes on Gemini at 50: room for more tries than allowed.
Wide   == View3(Quote(60, 40, 2), Quote(50, 60, 2))

MCViews == m1 :> {NoRoom, Wide}
MCLimits == [max_market_pct |-> 90, max_allocation_pct |-> 90, venue_reserve_pct |-> 10,
             max_contracts |-> 6, chase_reserve |-> 2, max_drawdown |-> 6]
MCCash == [v \in Venues |-> IF v = Polymarket THEN 0 ELSE 300]
MCConfigured == {Kalshi, Gemini}
ThreadSymmetry == Permutations(Feeds) \cup Permutations(Workers)
=============================================================================
