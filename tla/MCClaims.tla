------------------------------ MODULE MCClaims ------------------------------
(* One market and two feeds.  For the cap: one pair is all the limits allow,
   46 cents of Kalshi yes and 52 of Polymarket no, fees included.  For the
   leftover: two contracts of that pair, or one with the venues exchanged. *)
EXTENDS LiveClaims, TLC

Quote(yesAsk, noAsk, depth) ==
  [listed |-> TRUE, depth |-> [s \in Sides |-> depth],
   ask |-> [s \in Sides |-> IF s = YesSided THEN yesAsk ELSE noAsk]]
Unlisted == [listed |-> FALSE, depth |-> [s \in Sides |-> 0], ask |-> [s \in Sides |-> 0]]
OnTwoVenues(kalshi, polymarket) ==
  [v \in Venues |-> CASE v = Kalshi     -> kalshi
                      [] v = Polymarket -> polymarket
                      [] OTHER          -> Unlisted]

YesOnKalshi(depth) == OnTwoVenues(Quote(44, 60, depth), Quote(48, 51, depth))
NoOnKalshi(depth)  == OnTwoVenues(Quote(60, 43, depth), Quote(52, 60, depth))

MCOneView  == [m \in Markets |-> {YesOnKalshi(2)}]
MCTwoViews == [m \in Markets |-> {YesOnKalshi(3), NoOnKalshi(2)}]
Caps(contracts) ==
            [max_market_pct |-> 100, max_allocation_pct |-> 100, venue_reserve_pct |-> 0,
             max_contracts |-> contracts, chase_reserve |-> 1, max_drawdown |-> 1000]
MCOnePair == Caps(2)
MCTwoPairs == Caps(4)
MCCash == [v \in Venues |-> CASE v = Kalshi -> 150 [] v = Polymarket -> 165 [] OTHER -> 0]
MCConfigured == {Kalshi, Polymarket}
ThreadSymmetry == Permutations(Feeds) \cup Permutations(Workers)
=============================================================================
