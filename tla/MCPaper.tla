------------------------------ MODULE MCPaper -------------------------------
(* A market that two feeds trade on paper, or that two tapes trade.  The
   first pair is dear, and the limits on money, at a few dollars, cut the size of
   the next one; the second is cheap and runs into the contract cap.  The venues
   report nothing; a pair and a leftover on Kalshi; or contracts above the cap,
   a leftover among them, those of one side from two venues. *)
EXTENDS PaperTrading, TLC

Quote(yesAsk, noAsk, depth) ==
  [listed |-> TRUE, depth |-> [s \in Sides |-> depth],
   ask |-> [s \in Sides |-> IF s = YesSided THEN yesAsk ELSE noAsk]]
Unlisted == [listed |-> FALSE, depth |-> [s \in Sides |-> 0], ask |-> [s \in Sides |-> 0]]
OnTwoVenues(kalshi, polymarket) ==
  [v \in Venues |-> CASE v = Kalshi     -> kalshi
                      [] v = Polymarket -> polymarket
                      [] OTHER          -> Unlisted]

CONSTANT m1
MCViews ==
  m1 :> {OnTwoVenues(Quote(44, 60, 3), Quote(48, 51, 3)),
         OnTwoVenues(Quote(60, 10, 5), Quote(12, 60, 5))}
MCLimits == [max_market_pct |-> 70, max_allocation_pct |-> 2, venue_reserve_pct |-> 98,
             max_contracts |-> 9, chase_reserve |-> 1, max_drawdown |-> 14]
MCCash == [v \in Venues |-> 10000]
Reported(market, venue, side, count, avg) ==
  [market |-> market, venue |-> venue, side |-> side, count |-> count, avg |-> avg]
MCReports ==
  {{},
   {Reported(m1, Kalshi, NoSided, 2, 40), Reported(m1, Polymarket, YesSided, 1, 48)},
   {Reported(m1, Kalshi, YesSided, 5, 45), Reported(m1, Polymarket, NoSided, 4, 50),
    Reported(m1, Gemini, NoSided, 2, 45)}}
ThreadSymmetry == Permutations(Feeds)
=============================================================================
