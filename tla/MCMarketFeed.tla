---------------------------- MODULE MCMarketFeed ----------------------------
(* Kalshi and Gemini feeds over a table of two markets.  The second row repeats
   a market and the fourth finds the table full; both have a name on Gemini
   that is subscribed to all the same.  Polymarket's keys are missing. *)
EXTENDS MarketFeed
CONSTANTS ka, kb, ga, ga2, gc

Names(k, g) == [v \in Venues |-> IF v = Kalshi THEN k ELSE IF v = Gemini THEN g ELSE NoTicker]
MCRows == << [market |-> 7, ticker |-> Names(ka, ga)],
             [market |-> 7, ticker |-> Names(NoTicker, ga2)],
             [market |-> 8, ticker |-> Names(kb, NoTicker)],
             [market |-> 9, ticker |-> Names(NoTicker, gc)] >>
MCTickers == {ka, kb, ga, ga2, gc}
MCKeyed == {Kalshi}
\* A two-sided book, and one without a bid.
MCBooks == { [yesBid |-> 40, yesAsk |-> 42, yesBidSize |-> 10, yesAskSize |-> 5],
             [yesBid |-> 0, yesAsk |-> 55, yesBidSize |-> 0, yesAskSize |-> 3] }
\* For liveness: two feeds that send nothing.
MCOneRow == << [market |-> 7, ticker |-> Names(ka, ga)] >>
MCSilent == {}
=============================================================================
