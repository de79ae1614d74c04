---------------------------- MODULE OrderClient ----------------------------
(***************************************************************************)
(* The order clients (kalshi_order.cpp, polymarket_order.cpp,              *)
(* gemini_order.cpp): how a leg becomes the request of a venue, and what   *)
(* is read out of the venue's reply.                                       *)
(*                                                                         *)
(* A request is what the venue needs to know of the JSON that is sent, in  *)
(* the venue's own words.  A reply is a status and either the contracts    *)
(* and the average price, or the list of executions.                       *)
(***************************************************************************)
EXTENDS Pricing, SequencesExt

-----------------------------------------------------------------------------
(* Requests *)

\* An order that rests, whoever asks.
timeInForceRests(live) == "good_till_canceled"

\* assisiLiveOrders, read again when the order is built.
timeInForce(live) == IF live THEN "fill_or_kill" ELSE "good_till_canceled"

\* A no leg sent to the yes book at its own price.
kalshiRequestUncomplemented(leg, live) ==
  [venue |-> Kalshi, word |-> IF leg.buy = (leg.side = YesSided) THEN "bid" ELSE "ask",
   price |-> leg.price, count |-> leg.size, tif |-> timeInForce(live)]

\* Kalshi has one book per market, of yes contracts: no is bought by selling
\* yes, and sold by buying it, at the complement.
kalshiRequest(leg, live) ==
  [venue |-> Kalshi,
   word  |-> IF leg.buy = (leg.side = YesSided) THEN "bid" ELSE "ask",
   price |-> IF leg.side = YesSided THEN leg.price ELSE complementCents(leg.price),
   count |-> leg.size, tif |-> timeInForce(live)]

\* The words of a venue that tells the four cases apart.
FourWords(leg, buyYes, buyNo, sellYes, sellNo) ==
  IF leg.buy THEN IF leg.side = YesSided THEN buyYes ELSE buyNo
  ELSE IF leg.side = YesSided THEN sellYes ELSE sellNo

polymarketRequest(leg, live) ==
  [venue |-> Polymarket,
   word  |-> FourWords(leg, "BUY_LONG", "BUY_SHORT", "SELL_LONG", "SELL_SHORT"),
   price |-> leg.price, count |-> leg.size, tif |-> timeInForce(live)]

\* side and outcome
geminiRequest(leg, live) ==
  [venue |-> Gemini,
   word  |-> FourWords(leg, "buy_yes", "buy_no", "sell_yes", "sell_no"),
   price |-> leg.price, count |-> leg.size, tif |-> timeInForce(live)]

Request(leg, live) ==
  CASE leg.venue = Kalshi     -> kalshiRequest(leg, live)
    [] leg.venue = Polymarket -> polymarketRequest(leg, live)
    [] leg.venue = Gemini     -> geminiRequest(leg, live)

-----------------------------------------------------------------------------
(* Replies *)

Accepted(venue) == IF venue = Kalshi THEN {201} ELSE {200, 201}

\* An amount of dollars with three decimals or more, read to the nearest cent:
\* total / n cents, of which the tenths are the third decimal.
parseTruncated(total, n) == total \div n
parseAverage(total, n) == ((10 * total) \div n + 5) \div 10

NoOrder == [ok |-> FALSE, count |-> 0, price |-> 0]

\* fill_count and average_fill_price, or executedQuantity and avgPrice: a
\* reply without a price has a total of 0.
averageResult(reply) ==
  IF reply.status \notin Accepted(reply.venue) \/ reply.count <= 0 THEN NoOrder
  ELSE [ok |-> TRUE, count |-> reply.count, price |-> parseAverage(reply.total, reply.count)]

\* The contracts of a list of executions.
Shares(executions) == SumFunction([i \in DOMAIN executions |-> executions[i].shares])

\* The price of the first execution stands for all.
executionsResultFirst(reply) ==
  LET count == Shares(reply.executions)
  IN  IF reply.status \notin Accepted(reply.venue) \/ count <= 0 THEN NoOrder
      ELSE [ok |-> TRUE, count |-> count, price |-> Head(reply.executions).price]

\* Polymarket's executions: the shares add up, the price is the last one's.
executionsResult(reply) ==
  LET count == Shares(reply.executions)
  IN  IF reply.status \notin Accepted(reply.venue) \/ count <= 0 THEN NoOrder
      ELSE [ok |-> TRUE, count |-> count, price |-> Last(reply.executions).price]

Result(reply) ==
  IF reply.venue = Polymarket THEN executionsResult(reply) ELSE averageResult(reply)

\* The price sendVenueOrder books when the reply carries none.
fallbackPrice(leg) ==
  IF ~leg.buy /\ leg.venue = Kalshi /\ leg.side = NoSided
  THEN complementCents(leg.price) ELSE leg.price

\* takeReportedFill: the reported count, never the size that was asked for.
takeReportedFill(result, leg) ==
  [leg EXCEPT !.size = result.count,
              !.price = IF result.price > 0 THEN result.price ELSE fallbackPrice(leg)]
=============================================================================
