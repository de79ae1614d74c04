----------------------------- MODULE OrderPath -----------------------------
(***************************************************************************)
(* One order from the busy flag to the book, in detail: a job takes its    *)
(* market's slot, builds the request, signs it with a stamp of the venue's *)
(* clock, waits for the reply, books what the reply reports and gives the  *)
(* slot back.  LiveTrading sees the request and its reply as one step; the *)
(* jobs here send one order each.                                          *)
(*                                                                         *)
(* The venue is external.  It reads only the request: an order is filled   *)
(* whole or not at all, unless the client asked it to rest.  Executions    *)
(* come best price first.                                                  *)
(***************************************************************************)
EXTENDS LiveBusy, RequestClock, OrderClient

CONSTANTS
  Orders,      \* the legs a job may have to send
  Keyed,       \* the venues whose keys are set
  BookPrices,  \* the prices at which the venues trade
  MaxOrders    \* bound: orders sent

ASSUME OrdersAssumption ==
  /\ Orders \subseteq {leg \in Leg : leg.venue \in Venues /\ leg.size > 0 /\ leg.price \in Prices}
  /\ Orders # {}
  /\ Keyed \subseteq Venues /\ BookPrices \subseteq Prices /\ MaxOrders \in Nat
ASSUME ThreadsAssumption == IsFiniteSet(Threads)

VARIABLES
  inYesCents,  \* does Kalshi report the price of a no fill in cents of yes?
  nonce,       \* the highest nonce Gemini has seen
  order,       \* what each thread is doing
  sent,        \* orders sent so far
  reported     \* contracts the venues have reported and the program not booked

vars == <<slotVars, clockVars, inYesCents, nonce, order, sent, reported>>

\* The executions of an order, and the money that moved with them.
NoTrade == [count |-> 0, cash |-> 0]

NoReply == [venue |-> Kalshi, status |-> 0, count |-> 0, total |-> 0, executions |-> <<>>]
AnyLeg == CHOOSE leg \in Orders : TRUE

IdleOrder == [pc |-> "idle", market |-> NoMarket, leg |-> AnyLeg,
              request |-> Request(AnyLeg, TRUE), reply |-> NoReply, trade |-> NoTrade,
              fill |-> [AnyLeg EXCEPT !.size = 0]]

Init ==
  /\ FlagsOff
  /\ ClocksAtZero
  /\ inYesCents \in BOOLEAN /\ nonce = 0
  /\ order = [t \in Threads |-> IdleOrder]
  /\ sent = 0 /\ reported = 0

Goes(t, pc) == order[t].pc = pc
Goto(t, o) == order' = [order EXCEPT ![t] = o]

-----------------------------------------------------------------------------
(* The job *)

\* tryBusy, and the request.  The client reads assisiLiveOrders again: another
\* start on the page, or an edit of .env, may have turned it off since the tick.
\* Without keys the client returns before it signs.
Acquire(t, market, leg, live) ==
  /\ Goes(t, "idle")
  /\ sent < MaxOrders
  /\ sent' = sent + 1
  /\ tryAcquire(market)
  /\ Goto(t, [IdleOrder EXCEPT !.pc = IF leg.venue \in Keyed THEN "sign" ELSE "release",
                               !.market = market, !.leg = leg,
                               !.request = Request(leg, live)])
  /\ UNCHANGED <<clockVars, inYesCents, nonce, reported>>

TryBusyInFlight(t, market) ==
  /\ Goes(t, "idle")
  /\ acquireFails(market)
  /\ UNCHANGED vars

Sign(t) ==
  /\ Goes(t, "sign")
  /\ ReadWall(t, order[t].leg.venue) \/ LoadLast(t) \/ SwapFails(t)
  /\ UNCHANGED <<slotVars, inYesCents, nonce, order, sent, reported>>

Signed(t) ==
  /\ Goes(t, "sign")
  /\ Swap(t)
  /\ Goto(t, [order[t] EXCEPT !.pc = "send"])
  /\ UNCHANGED <<slotVars, inYesCents, nonce, sent, reported>>

\* What a fill adds to the cash of the book, fees aside (portfolio.hpp).
bookedCash(f) ==
  IF f.buy \/ (f.venue = Kalshi /\ f.side = NoSided) THEN -(f.size * f.price)
  ELSE f.size * f.price

\* The size that was asked for is booked, whatever was reported.
BookAsked(t) ==
  LET result == Result(order[t].reply)
      fill   == takeReportedFill([result EXCEPT !.count = order[t].leg.size], order[t].leg)
  IN  /\ Goes(t, "reply")
      /\ IF result.ok
         THEN /\ Goto(t, [order[t] EXCEPT !.pc = "release", !.fill = fill])
              /\ reported' = reported - fill.size
         ELSE Goto(t, [order[t] EXCEPT !.pc = "release"]) /\ UNCHANGED reported
      /\ UNCHANGED <<slotVars, clockVars, inYesCents, nonce, sent>>

\* sendVenueOrder, from the reply on.
Book(t) ==
  LET result == Result(order[t].reply)
      fill   == takeReportedFill(result, order[t].leg)
  IN  /\ Goes(t, "reply")
      /\ IF result.ok
         THEN /\ Goto(t, [order[t] EXCEPT !.pc = "release", !.fill = fill])
              /\ reported' = reported - fill.size
         ELSE Goto(t, [order[t] EXCEPT !.pc = "release"]) /\ UNCHANGED reported
      /\ UNCHANGED <<slotVars, clockVars, inYesCents, nonce, sent>>

\* clearBusy
Finish(t) ==
  /\ Goes(t, "release")
  /\ release(order[t].market)
  /\ Goto(t, IdleOrder)
  /\ UNCHANGED <<clockVars, inYesCents, nonce, sent, reported>>

-----------------------------------------------------------------------------
(* The venues (external) *)

Buys(request) == request.word \in {"bid", "BUY_LONG", "BUY_SHORT", "buy_yes", "buy_no"}

\* The prices the venue's book may give: at the limit or better.
Within(request) ==
  {p \in BookPrices : IF Buys(request) THEN p <= request.price ELSE p >= request.price}

BestFirst(request, p, q) == IF Buys(request) THEN p <= q ELSE p >= q

\* One execution, or two at different prices; an order that may rest can also
\* fill in part.
Executions(request) ==
  LET fill(n, p) == [shares |-> n, price |-> p]
      parts == 1..(request.count - 1)
      whole == {<<fill(request.count, p)>> : p \in Within(request)}
      split == {<<fill(n, p), fill(request.count - n, q)>> :
                  n \in parts, p \in Within(request), q \in Within(request)}
      part  == {<<fill(n, p)>> : n \in parts, p \in Within(request)}
  IN  whole
        \cup {s \in split : s[1].price # s[2].price /\ BestFirst(request, s[1].price, s[2].price)}
        \cup (IF request.tif = "fill_or_kill" THEN {} ELSE part)

\* The cents that were paid for a list of executions.
Total(executions) ==
  SumFunction([i \in DOMAIN executions |-> executions[i].shares * executions[i].price])

\* What the executions of a request cost or earn: a no contract bought in the
\* yes book costs what is left of the dollar.
Earned(leg, request, executions) ==
  CASE request.word = "ask" /\ leg.side = NoSided
         -> Total(executions) - kDollarCents * Shares(executions)
    [] Buys(request) -> -Total(executions)
    [] OTHER -> Total(executions)

\* The cents a Kalshi reply adds up for a no leg.
ReportedTotal(leg, executions) ==
  IF leg.venue = Kalshi /\ leg.side = NoSided /\ ~inYesCents
  THEN kDollarCents * Shares(executions) - Total(executions)
  ELSE Total(executions)

\* The reply that reports executions, with or without the price.
Reply(leg, executions, priced) ==
  [venue |-> leg.venue, status |-> 201, count |-> Shares(executions),
   total |-> IF priced THEN ReportedTotal(leg, executions) ELSE 0,
   executions |-> [i \in DOMAIN executions |->
                     [executions[i] EXCEPT !.price = IF priced THEN @ ELSE 0]]]

Traded(leg, request, executions) ==
  [count |-> Shares(executions), cash |-> Earned(leg, request, executions)]

FreshNonce(t) == order[t].leg.venue # Gemini \/ stamp[t] > nonce

Seen(t) == nonce' = IF order[t].leg.venue = Gemini /\ stamp[t] > nonce THEN stamp[t] ELSE nonce

\* The venue executes the order and reports it.
Executes(t) ==
  LET o == order[t]
  IN  /\ Goes(t, "send")
      /\ FreshNonce(t) /\ Seen(t)
      /\ \E executions \in Executions(o.request) : \E priced \in BOOLEAN :
           /\ Goto(t, [o EXCEPT !.pc = "reply", !.reply = Reply(o.leg, executions, priced),
                                !.trade = Traded(o.leg, o.request, executions)])
           /\ reported' = reported + Shares(executions)
      /\ UNCHANGED <<slotVars, clockVars, inYesCents, sent>>

\* No fill is reported: nothing traded at this price, the order was refused (a
\* nonce must be higher than the last), it rests, or the reply was lost.
NotReported(t) ==
  LET o == order[t]
  IN  /\ Goes(t, "send")
      /\ Seen(t)
      /\ Goto(t, [o EXCEPT !.pc = "reply", !.reply = [NoReply EXCEPT !.venue = o.leg.venue]])
      /\ UNCHANGED <<slotVars, clockVars, inYesCents, sent, reported>>

-----------------------------------------------------------------------------
Job(t) ==
  \/ \E m \in Markets, leg \in Orders, live \in BOOLEAN : Acquire(t, m, leg, live)
  \/ \E m \in Markets : TryBusyInFlight(t, m)
  \/ Sign(t) \/ Signed(t) \/ Executes(t) \/ NotReported(t) \/ Book(t) \/ Finish(t)

Next == \E t \in Threads : Job(t)

Spec == Init /\ [][Next]_vars

-----------------------------------------------------------------------------
(* Properties *)

\* The threads that work on each market.
slotHolders ==
  [m \in Markets |-> {t \in Threads : order[t].pc # "idle" /\ order[t].market = m}]

Lock == INSTANCE MarketLock WITH holders <- slotHolders

(* The slots implement MarketLock: whatever order markets are first seen in,
   two jobs never have the same one (live_busy.hpp:5-39). *)
LocksRefined == Lock!Spec

Booked(t) == order[t].pc = "release" /\ order[t].fill.size > 0

\* The worst a leg agrees to: the limit it was given, of which a no contract on
\* Kalshi is closed by paying the complement.
Agreed(leg) ==
  CASE leg.buy -> -leg.price
    [] ~leg.buy /\ leg.venue = Kalshi /\ leg.side = NoSided -> -complementCents(leg.price)
    [] OTHER -> leg.price

(* The request says what the leg means: in whatever words the venue uses, no
   execution costs more, or earns less, than the limit of the leg allows
   (kalshi_order.cpp:18-34, polymarket_order.cpp:17-26, gemini_order.cpp:15-20). *)
RequestMeansLeg ==
  \A t \in Threads :
    order[t].trade.cash >= order[t].trade.count * Agreed(order[t].leg)

\* A no leg on Kalshi whose fill price is reported in cents of the other side:
\* the code reads the price of a purchase as cents of no and that of a closing
\* sale as cents of yes, so one of the two is read wrong.
ReadAsOtherSide(leg) == leg.venue = Kalshi /\ leg.side = NoSided /\ leg.buy = inYesCents

(* The book never flatters: rounding apart, half a cent a contract, a fill is
   booked as costing no less and earning no more than it did, with an average
   price, the last of several prices, or the limit when none is reported
   (polymarket_order.cpp:51-60, money.hpp:22, main.cpp:113). *)
BookNeverFlatters ==
  \A t \in Threads :
    Booked(t) /\ ~ReadAsOtherSide(order[t].leg) =>
      2 * bookedCash(order[t].fill) <= 2 * order[t].trade.cash + order[t].fill.size

(* What LiveTrading takes a reply for: an order sent fill-or-kill and booked
   is booked whole, a purchase at its limit or better and a sale at a price a
   contract can have (main.cpp:113-127). *)
FillIsWholeWithinLimit ==
  \A t \in Threads :
    Booked(t) /\ order[t].request.tif = timeInForce(TRUE) =>
      /\ order[t].fill.size = order[t].leg.size
      /\ order[t].fill.price \in Prices
      /\ order[t].leg.buy /\ ~ReadAsOtherSide(order[t].leg)
           => order[t].fill.price <= order[t].leg.price

\* Contracts executed by an order whose reply is being read.
arriving == SumFunction([t \in {u \in Threads : order[u].pc = "reply"} |-> order[t].trade.count])

(* Each contract a venue reports is booked once, by the job that sent the order,
   and no contract is booked that was not reported (execution.hpp:19,
   README.md:49 "parsers never invent idea.size"). *)
ReportedIsBooked == reported = arriving
=============================================================================
