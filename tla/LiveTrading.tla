----------------------------- MODULE LiveTrading -----------------------------
(***************************************************************************)
(* The live order path of main.cpp.                                        *)
(*                                                                         *)
(* Feed threads (one websocket callback each) run on_tick: they copy the   *)
(* book, decide, and then take the market's busy flag and set cash aside   *)
(* before they detach a worker thread.  A worker runs liveSendPair or      *)
(* liveFlatten: it sends orders to the venues over HTTP, books the fills,  *)
(* gives the cash back, sells what is left over, refreshes the cash of     *)
(* each venue and clears the flag.  Feeds and workers interleave at every  *)
(* lock, atomic and HTTP request; a step here is the code between two of   *)
(* them.                                                                   *)
(*                                                                         *)
(* The venues are external: an order is filled whole or missed (orders are *)
(* sent fill-or-kill), its reply may be lost, and a balance request        *)
(* returns what the venue holds at that moment.  `funds` and `owned` are   *)
(* what the venues hold; the program never reads them directly.            *)
(***************************************************************************)
EXTENDS PortfolioManager

CONSTANTS
  Feeds,          \* feed threads
  Workers,        \* detached threads that can exist at once
  MarketViews,    \* the views a tick may read, per market
  Limits,         \* the RiskLimits loaded at startup
  InitialCash,    \* what each venue reports at startup
  Configured,     \* the venues whose keys are set
  ChaseTries,     \* orders sendSide sends for one leg (15 in the code)
  Improvements,   \* cents by which a venue may fill a buy below its limit
  SellPrices,     \* prices at which a venue may fill a leftover
  PriceOmitted,   \* may a reply leave the fill price out?
  LostReplies,    \* may the reply to an executed order be lost?
  RefreshFails,   \* may a balance request fail?
  Stoppable,      \* may the operator press Stop?
  NoMarket,       \* market id 0: no market
  Expiring,       \* the markets whose expiration date may pass
  MaxTicks,       \* bound: ticks that lead to an attempt
  BoundFlattens   \* does a tick that starts a flatten count too?

ASSUME LimitsAssumption == Limits \in RiskLimits
ASSUME MarketViewsAssumption == MarketViews \in [Markets -> SUBSET View]
ASSUME InitialCashAssumption == InitialCash \in [Venues -> Nat]
ASSUME ConfiguredAssumption == Configured \subseteq Venues
ASSUME FillPricesAssumption == Improvements \subseteq Nat /\ SellPrices \subseteq Prices
ASSUME BoundsAssumption == ChaseTries \in Nat /\ MaxTicks \in Nat /\ BoundFlattens \in BOOLEAN
ASSUME NoMarketAssumption == NoMarket \notin Markets
ASSUME ThreadsAssumption == Feeds \cap Workers = {}

VARIABLES
  busy,      \* the markets whose busy flag is on
  killed,    \* RiskState.halted
  loss,      \* RiskState.realized_loss
  stopped,   \* the monitor's halt flag
  working,   \* the monitor's count of running jobs
  expired,   \* the markets past their expiration date
  feed,      \* what each feed thread is doing
  job,       \* what each worker thread is doing
  ticks,     \* counted ticks so far
  funds,     \* cents each venue holds for us
  owned      \* contracts each venue holds for us, per market and side

gateVars  == <<killed, loss, stopped>>
venueVars == <<funds, owned>>
vars == <<bookVars, busy, gateVars, working, expired, feed, job, ticks, venueVars>>

-----------------------------------------------------------------------------
(* Threads *)

FeedState == [pc : {"idle", "tryBusy", "reserve"}, market : Markets \cup {NoMarket},
              leg : [Sides -> Leg]]
IdleFeed == [pc |-> "idle", market |-> NoMarket, leg |-> NoIdea]

JobState ==
  [pc      : {"idle", "send", "apply", "note", "halt", "release", "flatten",
              "get", "set", "clear", "end"},
   market  : Markets \cup {NoMarket},
   stage   : {"first", "second", "done", "flatten"},
   leg     : [Sides -> Leg],     \* the legs at their current prices
   copy    : [Sides -> Leg],     \* the legs as reserved
   holding : BOOLEAN,            \* cash is still set aside for the job
   sell    : Leg,                \* the leftover being sold
   sold    : BOOLEAN,            \* flattenSurplus returned true
   tries   : Nat,
   fill    : Leg,                \* the fill being booked
   at      : Venues,             \* the venue being refreshed
   balance : Int]

NoFill == NoLeg(YesSided)

NewJob(pc, market, stage, leg, holding) ==
  [pc |-> pc, market |-> market, stage |-> stage, leg |-> leg, copy |-> leg,
   holding |-> holding, sell |-> NoFill, sold |-> FALSE, tries |-> 0,
   fill |-> NoFill, at |-> Kalshi, balance |-> 0]

IdleJob == NewJob("idle", NoMarket, "done", NoIdea, FALSE)

\* liveSendPair keeps a copy of the approved legs: the cash is given back at
\* the prices of the copy.
PairJob(market, leg) == NewJob("send", market, "first", leg, TRUE)
FlattenJob(market)   == NewJob("flatten", market, "flatten", NoIdea, FALSE)

\* The leg sent first is yes, unless only the no leg is on Kalshi.
FirstSide(leg) ==
  IF leg[NoSided].venue = Kalshi /\ leg[YesSided].venue # Kalshi THEN NoSided ELSE YesSided

\* The side a pair job is buying, and the order a job is sending.
Turn(j) == IF j.stage = "first" THEN FirstSide(j.leg) ELSE OtherSide(FirstSide(j.leg))
Order(j) == IF j.stage = "flatten" THEN j.sell ELSE j.leg[Turn(j)]

\* A worker that has started and has not yet cleared its market's flag.
Active(w) == job[w].pc \notin {"idle", "end"}
ActiveOn(market) == {w \in Workers : Active(w) /\ job[w].market = market}

Init ==
  /\ cash = InitialCash
  /\ exposure = [v \in Venues |-> 0]
  /\ reserved = [v \in Venues |-> 0]
  /\ pos = [m \in Markets |-> EmptyPosition]
  /\ busy = {} /\ working = 0
  /\ killed = FALSE /\ loss = 0 /\ stopped = FALSE
  /\ expired = {}
  /\ feed = [t \in Feeds |-> IdleFeed]
  /\ job = [w \in Workers |-> IdleJob]
  /\ ticks = 0
  /\ funds = InitialCash
  /\ owned = [m \in Markets |-> [s \in Sides |-> [v \in Venues |-> 0]]]

-----------------------------------------------------------------------------
(* on_tick.  The book is copied once and every check up to the busy flag    *)
(* uses the copy; the halt flags only ever rise, so reading them with the   *)
(* copy allows every outcome of reading them a little later.                *)

Attempt(t, market, leg) ==
  /\ feed' = [feed EXCEPT ![t] = [pc |-> "tryBusy", market |-> market, leg |-> leg]]
  /\ UNCHANGED <<bookVars, busy, gateVars, working, expired, job, venueVars>>

CanTick(t, market) == feed[t].pc = "idle" /\ market \notin expired /\ ~stopped

\* A test for leftovers that only notices yes contracts.
OneSidedInYes(market) == surplus(pos[market]) > 0

OneSided(market) == ~Balanced(pos[market])

\* A one-sided position is flattened, never added to.
FlattenTick(t, market) ==
  /\ CanTick(t, market)
  /\ OneSided(market)
  /\ Attempt(t, market, NoIdea)
  /\ IF BoundFlattens THEN ticks < MaxTicks /\ ticks' = ticks + 1 ELSE UNCHANGED ticks

PairTick(t, market, view) ==
  LET idea == strategize(view)
      verdict == approve_pair(idea[YesSided], idea[NoSided], market,
                              getPortfolio, Limits, killed)
  IN  /\ CanTick(t, market)
      /\ ~OneSided(market)
      /\ ticks < MaxTicks
      /\ idea # NoIdea
      /\ verdict.reason = "Ok"
      /\ ticks' = ticks + 1
      /\ Attempt(t, market, [s \in Sides |-> [idea[s] EXCEPT !.size = verdict.size]])

\* No pair, a rejection, an expired market or a halt: on_tick returns.
QuietTick(t) == feed[t].pc = "idle" /\ UNCHANGED vars

Spawn(w, j) ==
  /\ job[w].pc = "idle"
  /\ job' = [job EXCEPT ![w] = j]
  /\ working' = working + 1

FeedReturns(t) == feed' = [feed EXCEPT ![t] = IdleFeed]

\* A busy flag nobody looks at.
TakesBusyAlways(t) == TRUE

\* tryBusy: the flag of the market was off.
TakesBusy(t) == feed[t].market \notin busy

TryBusyInFlight(t) ==
  /\ feed[t].pc = "tryBusy"
  /\ ~TakesBusy(t)
  /\ FeedReturns(t)
  /\ UNCHANGED <<bookVars, busy, gateVars, working, expired, job, ticks, venueVars>>

TryBusyFlatten(t, w) ==
  /\ feed[t].pc = "tryBusy"
  /\ feed[t].leg = NoIdea
  /\ TakesBusy(t)
  /\ busy' = busy \cup {feed[t].market}
  /\ Spawn(w, FlattenJob(feed[t].market))
  /\ FeedReturns(t)
  /\ UNCHANGED <<bookVars, gateVars, expired, ticks, venueVars>>

TryBusyPair(t) ==
  /\ feed[t].pc = "tryBusy"
  /\ feed[t].leg # NoIdea
  /\ TakesBusy(t)
  /\ busy' = busy \cup {feed[t].market}
  /\ feed' = [feed EXCEPT ![t].pc = "reserve"]
  /\ UNCHANGED <<bookVars, gateVars, working, expired, job, ticks, venueVars>>

ReserveFails(t) ==
  /\ feed[t].pc = "reserve"
  /\ ~canReservePair(feed[t].leg[YesSided], feed[t].leg[NoSided])
  /\ busy' = busy \ {feed[t].market}
  /\ FeedReturns(t)
  /\ UNCHANGED <<bookVars, gateVars, working, expired, job, ticks, venueVars>>

Reserve(t, w) ==
  /\ feed[t].pc = "reserve"
  /\ canReservePair(feed[t].leg[YesSided], feed[t].leg[NoSided])
  /\ reserve_pair(feed[t].leg[YesSided], feed[t].leg[NoSided])
  /\ Spawn(w, PairJob(feed[t].market, feed[t].leg))
  /\ FeedReturns(t)
  /\ UNCHANGED <<cash, exposure, pos, busy, gateVars, expired, ticks, venueVars>>

-----------------------------------------------------------------------------
(* The venues (external). *)

\* What a fill does to the money and the contracts a venue holds.
fundsDelta(f) ==
  IF f.buy THEN -(f.size * f.price + fillFee(f)) ELSE sellProceeds(f, f.size)
ownedDelta(f) == IF f.buy THEN f.size ELSE -f.size

FillPrices(leg) ==
  IF leg.buy THEN {p \in Prices : leg.price - p \in Improvements} ELSE SellPrices

\* A venue answers only the holder of its keys, fills a buy from the cash and
\* a sale from the contracts it holds; on Kalshi a sale is a purchase of the
\* other outcome.
VenueFills(market, leg) ==
  {f \in {[venue |-> leg.venue, side |-> leg.side, size |-> leg.size,
           price |-> p, buy |-> leg.buy] : p \in FillPrices(leg)} :
     /\ f.venue \in Configured
     /\ funds[f.venue] + fundsDelta(f) >= 0
     /\ f.buy \/ f.venue = Kalshi \/ owned[market][f.side][f.venue] >= f.size}

VenueExecutes(market, f) ==
  /\ funds' = [funds EXCEPT ![f.venue] = @ + fundsDelta(f)]
  /\ owned' = [owned EXCEPT ![market][f.side][f.venue] = @ + ownedDelta(f)]

\* The price a reply carries; 0 when it is left out.
ReportedPrices(f) == {f.price} \cup (IF PriceOmitted THEN {0} ELSE {})

-----------------------------------------------------------------------------
(* sendSide and sendVenueOrder *)

Goto(w, j) == job' = [job EXCEPT ![w] = j]

\* A ceiling that does not see what the other leg was filled at.
CeilingAtQuote(j) ==
  LET this  == j.leg[Turn(j)]
      other == j.copy[OtherSide(Turn(j))]
  IN  chaseCeiling(other.price, other.venue, this.venue, Limits.chase_reserve)

\* The ceiling for the leg in turn, given the price of the other leg now.
Ceiling(j) ==
  LET this  == j.leg[Turn(j)]
      other == j.leg[OtherSide(Turn(j))]
  IN  chaseCeiling(other.price, other.venue, this.venue, Limits.chase_reserve)

\* No look at the ceiling before the first order.
MaySendAnyPrice(j) == j.stage = "flatten" \/ j.tries < ChaseTries

\* sendSide gives up before sending: over the ceiling, or out of tries.
MaySend(j) ==
  \/ j.stage = "flatten"
  \/ j.tries < ChaseTries /\ Order(j).price <= Ceiling(j)

\* A missed flatten taken for a filled one.
AfterMissSold(j) ==
  IF j.stage = "flatten" THEN [j EXCEPT !.pc = "get", !.sold = TRUE]
  ELSE [j EXCEPT !.pc = "release"]

\* A pair given up without giving its cash back.
AfterMissUnreleased(j) == [j EXCEPT !.pc = "get"]

\* What follows a leg that is not filled, and one that is.
AfterMiss(j) ==
  IF j.stage = "flatten" THEN [j EXCEPT !.pc = "get"] ELSE [j EXCEPT !.pc = "release"]

AfterFill(j) ==
  LET next == [j EXCEPT !.fill = NoFill]
  IN  CASE j.stage = "first"   -> [next EXCEPT !.pc = "send", !.stage = "second", !.tries = 0]
        [] j.stage = "second"  -> [next EXCEPT !.pc = "release", !.stage = "done"]
        [] j.stage = "flatten" -> [next EXCEPT !.pc = "get", !.sold = TRUE]

\* A reply without a fill: bump the leg by a cent and try again, or give up.
AfterNoFill(j) ==
  LET missed == [j EXCEPT !.pc = "send", !.fill = NoFill]
  IN  IF j.stage = "flatten" \/ ~canBumpChase(Order(j).price, Ceiling(j))
      THEN AfterMiss(missed)
      ELSE [missed EXCEPT !.leg[Turn(j)].price = nextChasePrice(@), !.tries = @ + 1]

SendGivesUp(w) ==
  /\ job[w].pc = "send"
  /\ ~MaySend(job[w])
  /\ Goto(w, AfterMiss(job[w]))
  /\ UNCHANGED <<bookVars, busy, gateVars, working, expired, feed, ticks, venueVars>>

SendMissed(w) ==
  /\ job[w].pc = "send"
  /\ MaySend(job[w])
  /\ Goto(w, AfterNoFill(job[w]))
  /\ UNCHANGED <<bookVars, busy, gateVars, working, expired, feed, ticks, venueVars>>

\* The price sendVenueOrder books when the reply carries none.
FallbackPrice(leg) ==
  IF ~leg.buy /\ leg.venue = Kalshi /\ leg.side = NoSided
  THEN complementCents(leg.price) ELSE leg.price

takeReportedFill(f, reported, leg) ==
  [f EXCEPT !.price = IF reported > 0 THEN reported ELSE FallbackPrice(leg)]

\* The venue executes the order; the reply is on its way back.
SendFilled(w) ==
  LET j == job[w]
  IN  /\ j.pc = "send"
      /\ MaySend(j)
      /\ \E f \in VenueFills(j.market, Order(j)) :
           /\ VenueExecutes(j.market, f)
           /\ \E reported \in ReportedPrices(f) :
                Goto(w, [j EXCEPT !.pc = "apply",
                                  !.fill = takeReportedFill(f, reported, Order(j))])
      /\ UNCHANGED <<bookVars, busy, gateVars, working, expired, feed, ticks>>

\* The venue executes the order but the reply never arrives (a timeout, a
\* bad status, a body without a fill count): the code sees a miss.
SendLost(w) ==
  LET j == job[w]
  IN  /\ LostReplies
      /\ j.pc = "send"
      /\ MaySend(j)
      /\ \E f \in VenueFills(j.market, Order(j)) : VenueExecutes(j.market, f)
      /\ Goto(w, AfterNoFill(j))
      /\ UNCHANGED <<bookVars, busy, gateVars, working, expired, feed, ticks>>

\* applyFill: the book first.  The leg takes the price it was filled at.
ApplyFill(w) ==
  LET j == job[w]
      priced == IF j.stage = "flatten" THEN j
                ELSE [j EXCEPT !.leg[Turn(j)].price = j.fill.price]
  IN  /\ j.pc = "apply"
      /\ updatePortfolio(j.market, j.fill)
      /\ Goto(w, IF ~fillApplies(j.market, j.fill) THEN AfterNoFill(priced)
                 ELSE IF killed THEN AfterFill(priced)
                 ELSE [priced EXCEPT !.pc = "note"])
      /\ UNCHANGED <<busy, gateVars, working, expired, feed, ticks, venueVars>>

\* The gate trips but nobody is told.
AfterNoteSilent(j, trips) == AfterFill(j)

\* applyFill halts the monitor when riskNoteFill says the gate newly tripped.
AfterNote(j, trips) == IF trips THEN [j EXCEPT !.pc = "halt"] ELSE AfterFill(j)

\* riskNoteFill: the fee counts towards the drawdown, and the fill that
\* reaches it is the one that must halt the monitor.
NoteFill(w) ==
  LET j == job[w]
      total == loss + fillFee(j.fill)
      trips == total >= Limits.max_drawdown /\ ~killed
  IN  /\ j.pc = "note"
      /\ loss' = total
      /\ killed' = (killed \/ trips)
      /\ Goto(w, AfterNote(j, trips))
      /\ UNCHANGED <<bookVars, busy, stopped, working, expired, feed, ticks, venueVars>>

\* The gate tripped after this fill was booked: its fee is not counted.
NoteFillTooLate(w) ==
  /\ job[w].pc = "note"
  /\ killed
  /\ Goto(w, AfterFill(job[w]))
  /\ UNCHANGED <<bookVars, busy, gateVars, working, expired, feed, ticks, venueVars>>

KillSwitch(w) ==
  /\ job[w].pc = "halt"
  /\ stopped' = TRUE
  /\ Goto(w, AfterFill(job[w]))
  /\ UNCHANGED <<bookVars, busy, killed, loss, working, expired, feed, ticks, venueVars>>

-----------------------------------------------------------------------------
(* The end of a job *)

\* The legs at their chased prices.
ReleasedLegsNow(j) == j.leg

\* reserved_yes and reserved_no: the legs as they were reserved.
ReleasedLegs(j) == j.copy

\* release_pair, at the prices of the copies.  A pair whose first leg was
\* never filled is done; otherwise the leftover, if any, is sold.
Release(w) ==
  LET j == job[w]
  IN  /\ j.pc = "release"
      /\ release_pair(ReleasedLegs(j)[YesSided], ReleasedLegs(j)[NoSided])
      /\ Goto(w, IF j.stage = "first"
                 THEN [j EXCEPT !.pc = "get", !.holding = FALSE]
                 ELSE [j EXCEPT !.pc = "flatten", !.stage = "flatten", !.holding = FALSE])
      /\ UNCHANGED <<cash, exposure, pos, busy, gateVars, working, expired, feed, ticks, venueVars>>

\* flattenSurplus: read the position, then sell the excess of one side.  With
\* nothing to sell, or no venue to sell it on, it returns true at once.
Flatten(w) ==
  LET j == job[w]
      sell == surplusSellIntent(pos[j.market])
  IN  /\ j.pc = "flatten"
      /\ Goto(w, IF Balanced(pos[j.market]) \/ sell.venue = NoVenue
                 THEN [j EXCEPT !.pc = "get", !.sold = TRUE]
                 ELSE [j EXCEPT !.pc = "send", !.sell = sell])
      /\ UNCHANGED <<bookVars, busy, gateVars, working, expired, feed, ticks, venueVars>>

\* A refresh that does not stop at the last venue.
NextVenueEndless(j) == [j EXCEPT !.pc = "get", !.at = @ + 1, !.balance = 0]

\* refreshVenueCash: for each venue in order, a balance request and, if it
\* is answered, an assignment.
NextVenue(j) ==
  IF j.at = Gemini THEN [j EXCEPT !.pc = "clear", !.balance = 0]
  ELSE [j EXCEPT !.pc = "get", !.at = @ + 1, !.balance = 0]

\* A failed balance request is repeated until it succeeds.
AskAgain(j) == j

\* A failed balance request ends the refresh.
StopAsking(j) == [j EXCEPT !.pc = "clear"]

AfterRefusal(j) == NextVenue(j)

GetBalance(w) ==
  /\ job[w].pc = "get"
  /\ job[w].at \in Configured
  /\ Goto(w, [job[w] EXCEPT !.pc = "set", !.balance = funds[job[w].at]])
  /\ UNCHANGED <<bookVars, busy, gateVars, working, expired, feed, ticks, venueVars>>

GetBalanceFails(w) ==
  /\ job[w].pc = "get"
  /\ RefreshFails \/ job[w].at \notin Configured
  /\ Goto(w, AfterRefusal(job[w]))
  /\ UNCHANGED <<bookVars, busy, gateVars, working, expired, feed, ticks, venueVars>>

SetBalance(w) ==
  /\ job[w].pc = "set"
  /\ setCash(job[w].at, job[w].balance)
  /\ Goto(w, NextVenue(job[w]))
  /\ UNCHANGED <<exposure, reserved, pos, busy, gateVars, working, expired, feed, ticks, venueVars>>

ClearBusy(w) ==
  /\ job[w].pc = "clear"
  /\ busy' = busy \ {job[w].market}
  /\ Goto(w, [IdleJob EXCEPT !.pc = "end"])
  /\ UNCHANGED <<bookVars, gateVars, working, expired, feed, ticks, venueVars>>

WorkingEnd(w) ==
  /\ job[w].pc = "end"
  /\ working' = IF working > 0 THEN working - 1 ELSE working
  /\ Goto(w, IdleJob)
  /\ UNCHANGED <<bookVars, busy, gateVars, expired, feed, ticks, venueVars>>

-----------------------------------------------------------------------------
(* The operator and the clock *)

Stop ==
  /\ Stoppable
  /\ stopped' = TRUE
  /\ UNCHANGED <<bookVars, busy, killed, loss, working, expired, feed, job, ticks, venueVars>>

Expire(market) ==
  /\ market \in Expiring
  /\ expired' = expired \cup {market}
  /\ UNCHANGED <<bookVars, busy, gateVars, working, feed, job, ticks, venueVars>>

Tick(t) ==
  \/ \E m \in Markets : FlattenTick(t, m)
  \/ \E m \in Markets : \E view \in MarketViews[m] : PairTick(t, m, view)

\* What a feed does once it has decided; it holds no lock while it decides.
Dispatch(t) ==
  \/ TryBusyInFlight(t) \/ TryBusyPair(t) \/ ReserveFails(t)
  \/ \E w \in Workers : TryBusyFlatten(t, w) \/ Reserve(t, w)

JobStep(w) ==
  \/ SendGivesUp(w) \/ SendMissed(w) \/ SendFilled(w) \/ SendLost(w)
  \/ ApplyFill(w) \/ NoteFill(w) \/ NoteFillTooLate(w) \/ KillSwitch(w)
  \/ Release(w) \/ Flatten(w)
  \/ GetBalance(w) \/ GetBalanceFails(w) \/ SetBalance(w)
  \/ ClearBusy(w) \/ WorkingEnd(w)

Next ==
  \/ \E t \in Feeds : Tick(t) \/ QuietTick(t) \/ Dispatch(t)
  \/ \E w \in Workers : JobStep(w)
  \/ Stop
  \/ \E m \in Markets : Expire(m)

Spec == Init /\ [][Next]_vars

\* A leftover is sold when the venue executes the order and the reply arrives.
SellsLeftover(w) == job[w].stage = "flatten" /\ SendFilled(w)

-----------------------------------------------------------------------------
(* Safety *)

TypeOK ==
  /\ PortfolioTypeOK
  /\ busy \subseteq Markets
  /\ killed \in BOOLEAN /\ loss \in Int /\ stopped \in BOOLEAN
  /\ working \in Nat
  /\ expired \subseteq Markets
  /\ feed \in [Feeds -> FeedState]
  /\ job \in [Workers -> JobState]
  /\ ticks \in Nat
  /\ funds \in [Venues -> Int]
  /\ owned \in [Markets -> [Sides -> [Venues -> Int]]]

(* "One busy flag per market.  The same market cannot start a second job
   while the first is still going" (live_busy.hpp): two workers between their
   start and clearBusy are never on the same market. *)
OneJobPerMarket ==
  \A w1, w2 \in Workers :
    Active(w1) /\ Active(w2) /\ job[w1].market = job[w2].market => w1 = w2

\* Each cent a worker holds at a venue, tagged with the worker.
heldBy(w, v) ==
  IF ~job[w].holding THEN 0
  ELSE LET cost(s) == IF job[w].copy[s].venue = v
                      THEN legCost(job[w].copy[s], job[w].copy[s].size) ELSE 0
       IN  cost(YesSided) + cost(NoSided)
HeldCents(v) == UNION {{w} \X (1..heldBy(w, v)) : w \in Workers}

(* The cash set aside at a venue is exactly what the running jobs reserved
   there: nothing leaks when legs are chased, missed or half filled, and no
   cent is given back twice (reserve_pair before the job, release_pair on
   both ways out of liveSendPair). *)
ReservedIsHeld ==
  \A v \in Venues : reserved[v] = Cardinality(HeldCents(v))

\* Fills a venue has executed for us and the book has not heard of yet: how
\* each changes what is owned.
Arriving(market, side) ==
  [w \in {v \in Workers : /\ job[v].pc = "apply" /\ job[v].market = market
                          /\ job[v].fill.side = side}
     |-> ownedDelta(job[w].fill)]
onTheWay(market, side) == SumFunction(Arriving(market, side))

(* As long as replies arrive, the book holds exactly the contracts the venues
   hold for us, up to the fill that is being booked. *)
PositionMatchesVenue ==
  \A m \in Markets : \A s \in Sides :
    pos[m].count[s] + onTheWay(m, s) = OverVenues(owned[m][s])

(* The order that sells a leftover is for the leftover there is: the position
   read by flattenSurplus does not move before the order is sent. *)
FlattenSellsSurplus ==
  \A w \in Workers :
    job[w].pc = "send" /\ job[w].stage = "flatten" =>
      job[w].sell = surplusSellIntent(pos[job[w].market])

(* When flattenSurplus returns true its market is balanced, and stays so
   until the job clears the busy flag. *)
FlattenBalances ==
  \A w \in Workers : job[w].sold => Balanced(pos[job[w].market])

BothFilled(j) ==
  j.stage = "done" \/ (j.stage = "second" /\ j.pc \in {"note", "halt"})

(* A pair of which both legs were filled kept its edge, chased or not: at
   one-contract fees the two fill prices leave at least chase_reserve. *)
PairKeepsEdge ==
  \A w \in Workers :
    Active(w) /\ BothFilled(job[w]) =>
      pairCost(job[w].leg[YesSided], job[w].leg[NoSided], 1)
        <= kDollarCents - Limits.chase_reserve

(* The fill that reaches max_drawdown halts the monitor too: the gate is never
   left tripped with nobody on the way to raise the halt. *)
KillSwitchHalts ==
  killed => loss >= Limits.max_drawdown
            /\ (stopped \/ \E w \in Workers : job[w].pc = "halt")

-----------------------------------------------------------------------------
(* The promise of the busy flags *)

\* Who works on a market: the feed that has taken its flag, then the worker.
lockHolders ==
  [m \in Markets |->
     {t \in Feeds : feed[t].pc = "reserve" /\ feed[t].market = m} \cup ActiveOn(m)]

Lock == INSTANCE MarketLock WITH Threads <- Feeds \cup Workers, holders <- lockHolders

(* Feeds and workers implement MarketLock: a market is passed from the feed
   that reserves to the worker it starts with no moment at which a second
   thread has it too (live_busy.hpp:5, main.cpp:340, 389). *)
LocksRefined == Lock!Spec

-----------------------------------------------------------------------------
(* Liveness *)

(* Every job ends: a market whose busy flag is on becomes free again, whatever
   was missed, lost or refused on the way (both exits of liveSendPair, the exit
   of liveFlatten and the failed reservation clear the flag). *)
JobsFinish == \A m \in Markets : m \in busy ~> m \notin busy
=============================================================================
