---------------------------- MODULE PaperTrading ----------------------------
(***************************************************************************)
(* Trading without orders: on_tick in paper mode, and the replay of a tape *)
(* (main.cpp).  Sizing is that of the live path, but a pair is filled on   *)
(* the spot by Execute, at its limit prices, and a leftover at one cent.   *)
(* No cash is set aside and no busy flag is taken: in paper mode the feeds *)
(* book the two legs of their pairs one after the other, in whatever order *)
(* their threads run.                                                      *)
(*                                                                         *)
(* Before either, main adds what the venues report to hold to the book and *)
(* takes the cash they report.  A replay ticks on one thread.  Every tape  *)
(* starts from a hundred dollars on each venue, and from the positions and *)
(* the exposure that the venues reported and the tapes before it left.     *)
(* (--replay asks no venue, plays one tape and ends: here that is a report *)
(* of nothing, and a stop after the first tape.)                           *)
(***************************************************************************)
EXTENDS PortfolioManager

CONSTANTS
  Feeds,          \* feed threads; a replay uses one at a time
  MarketViews,    \* the views a tick may read, per market
  Limits,         \* the RiskLimits loaded at startup
  PaperCash,      \* the cash each venue reports at startup, 0 when it does not answer
  Reports,        \* the sets of lots that the venues, those that answer, may report at startup
  NoMarket,       \* market id 0: no market
  Expiring,       \* the markets whose expiration date may pass
  MaxTicks,       \* bound: pairs approved
  MaxReplays      \* bound: tapes replayed

ASSUME LimitsAssumption == Limits \in RiskLimits
ASSUME MarketViewsAssumption == MarketViews \in [Markets -> SUBSET View]
ASSUME PaperCashAssumption == PaperCash \in [Venues -> Nat]
\* What a venue holds in a market: it reports contracts of one side.
Lot == [market : Markets, venue : Venues, side : Sides, count : Nat \ {0}, avg : Nat]
ASSUME ReportsAssumption == Reports \subseteq SUBSET Lot
ASSUME NoMarketAssumption == NoMarket \notin Markets
ASSUME BoundsAssumption == MaxTicks \in Nat /\ MaxReplays \in Nat

VARIABLES
  unloaded,  \* the reported lots that main has not added to the book yet
  up,        \* main has taken the venues' cash: it waits for a tape, or trades
  replay,    \* what is asked of it: tapes, or a paper session
  replays,   \* replays started so far
  killed,    \* RiskState.halted
  loss,      \* RiskState.realized_loss
  stopped,   \* the monitor's halt flag
  expired,   \* the markets past their expiration date
  feed,      \* what each thread is doing
  ticks      \* pairs approved so far

gateVars == <<killed, loss, stopped>>
bootVars == <<unloaded, up>>
vars == <<bookVars, bootVars, replay, replays, gateVars, expired, feed, ticks>>

\* found: all the cash in the copy of the book that a tick which buys has read.
IdleFeed == [pc |-> "idle", market |-> NoMarket, found |-> 0, todo |-> <<>>]

\* runReplay: ten thousand cents on each venue.
kReplayCash == 10000

Init ==
  /\ unloaded \in Reports
  /\ up = FALSE
  /\ replay \in BOOLEAN
  /\ replays = 0
  /\ cash = [v \in Venues |-> 0]
  /\ exposure = [v \in Venues |-> 0]
  /\ reserved = [v \in Venues |-> 0]
  /\ pos = [m \in Markets |-> EmptyPosition]
  /\ killed = FALSE /\ loss = 0 /\ stopped = FALSE
  /\ expired = {}
  /\ feed = [t \in Feeds |-> IdleFeed]
  /\ ticks = 0

Goto(t, f) == feed' = [feed EXCEPT ![t] = f]

-----------------------------------------------------------------------------
(* main, before the feeds or a tape *)

addVenueLot(lot) ==
  /\ pos' = [pos EXCEPT ![lot.market] = blendLot(@, lot.side, lot.venue, lot.count, lot.avg)]
  /\ exposure' = [exposure EXCEPT ![lot.venue] = @ + lot.count * lot.avg]
  /\ UNCHANGED <<cash, reserved>>

\* applyKalshiLots, applyPolymarketLots, applyGeminiLots: one venue after the other.
LoadLot(lot) ==
  /\ lot \in unloaded
  /\ \A other \in unloaded : lot.venue <= other.venue
  /\ addVenueLot(lot)
  /\ unloaded' = unloaded \ {lot}
  /\ UNCHANGED <<up, replay, replays, gateVars, expired, feed, ticks>>

refreshVenueCash ==
  /\ ~up /\ unloaded = {}
  /\ up' = TRUE
  /\ cash' = PaperCash
  /\ UNCHANGED <<exposure, reserved, pos, unloaded, replay, replays, gateVars, expired, feed, ticks>>

Load == (\E lot \in unloaded : LoadLot(lot)) \/ refreshVenueCash

-----------------------------------------------------------------------------
(* on_tick *)

\* A replay has one thread, which ticks once it has started.
CanTick(t, market) ==
  /\ up
  /\ feed[t].pc = "idle"
  /\ replay => replays > 0 /\ \A u \in Feeds : feed[u].pc = "idle"
  /\ market \notin expired
  /\ ~stopped

\* Execute: whatever is asked for is filled, at the limit.
Executioner(leg) == leg

PairTick(t, market, view) ==
  LET idea == strategize(view)
      verdict == approve_pair(idea[YesSided], idea[NoSided], market,
                              getPortfolio, Limits, killed)
      fill(s) == Executioner([idea[s] EXCEPT !.size = verdict.size])
  IN  /\ CanTick(t, market)
      /\ Balanced(pos[market])
      /\ idea # NoIdea
      /\ verdict.reason = "Ok"
      /\ ticks < MaxTicks
      /\ ticks' = ticks + 1
      /\ Goto(t, [pc |-> "apply", market |-> market, found |-> OverVenues(cash),
                  todo |-> <<fill(YesSided), fill(NoSided)>>])
      /\ UNCHANGED <<bookVars, bootVars, replay, replays, gateVars, expired>>

\* A test for leftovers that only notices yes contracts.
OneSidedInYes(market) == surplus(pos[market]) > 0

OneSided(market) == ~Balanced(pos[market])

\* The copy of the book shows a leftover.
FlattenTick(t, market) ==
  /\ CanTick(t, market)
  /\ OneSided(market)
  /\ Goto(t, [pc |-> "sell", market |-> market, found |-> 0, todo |-> <<>>])
  /\ UNCHANGED <<bookVars, bootVars, replay, replays, gateVars, expired, ticks>>

\* surplusSellIntent reads the position again.
SellSurplus(t) ==
  LET market == feed[t].market
      sell   == surplusSellIntent(pos[market])
  IN  /\ feed[t].pc = "sell"
      /\ Goto(t, IF Balanced(pos[market]) \/ sell.venue = NoVenue THEN IdleFeed
                 ELSE [feed[t] EXCEPT !.pc = "apply", !.todo = <<Executioner(sell)>>])
      /\ UNCHANGED <<bookVars, bootVars, replay, replays, gateVars, expired, ticks>>

-----------------------------------------------------------------------------
(* applyFill *)

Filling(t) == Head(feed[t].todo)

\* The next fill, or the end of the tick.
AfterFill(f) ==
  IF Len(f.todo) = 1 THEN IdleFeed ELSE [f EXCEPT !.pc = "apply", !.todo = Tail(@)]

ApplyFill(t) ==
  /\ feed[t].pc = "apply"
  /\ updatePortfolio(feed[t].market, Filling(t))
  /\ Goto(t, IF fillApplies(feed[t].market, Filling(t)) /\ ~killed
             THEN [feed[t] EXCEPT !.pc = "note"] ELSE AfterFill(feed[t]))
  /\ UNCHANGED <<bootVars, replay, replays, gateVars, expired, ticks>>

AfterNote(f, trips) == IF trips THEN [f EXCEPT !.pc = "halt"] ELSE AfterFill(f)

\* riskNoteFill
NoteFill(t) ==
  LET total == loss + fillFee(Filling(t))
      trips == total >= Limits.max_drawdown /\ ~killed
  IN  /\ feed[t].pc = "note"
      /\ loss' = total
      /\ killed' = (killed \/ trips)
      /\ Goto(t, AfterNote(feed[t], trips))
      /\ UNCHANGED <<bookVars, bootVars, replay, replays, stopped, expired, ticks>>

NoteFillTooLate(t) ==
  /\ feed[t].pc = "note"
  /\ killed
  /\ Goto(t, AfterFill(feed[t]))
  /\ UNCHANGED <<bookVars, bootVars, replay, replays, gateVars, expired, ticks>>

KillSwitch(t) ==
  /\ feed[t].pc = "halt"
  /\ stopped' = TRUE
  /\ Goto(t, AfterFill(feed[t]))
  /\ UNCHANGED <<bookVars, bootVars, replay, replays, killed, loss, expired, ticks>>

-----------------------------------------------------------------------------
(* Around on_tick *)

\* A tape that is opened: cash starts anew, positions and exposure do not.  A
\* replay sets the clock to its own time, so nothing stays expired.
StartReplay ==
  /\ up /\ replay
  /\ \A t \in Feeds : feed[t].pc = "idle"
  /\ replays < MaxReplays
  /\ replays' = replays + 1
  /\ cash' = [v \in Venues |-> kReplayCash]
  /\ expired' = {}
  /\ UNCHANGED <<exposure, reserved, pos, bootVars, replay, gateVars, feed, ticks>>

Stop ==
  /\ stopped' = TRUE
  /\ UNCHANGED <<bookVars, bootVars, replay, replays, killed, loss, expired, feed, ticks>>

Expire(market) ==
  /\ market \in Expiring
  /\ expired' = expired \cup {market}
  /\ UNCHANGED <<bookVars, bootVars, replay, replays, gateVars, feed, ticks>>

FillStep(t) ==
  SellSurplus(t) \/ ApplyFill(t) \/ NoteFill(t) \/ NoteFillTooLate(t) \/ KillSwitch(t)

Next ==
  \/ \E t \in Feeds :
       \/ FillStep(t)
       \/ \E m \in Markets : FlattenTick(t, m)
       \/ \E m \in Markets : \E view \in MarketViews[m] : PairTick(t, m, view)
  \/ Load \/ StartReplay \/ Stop
  \/ \E m \in Markets : Expire(m)

Spec == Init /\ [][Next]_vars

(* Fairness.  main loads the book, threads are scheduled, and while a market is
   one-sided quotes for it keep arriving on some feed.  A tape may end, so
   nothing is assumed of a replay's ticks. *)
FairSpec ==
  /\ Spec
  /\ WF_vars(Load)
  /\ \A t \in Feeds : WF_vars(FillStep(t))
  /\ \A m \in Markets : WF_vars(~replay /\ \E t \in Feeds : FlattenTick(t, m))

-----------------------------------------------------------------------------
(* Properties *)

TypeOK ==
  /\ PortfolioTypeOK
  /\ unloaded \subseteq Lot
  /\ up \in BOOLEAN /\ replay \in BOOLEAN /\ killed \in BOOLEAN /\ stopped \in BOOLEAN
  /\ {replays, ticks} \subseteq Nat /\ loss \in Int
  /\ expired \subseteq Markets
  /\ \A t \in Feeds :
       /\ feed[t].pc \in {"idle", "sell", "apply", "note", "halt"}
       /\ feed[t].market \in Markets \cup {NoMarket}
       /\ feed[t].found \in Int
       /\ feed[t].todo \in Seq(Leg)

\* The step ends a tick that buys a pair, or one that sells a leftover.
TickEnds(t) == feed[t].pc # "idle" /\ feed'[t].pc = "idle"
Buys(t) == \E i \in DOMAIN feed[t].todo : feed[t].todo[i].buy

WithinCap(market) ==
  pos[market].count[YesSided] + pos[market].count[NoSided] <= Limits.max_contracts
KeepsReserve(v) ==
  cash[v] >= 0 /\ 100 * cash[v] >= (cash[v] + exposure[v]) * Limits.venue_reserve_pct
WithinAllocation(found) ==
  OverVenues(exposure) > 0 => 100 * OverVenues(exposure) <= found * Limits.max_allocation_pct

(* A replay may start from anything: a market held on one side, above the
   contract cap or on two venues, exposure beyond what a hundred dollars a venue
   allow, left by the venues' report or by another tape.  Whatever it starts
   from, every tick that trades leaves its market in whole pairs, and every tick
   that buys leaves it within every limit: the contract cap, the venues of its
   legs not overdrawn and with their reserve unspent, and no more at work, all
   lots included, than max_allocation_pct of the cash it found (risk.hpp:133-201,
   main.cpp:348, 408, 425). *)
ReplayKeepsLimits ==
  [][\A t \in Feeds, m \in Markets :
       replay /\ TickEnds(t) /\ feed[t].market = m =>
         /\ Balanced(pos'[m])
         /\ Buys(t) =>
              /\ WithinCap(m)'
              /\ \A v \in {pos'[m].venue[s] : s \in Sides} : KeepsReserve(v)'
              /\ \A found \in {feed[t].found} : WithinAllocation(found)']_vars

(* A tick between the two legs of another feed's pair sees a leftover and sells
   it, and the other leg is booked on top: positions go one-sided with no leg
   missed.  The venues may also have reported one.  However the ticks fall,
   markets settle: while quotes arrive no position stays one-sided, unless
   trading is halted or the market expires; a tape settles those it ticks
   (main.cpp:348, 408). *)
PaperSettles ==
  \A m \in Markets :
    ~Balanced(pos[m]) /\ (replay => \E t \in Feeds : feed[t].market = m)
      ~> (Balanced(pos[m]) \/ (~replay /\ (stopped \/ m \in expired)))
=============================================================================
