------------------------------ MODULE Restart -------------------------------
(***************************************************************************)
(* The live engine with the process around it: it may die between any two  *)
(* steps, and the one started in its place (with --trade) knows only what  *)
(* the venues tell it.  main asks each venue for its positions and adds    *)
(* them to an empty book, asks each for its cash, and starts the feeds.    *)
(* Nothing is persisted: an order whose reply had not been read is found   *)
(* again among the positions, or not at all when a venue does not answer.  *)
(***************************************************************************)
EXTENDS LiveTrading

CONSTANTS
  LotPrices,   \* average prices the venues report for what they hold
  LotsFail,    \* may a request for positions fail?
  MaxCrashes   \* bound: crashes

ASSUME RestartAssumption ==
  /\ LotPrices \subseteq Nat /\ LotsFail \in BOOLEAN /\ MaxCrashes \in Nat
  /\ IsFiniteSet(Markets)

VARIABLES
  boot,      \* how far main has come, and the venue it asks next
  unseen,    \* per market, the surplus of yes the venues hold and the book was never told of
  crashes    \* crashes so far

bootVars == <<boot, unseen, crashes>>
processVars == <<vars, bootVars>>

Start == [pc |-> "lots", at |-> Kalshi]
Up == boot.pc = "up"

Nothing == [v \in Venues |-> 0]

\* The yes contracts a venue holds in excess of no, and all of them together.
netAt(market, v) == owned[market][YesSided][v] - owned[market][NoSided][v]
venueSurplus(market) == OverVenues([v \in Venues |-> netAt(market, v)])

ProcessInit ==
  /\ cash = Nothing /\ exposure = Nothing /\ reserved = Nothing
  /\ pos = [m \in Markets |-> EmptyPosition]
  /\ busy = {} /\ working = 0
  /\ killed = FALSE /\ loss = 0 /\ stopped = FALSE
  /\ expired = {}
  /\ feed = [t \in Feeds |-> IdleFeed]
  /\ job = [w \in Workers |-> IdleJob]
  /\ ticks = 0
  /\ funds = InitialCash
  /\ owned = [m \in Markets |-> [s \in Sides |-> Nothing]]
  /\ boot = Start
  /\ unseen = [m \in Markets |-> 0]
  /\ crashes = 0

\* What the program knew is gone; what the venues hold is not.
Crash ==
  /\ crashes < MaxCrashes
  /\ crashes' = crashes + 1
  /\ cash' = Nothing /\ exposure' = Nothing /\ reserved' = Nothing
  /\ pos' = [m \in Markets |-> EmptyPosition]
  /\ busy' = {} /\ working' = 0
  /\ killed' = FALSE /\ loss' = 0 /\ stopped' = FALSE
  /\ feed' = [t \in Feeds |-> IdleFeed]
  /\ job' = [w \in Workers |-> IdleJob]
  /\ boot' = Start
  /\ unseen' = [m \in Markets |-> venueSurplus(m)]
  /\ UNCHANGED <<expired, ticks, venueVars>>

-----------------------------------------------------------------------------
(* The positions *)

\* What a venue reports for a market: Kalshi one signed number, the others a
\* row for each side.
lots(market, v) ==
  LET held == [s \in Sides |-> owned[market][s][v]]
      net  == netAt(market, v)
  IN  IF v # Kalshi THEN held
      ELSE [s \in Sides |-> IF s = YesSided THEN IF net > 0 THEN net ELSE 0
                            ELSE IF net < 0 THEN -net ELSE 0]

\* Only the lot of the last venue is kept.
addVenueLotReplaces(position, v, lot, avg) ==
  LET add(p, s) == IF lot[s] > 0 THEN blendLotOverwrites(p, s, v, lot[s], avg) ELSE p
  IN  add(add(position, YesSided), NoSided)

addVenueLot(position, v, lot, avg) ==
  LET add(p, s) == IF lot[s] > 0 THEN blendLot(p, s, v, lot[s], avg) ELSE p
  IN  add(add(position, YesSided), NoSided)

lotCost(lot, avg) == (lot[YesSided] + lot[NoSided]) * avg

NextStage(pc, next) ==
  boot' = IF boot.at = Gemini THEN [pc |-> next, at |-> Kalshi] ELSE [pc |-> pc, at |-> boot.at + 1]

LoadLots ==
  LET v == boot.at
  IN  /\ boot.pc = "lots"
      /\ v \in Configured
      /\ \E avg \in LotPrices :
           /\ pos' = [m \in Markets |-> addVenueLot(pos[m], v, lots(m, v), avg)]
           /\ exposure' = [exposure EXCEPT ![v] =
                @ + SumFunction([m \in Markets |-> lotCost(lots(m, v), avg)])]
      /\ unseen' = [m \in Markets |-> unseen[m] - netAt(m, v)]
      /\ NextStage("lots", "cash")
      /\ UNCHANGED <<cash, reserved, busy, gateVars, working, expired, feed, job, ticks,
                     venueVars, crashes>>

\* "positions unavailable": main goes on without them.
LotsUnavailable ==
  /\ boot.pc = "lots"
  /\ LotsFail \/ boot.at \notin Configured
  /\ NextStage("lots", "cash")
  /\ UNCHANGED <<vars, unseen, crashes>>

-----------------------------------------------------------------------------
(* The first refreshVenueCash *)

FirstCash ==
  /\ boot.pc = "cash"
  /\ boot.at \in Configured
  /\ setCash(boot.at, funds[boot.at])
  /\ NextStage("cash", "up")
  /\ UNCHANGED <<exposure, reserved, pos, busy, gateVars, working, expired, feed, job, ticks,
                 venueVars, unseen, crashes>>

CashUnavailable ==
  /\ boot.pc = "cash"
  /\ RefreshFails \/ boot.at \notin Configured
  /\ NextStage("cash", "up")
  /\ UNCHANGED <<vars, unseen, crashes>>

Boot == LoadLots \/ LotsUnavailable \/ FirstCash \/ CashUnavailable

-----------------------------------------------------------------------------
\* Trading starts when main has come to the end; the page is served before.
Trades(step) == Up /\ step /\ UNCHANGED bootVars

ProcessNext ==
  \/ Crash \/ Boot
  \/ Trades(Next)
  \/ Stop /\ UNCHANGED bootVars

ProcessSpec == ProcessInit /\ [][ProcessNext]_processVars

(* Fairness.  Threads are scheduled, HTTP requests return (the clients set a
   15 second timeout) and no step holds a lock across another, so main, a
   started worker and a feed that has decided all go on.  Quotes keep arriving
   for a market that is traded, so some feed ticks again while a leftover is
   open.  A venue that is offered contracts at one cent again and again takes
   them in the end. *)
FairProcess ==
  /\ ProcessSpec
  /\ WF_processVars(Boot)
  /\ \A w \in Workers : WF_processVars(Trades(JobStep(w))) /\ SF_processVars(Trades(SellsLeftover(w)))
  /\ \A t \in Feeds : WF_processVars(Trades(Dispatch(t)))
  /\ \A m \in Markets : WF_processVars(Trades(\E t \in Feeds : FlattenTick(t, m)))

-----------------------------------------------------------------------------
(* Properties *)

(* Whatever a crash interrupts, the book of the next process and the venues
   agree again on which side is in excess and by how much, up to the fill that
   is being booked and what a venue never reported: nothing is counted twice
   and no order in flight at the crash is lost (main.cpp:198-256, 551). *)
SurplusMatchesVenue ==
  \A m \in Markets :
    surplus(pos[m]) + onTheWay(m, YesSided) - onTheWay(m, NoSided) + unseen[m]
      = venueSurplus(m)

(* Cash is the venues': while jobs do not overlap, the cash of the book is what
   the venues hold whenever no job runs, first of all when trading starts
   (main.cpp:191, 554; README.md:52). *)
IdleCashIsVenueCash ==
  Up /\ (\A w \in Workers : ~Active(w)) => \A v \in Configured : cash[v] = funds[v]

(* After a halt the process drains: the jobs in flight end and none starts
   before the next process. *)
StopDrains ==
  \A n \in 0..MaxCrashes : (stopped /\ crashes = n) ~> [](crashes = n => working = 0)

\* The venues hold more of one side than of the other, and the book knows.
Leftover(market) == venueSurplus(market) # unseen[market]

\* The venue the leftover would be sold on has enough of it; Kalshi buys the
\* other outcome instead.
Sellable(market) ==
  LET sell == surplusSellIntent(pos[market])
  IN  /\ sell.venue # NoVenue
      /\ sell.venue = Kalshi \/ owned[market][sell.side][sell.venue] >= sell.size

(* A leftover is sold, even if the process that made it dies in the middle: the
   next one finds it among the positions and on_tick keeps starting liveFlatten
   until the venues hold as many yes as no, unless trading is halted, the
   market expires or the venue remembered for the side does not hold it all
   (positions loaded from two venues keep the name of the last). *)
LeftoverIsSold ==
  \A m \in Markets :
    Leftover(m) ~> (~Leftover(m) \/ stopped \/ m \in expired \/ (Up /\ ~Sellable(m)))
=============================================================================
