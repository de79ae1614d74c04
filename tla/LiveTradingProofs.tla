-------------------------- MODULE LiveTradingProofs --------------------------
(***************************************************************************)
(* Theorems about LiveTrading, for any number of feeds, workers, markets   *)
(* and ticks.                                                              *)
(***************************************************************************)
EXTENDS LiveTrading, PricingProofs

-----------------------------------------------------------------------------
(* The thread tables: each thread has a record with at least these fields. *)

JobFields == {"pc", "market", "stage", "leg", "copy", "holding", "sell", "sold",
              "tries", "fill", "at", "balance"}

Shape ==
  /\ DOMAIN feed = Feeds
  /\ DOMAIN job = Workers
  /\ \A t \in Feeds : {"pc", "market", "leg"} \subseteq DOMAIN feed[t]
  /\ \A w \in Workers : JobFields \subseteq DOMAIN job[w]

(* Where a job can be in each stage: a leg or the leftover is in turn whenever
   an order is sent or booked, and the leftover when the position is read. *)
PhaseOK(j) ==
  /\ j.stage \in {"first", "second", "done", "flatten"}
  /\ j.pc \in {"send", "apply", "note", "halt"} => j.stage # "done"
  /\ j.pc = "flatten" => j.stage = "flatten"

Phases == \A w \in Workers : PhaseOK(job[w])

\* k is a later state of the running job j.
StillRunning(j, k) ==
  /\ JobFields \subseteq DOMAIN k
  /\ k.market = j.market /\ k.copy = j.copy
  /\ k.pc \notin {"idle", "end"}
  /\ PhaseOK(k)

(* A market is owned from tryBusy on: by a feed that is about to reserve and
   then by the worker it starts.  Two owners never share a market, and the
   flag of an owned market is on. *)
OneOwner ==
  /\ \A t \in Feeds : feed[t].pc = "reserve" => feed[t].market \in busy
  /\ \A w \in Workers : Active(w) => job[w].market \in busy
  /\ \A t, u \in Feeds :
       feed[t].pc = "reserve" /\ feed[u].pc = "reserve" /\ feed[t].market = feed[u].market
         => t = u
  /\ \A t \in Feeds, w \in Workers :
       feed[t].pc = "reserve" /\ Active(w) => feed[t].market # job[w].market
  /\ OneJobPerMarket

-----------------------------------------------------------------------------
(* One step of a job *)

LEMMA AfterFillStillRunning ==
  ASSUME NEW j, JobFields \subseteq DOMAIN j, PhaseOK(j), j.stage # "done"
  PROVE  StillRunning(j, AfterFill(j))
  <1>1. j.stage \in {"first", "second", "flatten"}
    BY DEF PhaseOK
  <1>2. CASE j.stage = "first"
    BY <1>2 DEF AfterFill, StillRunning, PhaseOK, JobFields
  <1>3. CASE j.stage = "second"
    BY <1>3 DEF AfterFill, StillRunning, PhaseOK, JobFields
  <1>4. CASE j.stage = "flatten"
    BY <1>4 DEF AfterFill, StillRunning, PhaseOK, JobFields
  <1> QED
    BY <1>1, <1>2, <1>3, <1>4

LEMMA AfterNoFillStillRunning ==
  ASSUME NEW j, JobFields \subseteq DOMAIN j, PhaseOK(j), j.stage # "done"
  PROVE  StillRunning(j, AfterNoFill(j))
  BY DEF AfterNoFill, AfterMiss, StillRunning, PhaseOK, JobFields

\* Every step of a job up to clearBusy moves only that worker, and the job goes
\* on for its market.
LEMMA JobStepStillRunning ==
  ASSUME Shape, Phases, NEW w \in Workers, JobStep(w), ~ClearBusy(w), ~WorkingEnd(w)
  PROVE  /\ Active(w)
         /\ job' = [job EXCEPT ![w] = job'[w]]
         /\ StillRunning(job[w], job'[w])
         /\ UNCHANGED <<feed, busy>>
  <1>0. w \in DOMAIN job /\ JobFields \subseteq DOMAIN job[w] /\ PhaseOK(job[w])
    BY DEF Shape, Phases
  <1>a. ASSUME NEW k, Goto(w, k)
        PROVE  job'[w] = k /\ job' = [job EXCEPT ![w] = job'[w]]
    BY <1>0, <1>a DEF Goto
  <1>1. CASE SendGivesUp(w)
    BY <1>0, <1>1 DEF SendGivesUp, AfterMiss, StillRunning, PhaseOK, JobFields, Active, Goto
  <1>2. CASE SendMissed(w)
    <2>1. job[w].pc = "send" /\ Goto(w, AfterNoFill(job[w])) /\ UNCHANGED <<feed, busy>>
      BY <1>2 DEF SendMissed
    <2>2. job[w].stage # "done"
      BY <2>1, <1>0 DEF PhaseOK
    <2> QED
      BY <2>1, <2>2, <1>0, <1>a, AfterNoFillStillRunning DEF Active
  <1>3. CASE SendFilled(w)
    BY <1>0, <1>3 DEF SendFilled, StillRunning, PhaseOK, JobFields, Active, Goto
  <1>4. CASE SendLost(w)
    <2>1. job[w].pc = "send" /\ Goto(w, AfterNoFill(job[w])) /\ UNCHANGED <<feed, busy>>
      BY <1>4 DEF SendLost
    <2>2. job[w].stage # "done"
      BY <2>1, <1>0 DEF PhaseOK
    <2> QED
      BY <2>1, <2>2, <1>0, <1>a, AfterNoFillStillRunning DEF Active
  <1>5. CASE ApplyFill(w)
    <2> DEFINE priced == IF job[w].stage = "flatten" THEN job[w]
                         ELSE [job[w] EXCEPT !.leg[Turn(job[w])].price = job[w].fill.price]
    <2>1. /\ job[w].pc = "apply"
          /\ \/ Goto(w, AfterNoFill(priced))
             \/ Goto(w, AfterFill(priced))
             \/ Goto(w, [priced EXCEPT !.pc = "note"])
          /\ UNCHANGED <<feed, busy>>
      BY <1>5 DEF ApplyFill
    <2>2. job[w].stage # "done"
      BY <2>1, <1>0 DEF PhaseOK
    <2>3. /\ JobFields \subseteq DOMAIN priced /\ PhaseOK(priced)
          /\ priced.stage = job[w].stage
          /\ priced.market = job[w].market /\ priced.copy = job[w].copy
      BY <1>0 DEF PhaseOK, JobFields
    <2> HIDE DEF priced
    <2>4. StillRunning(priced, AfterNoFill(priced)) /\ StillRunning(priced, AfterFill(priced))
      BY <2>2, <2>3, AfterFillStillRunning, AfterNoFillStillRunning
    <2>5. StillRunning(priced, [priced EXCEPT !.pc = "note"])
      BY <2>2, <2>3 DEF StillRunning, PhaseOK, JobFields
    <2> QED
      BY <2>1, <2>3, <2>4, <2>5, <1>a DEF StillRunning, Active
  <1>6. CASE NoteFill(w)
    <2> DEFINE trips == loss + fillFee(job[w].fill) >= Limits.max_drawdown /\ ~killed
    <2>1. /\ job[w].pc = "note" /\ Goto(w, AfterNote(job[w], trips))
          /\ UNCHANGED <<feed, busy>>
      BY <1>6 DEF NoteFill
    <2>2. job[w].stage # "done"
      BY <2>1, <1>0 DEF PhaseOK
    <2>3. CASE trips
      <3>1. StillRunning(job[w], [job[w] EXCEPT !.pc = "halt"])
        BY <1>0, <2>2 DEF StillRunning, PhaseOK, JobFields
      <3> QED
        BY <2>1, <2>3, <3>1, <1>a DEF AfterNote, Active
    <2>4. CASE ~trips
      BY <2>1, <2>2, <2>4, <1>0, <1>a, AfterFillStillRunning DEF AfterNote, Active
    <2> QED
      BY <2>3, <2>4
  <1>7. CASE NoteFillTooLate(w)
    <2>1. job[w].pc = "note" /\ Goto(w, AfterFill(job[w])) /\ UNCHANGED <<feed, busy>>
      BY <1>7 DEF NoteFillTooLate
    <2>2. job[w].stage # "done"
      BY <2>1, <1>0 DEF PhaseOK
    <2> QED
      BY <2>1, <2>2, <1>0, <1>a, AfterFillStillRunning DEF Active
  <1>8. CASE KillSwitch(w)
    <2>1. job[w].pc = "halt" /\ Goto(w, AfterFill(job[w])) /\ UNCHANGED <<feed, busy>>
      BY <1>8 DEF KillSwitch
    <2>2. job[w].stage # "done"
      BY <2>1, <1>0 DEF PhaseOK
    <2> QED
      BY <2>1, <2>2, <1>0, <1>a, AfterFillStillRunning DEF Active
  <1>9. CASE Release(w)
    BY <1>0, <1>9 DEF Release, StillRunning, PhaseOK, JobFields, Active, Goto
  <1>10. CASE Flatten(w)
    BY <1>0, <1>10 DEF Flatten, StillRunning, PhaseOK, JobFields, Active, Goto
  <1>11. CASE GetBalance(w)
    BY <1>0, <1>11 DEF GetBalance, StillRunning, PhaseOK, JobFields, Active, Goto
  <1>12. CASE GetBalanceFails(w)
    BY <1>0, <1>12 DEF GetBalanceFails, AfterRefusal, NextVenue, StillRunning, PhaseOK,
                       JobFields, Active, Goto
  <1>13. CASE SetBalance(w)
    BY <1>0, <1>13 DEF SetBalance, NextVenue, StillRunning, PhaseOK, JobFields, Active, Goto
  <1> QED
    BY <1>1, <1>2, <1>3, <1>4, <1>5, <1>6, <1>7, <1>8, <1>9, <1>10, <1>11,
       <1>12, <1>13 DEF JobStep

-----------------------------------------------------------------------------
(* The other steps *)

\* The records of a worker that starts, ends or idles.
LEMMA NewJobs ==
  /\ JobFields \subseteq DOMAIN IdleJob /\ PhaseOK(IdleJob) /\ IdleJob.pc = "idle"
  /\ \A m : /\ JobFields \subseteq DOMAIN FlattenJob(m) /\ PhaseOK(FlattenJob(m))
            /\ FlattenJob(m).market = m /\ FlattenJob(m).pc = "flatten"
  /\ \A m, leg : /\ JobFields \subseteq DOMAIN PairJob(m, leg) /\ PhaseOK(PairJob(m, leg))
                 /\ PairJob(m, leg).market = m /\ PairJob(m, leg).pc = "send"
                 /\ PairJob(m, leg).copy = leg
  BY DEF NewJob, JobFields, IdleJob, FlattenJob, PairJob, PhaseOK

\* tryBusy and the reservation: the steps of a feed that has decided.
LEMMA DispatchKeepsOwners ==
  ASSUME Shape, Phases, OneOwner, NEW t \in Feeds, Dispatch(t)
  PROVE  Shape' /\ Phases' /\ OneOwner'
  <1> USE DEF Shape, Phases, OneOwner, OneJobPerMarket, Active
  <1>1. CASE TryBusyInFlight(t)
    BY <1>1 DEF TryBusyInFlight, FeedReturns, IdleFeed
  <1>2. CASE TryBusyPair(t)
    BY <1>2 DEF TryBusyPair, TakesBusy
  <1>3. CASE ReserveFails(t)
    BY <1>3 DEF ReserveFails, FeedReturns, IdleFeed
  <1>4. ASSUME NEW w \in Workers, TryBusyFlatten(t, w)
        PROVE  Shape' /\ Phases' /\ OneOwner'
    <2> DEFINE j == FlattenJob(feed[t].market)
    <2>1. /\ JobFields \subseteq DOMAIN j /\ PhaseOK(j)
          /\ j.market = feed[t].market /\ j.pc = "flatten"
      BY NewJobs
    <2>2. /\ job[w].pc = "idle" /\ job' = [job EXCEPT ![w] = j]
          /\ feed[t].pc = "tryBusy" /\ feed[t].market \notin busy
          /\ feed' = [feed EXCEPT ![t] = IdleFeed]
          /\ busy' = busy \cup {feed[t].market}
      BY <1>4 DEF TryBusyFlatten, Spawn, FeedReturns, TakesBusy
    <2> HIDE DEF j
    <2> QED
      BY <2>1, <2>2 DEF IdleFeed
  <1>5. ASSUME NEW w \in Workers, Reserve(t, w)
        PROVE  Shape' /\ Phases' /\ OneOwner'
    <2> DEFINE j == PairJob(feed[t].market, feed[t].leg)
    <2>1. /\ JobFields \subseteq DOMAIN j /\ PhaseOK(j)
          /\ j.market = feed[t].market /\ j.pc = "send"
      BY NewJobs
    <2>2. /\ job[w].pc = "idle" /\ job' = [job EXCEPT ![w] = j]
          /\ feed[t].pc = "reserve"
          /\ feed' = [feed EXCEPT ![t] = IdleFeed]
          /\ busy' = busy
      BY <1>5 DEF Reserve, Spawn, FeedReturns
    <2> HIDE DEF j
    <2> QED
      BY <2>1, <2>2 DEF IdleFeed
  <1> QED
    BY <1>1, <1>2, <1>3, <1>4, <1>5 DEF Dispatch

\* A tick only leaves a feed on its way to the busy flag.
LEMMA TickKeepsOwners ==
  ASSUME Shape, Phases, OneOwner, NEW t \in Feeds, Tick(t)
  PROVE  Shape' /\ Phases' /\ OneOwner'
  <1>1. PICK m, leg : Attempt(t, m, leg)
    BY DEF Tick, FlattenTick, PairTick
  <1> QED
    BY <1>1 DEF Attempt, Shape, Phases, OneOwner, OneJobPerMarket, Active

LEMMA JobStepKeepsOwners ==
  ASSUME Shape, Phases, OneOwner, NEW w \in Workers, JobStep(w)
  PROVE  Shape' /\ Phases' /\ OneOwner'
  <1>1. CASE ClearBusy(w)
    <2> DEFINE j == [IdleJob EXCEPT !.pc = "end"]
    <2>1. JobFields \subseteq DOMAIN j /\ PhaseOK(j) /\ j.pc = "end"
      BY NewJobs DEF PhaseOK, JobFields
    <2>2. /\ Active(w) /\ job' = [job EXCEPT ![w] = j]
          /\ busy' = busy \ {job[w].market} /\ UNCHANGED feed
      BY <1>1 DEF ClearBusy, Goto, Active
    <2> HIDE DEF j
    <2> QED
      BY <2>1, <2>2 DEF Shape, Phases, OneOwner, OneJobPerMarket, Active
  <1>2. CASE WorkingEnd(w)
    <2>1. JobFields \subseteq DOMAIN IdleJob /\ PhaseOK(IdleJob) /\ IdleJob.pc = "idle"
      BY NewJobs
    <2>2. job' = [job EXCEPT ![w] = IdleJob] /\ UNCHANGED <<feed, busy>>
      BY <1>2 DEF WorkingEnd, Goto
    <2> QED
      BY <2>1, <2>2 DEF Shape, Phases, OneOwner, OneJobPerMarket, Active
  <1>3. CASE ~ClearBusy(w) /\ ~WorkingEnd(w)
    <2>1. /\ Active(w) /\ job' = [job EXCEPT ![w] = job'[w]]
          /\ StillRunning(job[w], job'[w]) /\ UNCHANGED <<feed, busy>>
      BY <1>3, JobStepStillRunning
    <2> QED
      BY <2>1 DEF StillRunning, Shape, Phases, OneOwner, OneJobPerMarket, Active
  <1> QED
    BY <1>1, <1>2, <1>3

(* The busy flags give every market one job at a time: the invariant that the
   rest of the live path is built on (live_busy.hpp, "The same market cannot
   start a second job while the first is still going"). *)
THEOREM OneJobPerMarketHolds == Spec => []OneJobPerMarket
  <1> DEFINE IInv == Shape /\ Phases /\ OneOwner
  <1>1. Init => IInv
    <2> SUFFICES ASSUME Init PROVE IInv
      OBVIOUS
    <2>1. JobFields \subseteq DOMAIN IdleJob /\ PhaseOK(IdleJob) /\ IdleJob.pc = "idle"
      BY NewJobs
    <2> QED
      BY <2>1 DEF Init, Shape, Phases, OneOwner, OneJobPerMarket, Active, IdleFeed
  <1>2. IInv /\ [Next]_vars => IInv'
    <2> SUFFICES ASSUME IInv, [Next]_vars PROVE IInv'
      OBVIOUS
    <2>1. ASSUME NEW t \in Feeds, Tick(t) PROVE IInv'
      BY <2>1, TickKeepsOwners
    <2>2. ASSUME NEW t \in Feeds, Dispatch(t) PROVE IInv'
      BY <2>2, DispatchKeepsOwners
    <2>3. ASSUME NEW w \in Workers, JobStep(w) PROVE IInv'
      BY <2>3, JobStepKeepsOwners
    <2>4. CASE UNCHANGED <<feed, job, busy>>
      BY <2>4 DEF Shape, Phases, OneOwner, OneJobPerMarket, Active
    <2> QED
      BY <2>1, <2>2, <2>3, <2>4 DEF Next, QuietTick, Stop, Expire, vars
  <1>3. IInv => OneJobPerMarket
    BY DEF OneOwner
  <1> QED
    BY <1>1, <1>2, <1>3, PTL DEF Spec

-----------------------------------------------------------------------------
(* Types.  TypeOK alone is not inductive: a buy is averaged into the book at
   the price of its fill, which must not be negative, and a sell reads the
   position of its market, which must be registered. *)

PairOfBuys(leg) == \A s \in Sides : leg[s].buy

JobReady(j) ==
  /\ j.pc \notin {"idle", "end"} => j.market \in Markets
  /\ j.stage \in {"first", "second"} => PairOfBuys(j.leg)
  /\ j.sell.price \in 0..1
  /\ j.pc = "apply" => j.fill.price >= 0

FeedReady(f) ==
  /\ f.pc # "idle" => f.market \in Markets
  /\ f.leg # NoIdea => PairOfBuys(f.leg)
  /\ f.pc = "reserve" => f.leg # NoIdea

Ready ==
  /\ \A t \in Feeds : FeedReady(feed[t])
  /\ \A w \in Workers : JobReady(job[w])

TypedJob(j) == j \in JobState /\ PhaseOK(j) /\ JobReady(j)

LEMMA UpdatePortfolioType ==
  ASSUME PortfolioTypeOK, NEW market \in Markets, NEW f \in Leg, f.price >= 0,
         updatePortfolio(market, f)
  PROVE  PortfolioTypeOK'
  <1>1. pos[market] \in Position
    BY DEF PortfolioTypeOK
  <1>2. /\ f.size \in Nat /\ f.price \in Nat /\ f.side \in Sides
        /\ f.venue \in Venues \cup {NoVenue}
    BY DEF Leg
  <1>3. fillFee(f) \in Nat
    BY FillFeeType
  <1>4. CASE ~fillApplies(market, f)
    BY <1>4 DEF updatePortfolio, PortfolioTypeOK
  <1>5. CASE fillApplies(market, f) /\ f.buy
    <2> DEFINE spent == f.size * f.price + fillFee(f)
    <2>1. f.size >= 1
      BY <1>2, <1>5 DEF fillApplies
    <2>2. spent \in Int
      BY <1>2, <1>3
    <2>3. blendLot(pos[market], f.side, f.venue, f.size, f.price) \in Position
      BY <1>1, <1>2, <2>1, BlendLotType
    <2>4. /\ pos' = [pos EXCEPT ![market] =
                       blendLot(pos[market], f.side, f.venue, f.size, f.price)]
          /\ cash' = [cash EXCEPT ![f.venue] = cash[f.venue] - spent]
          /\ exposure' = [exposure EXCEPT ![f.venue] = exposure[f.venue] + spent]
          /\ UNCHANGED reserved
      BY <1>5 DEF updatePortfolio, applyBuy
    <2> HIDE DEF spent
    <2>5. pos' \in [Markets -> Position]
      BY <2>3, <2>4 DEF PortfolioTypeOK
    <2>6. cash' \in [Venues -> Int] /\ exposure' \in [Venues -> Int]
      BY <2>2, <2>4, AddedCents DEF PortfolioTypeOK
    <2> QED
      BY <2>4, <2>5, <2>6 DEF PortfolioTypeOK
  <1>6. CASE fillApplies(market, f) /\ ~f.buy
    <2> DEFINE n == soldSize(pos[market], f)
    <2>1. n \in 0..pos[market].count[f.side]
      BY <1>1, <1>2 DEF soldSize, Position
    <2>2. pos[market].count[f.side] \in Nat /\ pos[market].avg[f.side] \in Nat
      BY <1>1, <1>2 DEF Position
    <2>3. sellProceeds(f, n) \in Int /\ n * pos[market].avg[f.side] \in Int
      BY <1>2, <1>3, <2>1, <2>2 DEF sellProceeds
    <2>4. sellLot(pos[market], f.side, n) \in Position
      BY <1>1, <1>2, <2>1, SellLotType
    <2>5. /\ pos' = [pos EXCEPT ![market] = sellLot(pos[market], f.side, n)]
          /\ cash' = [cash EXCEPT ![f.venue] = cash[f.venue] + sellProceeds(f, n)]
          /\ exposure' = [exposure EXCEPT ![f.venue] =
                            exposure[f.venue] - n * pos[market].avg[f.side]]
          /\ UNCHANGED reserved
      BY <1>6 DEF updatePortfolio, applySell
    <2> HIDE DEF n
    <2>6. pos' \in [Markets -> Position]
      BY <2>4, <2>5 DEF PortfolioTypeOK
    <2>7. cash' \in [Venues -> Int] /\ exposure' \in [Venues -> Int]
      BY <2>3, <2>5, AddedCents DEF PortfolioTypeOK
    <2> QED
      BY <2>5, <2>6, <2>7 DEF PortfolioTypeOK
  <1> QED
    BY <1>4, <1>5, <1>6

LEMMA NoFillType == NoFill \in Leg /\ NoIdea \in [Sides -> Leg]
  BY DEF NoFill, NoLeg, NoIdea, Leg, Sides, YesSided

LEMMA TurnType ==
  ASSUME NEW j
  PROVE  Turn(j) \in Sides
  BY DEF Turn, FirstSide, OtherSide, Sides, YesSided, NoSided

\* A leg keeps its shape when its price moves.
LEMMA PricedLegType ==
  ASSUME NEW j \in JobState, NEW side \in Sides, NEW price \in Int
  PROVE  [j EXCEPT !.leg[side].price = price] \in JobState
  <1>1. j.leg \in [Sides -> Leg]
    BY DEF JobState
  <1>2. [j.leg[side] EXCEPT !.price = price] \in Leg
    <2>1. j.leg[side] \in Leg
      BY <1>1
    <2> QED
      BY <2>1 DEF Leg
  <1>3. [j.leg EXCEPT ![side] = [j.leg[side] EXCEPT !.price = price]] \in [Sides -> Leg]
    BY <1>1, <1>2
  <1> DEFINE moved == [j.leg EXCEPT ![side] = [j.leg[side] EXCEPT !.price = price]]
  <1>4. [j EXCEPT !.leg[side].price = price] = [j EXCEPT !.leg = moved]
    OBVIOUS
  <1> HIDE DEF moved
  <1> QED
    BY <1>3, <1>4 DEF moved, JobState

LEMMA PricedLegBuys ==
  ASSUME NEW j \in JobState, NEW side \in Sides, NEW price, PairOfBuys(j.leg)
  PROVE  PairOfBuys([j EXCEPT !.leg[side].price = price].leg)
  <1>1. j.leg \in [Sides -> Leg]
    BY DEF JobState
  <1>2. [j EXCEPT !.leg[side].price = price].leg
          = [j.leg EXCEPT ![side] = [j.leg[side] EXCEPT !.price = price]]
    BY DEF JobState
  <1>3. ASSUME NEW s \in Sides
        PROVE  [j.leg EXCEPT ![side] = [j.leg[side] EXCEPT !.price = price]][s].buy
    <2>1. j.leg[s] \in Leg /\ j.leg[s].buy
      BY <1>1 DEF PairOfBuys
    <2> QED
      BY <1>1, <2>1 DEF Leg
  <1> QED
    BY <1>2, <1>3 DEF PairOfBuys

LEMMA AfterFillTyped ==
  ASSUME NEW j, TypedJob(j), j.stage # "done", j.market \in Markets
  PROVE  TypedJob(AfterFill(j))
  <1>1. JobFields \subseteq DOMAIN j
    BY DEF TypedJob, JobState, JobFields
  <1>2. PhaseOK(AfterFill(j))
    BY <1>1, AfterFillStillRunning DEF TypedJob, StillRunning
  <1>3. j.stage \in {"first", "second", "flatten"}
    BY DEF TypedJob, PhaseOK
  <1>4. CASE j.stage = "first"
    BY <1>2, <1>4, NoFillType DEF AfterFill, TypedJob, JobState, JobReady
  <1>5. CASE j.stage = "second"
    BY <1>2, <1>5, NoFillType DEF AfterFill, TypedJob, JobState, JobReady
  <1>6. CASE j.stage = "flatten"
    BY <1>2, <1>6, NoFillType DEF AfterFill, TypedJob, JobState, JobReady
  <1> QED
    BY <1>3, <1>4, <1>5, <1>6

LEMMA AfterNoFillTyped ==
  ASSUME NEW j, TypedJob(j), j.stage # "done", j.market \in Markets
  PROVE  TypedJob(AfterNoFill(j))
  <1>1. JobFields \subseteq DOMAIN j
    BY DEF TypedJob, JobState, JobFields
  <1>2. PhaseOK(AfterNoFill(j))
    BY <1>1, AfterNoFillStillRunning DEF TypedJob, StillRunning
  <1> DEFINE missed == [j EXCEPT !.pc = "send", !.fill = NoFill]
             side == Turn(j)
             price == nextChasePrice(missed.leg[side].price)
             bumped == [missed EXCEPT !.leg[side].price = price]
  <1>3. missed \in JobState
    BY NoFillType DEF TypedJob, JobState
  <1>4. CASE AfterNoFill(j) = AfterMiss(missed)
    <2>1. /\ missed.market = j.market /\ missed.sell = j.sell
          /\ missed.stage = j.stage /\ missed.leg = j.leg
      BY DEF TypedJob, JobState
    <2> HIDE DEF missed
    <2>2. \/ AfterNoFill(j) = [missed EXCEPT !.pc = "get"]
          \/ AfterNoFill(j) = [missed EXCEPT !.pc = "release"]
      BY <1>4 DEF AfterMiss
    <2> QED
      BY <1>2, <1>3, <2>1, <2>2 DEF TypedJob, JobState, JobReady
  <1>5. CASE AfterNoFill(j) = [bumped EXCEPT !.tries = missed.tries + 1]
    <2>1. side \in Sides
      BY TurnType
    <2>2. price \in Int
      <3>1. missed.leg \in [Sides -> Leg]
        BY <1>3 DEF JobState
      <3> HIDE DEF missed, side
      <3>2. missed.leg[side] \in Leg
        BY <2>1, <3>1
      <3> QED
        BY <3>2 DEF Leg, nextChasePrice
    <2>3. /\ missed.market = j.market /\ missed.sell = j.sell /\ missed.pc = "send"
          /\ missed.stage = j.stage /\ missed.leg = j.leg
      BY DEF TypedJob, JobState
    <2> HIDE DEF missed, side, price
    <2>4. bumped \in JobState
      BY <1>3, <2>1, <2>2, PricedLegType
    <2>5. /\ bumped.market = j.market /\ bumped.sell = j.sell /\ bumped.pc = "send"
          /\ bumped.stage = j.stage
      BY <1>3, <2>3 DEF JobState
    <2>6. j.stage \in {"first", "second"} => PairOfBuys(bumped.leg)
      BY <1>3, <2>1, <2>3, PricedLegBuys DEF TypedJob, JobReady
    <2> HIDE DEF bumped
    <2> QED
      BY <1>2, <1>3, <1>5, <2>4, <2>5, <2>6 DEF TypedJob, JobState, JobReady
  <1> QED
    BY <1>4, <1>5 DEF AfterNoFill

\* The table of jobs when one worker moves on to a well-formed record.
LEMMA GotoTyped ==
  ASSUME TypeOK, Phases, Ready, NEW w \in Workers, NEW k, TypedJob(k), Goto(w, k)
  PROVE  /\ job' \in [Workers -> JobState]
         /\ \A u \in Workers : PhaseOK(job'[u]) /\ JobReady(job'[u])
  BY DEF TypeOK, Phases, Ready, TypedJob, Goto

LEMMA OrderType ==
  ASSUME NEW j, TypedJob(j), j.stage # "done"
  PROVE  /\ Order(j) \in Leg
         /\ Order(j).buy \/ Order(j).price \in 0..1
  <1>1. j.leg \in [Sides -> Leg] /\ j.sell \in Leg /\ Turn(j) \in Sides
    BY TurnType DEF TypedJob, JobState
  <1>2. CASE j.stage = "flatten"
    BY <1>1, <1>2 DEF Order, TypedJob, JobReady
  <1>3. CASE j.stage \in {"first", "second"}
    BY <1>1, <1>3 DEF Order, TypedJob, JobReady, PairOfBuys
  <1> QED
    BY <1>2, <1>3 DEF TypedJob, PhaseOK

\* What a venue fills: the order, at a price between 1 and 99, and a buy never
\* above its limit.
LEMMA VenueFillsType ==
  ASSUME NEW leg \in Leg, NEW market, NEW f \in VenueFills(market, leg)
  PROVE  /\ f \in Leg /\ f.price \in Prices
         /\ f.venue = leg.venue /\ f.side = leg.side /\ f.size = leg.size /\ f.buy = leg.buy
         /\ leg.buy => f.price <= leg.price
  <1>1. PICK p \in FillPrices(leg) :
          f = [venue |-> leg.venue, side |-> leg.side, size |-> leg.size,
               price |-> p, buy |-> leg.buy]
    BY DEF VenueFills
  <1>2. p \in Prices /\ (leg.buy => p <= leg.price)
    <2>1. CASE leg.buy
      <3>1. p \in Prices /\ leg.price - p \in Nat
        BY <2>1, FillPricesAssumption DEF FillPrices
      <3> QED
        BY <3>1 DEF Prices, Leg
    <2>2. CASE ~leg.buy
      BY <2>2, FillPricesAssumption DEF FillPrices
    <2> QED
      BY <2>1, <2>2
  <1> QED
    BY <1>1, <1>2 DEF Leg, Prices

LEMMA TakeReportedFillType ==
  ASSUME NEW leg \in Leg, leg.buy \/ leg.price \in 0..1, NEW market, NEW f \in VenueFills(market, leg),
         NEW reported \in ReportedPrices(f)
  PROVE  /\ takeReportedFill(f, reported, leg) \in Leg
         /\ takeReportedFill(f, reported, leg).price >= 0
  <1>1. f \in Leg /\ f.price \in Prices /\ (leg.buy => f.price <= leg.price)
    BY VenueFillsType
  <1>2. reported \in Int
    BY <1>1 DEF ReportedPrices, Prices
  <1>3. FallbackPrice(leg) \in Nat
    BY <1>1 DEF FallbackPrice, complementCents, kDollarCents, Leg, Prices
  <1> QED
    BY <1>1, <1>2, <1>3 DEF takeReportedFill, Leg

LEMMA VenueExecutesType ==
  ASSUME TypeOK, NEW market \in Markets, NEW f \in Leg, VenueExecutes(market, f)
  PROVE  /\ funds' \in [Venues -> Int]
         /\ owned' \in [Markets -> [Sides -> [Venues -> Int]]]
  <1>1. f.size \in Nat /\ f.price \in Int /\ f.side \in Sides /\ fillFee(f) \in Int
    BY FillFeeType DEF Leg
  <1>2. fundsDelta(f) \in Int /\ ownedDelta(f) \in Int
    BY <1>1 DEF fundsDelta, ownedDelta, sellProceeds
  <1>3. funds' \in [Venues -> Int]
    BY <1>2, AddedCents DEF VenueExecutes, TypeOK
  <1>4. owned[market] \in [Sides -> [Venues -> Int]] /\ owned[market][f.side] \in [Venues -> Int]
    BY <1>1 DEF TypeOK
  <1> DEFINE held == [owned[market][f.side] EXCEPT
                        ![f.venue] = owned[market][f.side][f.venue] + ownedDelta(f)]
  <1>5. held \in [Venues -> Int]
    BY <1>2, <1>4, AddedCents
  <1>6. owned' = [owned EXCEPT ![market] = [owned[market] EXCEPT ![f.side] = held]]
    BY DEF VenueExecutes
  <1> HIDE DEF held
  <1>7. [owned[market] EXCEPT ![f.side] = held] \in [Sides -> [Venues -> Int]]
    BY <1>1, <1>4, <1>5
  <1> QED
    BY <1>3, <1>6, <1>7 DEF TypeOK

WellTyped == TypeOK /\ Phases /\ Ready

\* A step that moves one worker to a well-formed record, and leaves the book
\* and the venues well-formed, keeps everything well-formed.
LEMMA WorkerMoves ==
  ASSUME WellTyped, NEW w \in Workers, NEW k, TypedJob(k), Goto(w, k),
         PortfolioTypeOK', funds' \in [Venues -> Int],
         owned' \in [Markets -> [Sides -> [Venues -> Int]]],
         busy' \in SUBSET Markets, loss' \in Int, killed' \in BOOLEAN, stopped' \in BOOLEAN,
         working' \in Nat, UNCHANGED <<expired, feed, ticks>>
  PROVE  WellTyped'
  <1>1. /\ job' \in [Workers -> JobState]
        /\ \A u \in Workers : PhaseOK(job'[u]) /\ JobReady(job'[u])
    BY GotoTyped DEF WellTyped
  <1>2. Phases' /\ Ready'
    BY <1>1 DEF WellTyped, Phases, Ready
  <1>3. TypeOK'
    BY <1>1 DEF WellTyped, TypeOK
  <1> QED
    BY <1>2, <1>3 DEF WellTyped

LEMMA NewJobType ==
  ASSUME NEW pc \in {"idle", "send", "flatten", "end"}, NEW market \in Markets \cup {NoMarket},
         NEW stage \in {"first", "second", "done", "flatten"}, NEW leg \in [Sides -> Leg],
         NEW holding \in BOOLEAN
  PROVE  /\ NewJob(pc, market, stage, leg, holding) \in JobState
         /\ NewJob(pc, market, stage, leg, holding).sell.price = 0
  <1>1. Kalshi \in Venues
    BY DEF Venues
  <1>2. NoFill.price = 0
    BY DEF NoFill, NoLeg
  <1> QED
    BY <1>1, <1>2, NoFillType DEF NewJob, JobState

LEMMA NewJobsTyped ==
  /\ TypedJob(IdleJob)
  /\ TypedJob([IdleJob EXCEPT !.pc = "end"])
  /\ \A m \in Markets : TypedJob(FlattenJob(m))
  /\ \A m \in Markets, leg \in [Sides -> Leg] : PairOfBuys(leg) => TypedJob(PairJob(m, leg))
  <1>1. /\ IdleJob \in JobState /\ IdleJob.sell.price = 0
        /\ IdleJob.stage = "done" /\ IdleJob.pc = "idle"
    BY NewJobType, NoFillType DEF IdleJob, NewJob
  <1>2. TypedJob(IdleJob)
    BY <1>1 DEF TypedJob, PhaseOK, JobReady
  <1>3. TypedJob([IdleJob EXCEPT !.pc = "end"])
    BY <1>1 DEF TypedJob, PhaseOK, JobReady, JobState
  <1>4. ASSUME NEW m \in Markets
        PROVE  TypedJob(FlattenJob(m))
    <2>1. /\ FlattenJob(m) \in JobState /\ FlattenJob(m).sell.price = 0
          /\ FlattenJob(m).stage = "flatten" /\ FlattenJob(m).pc = "flatten"
          /\ FlattenJob(m).market = m
      BY NewJobType, NoFillType DEF FlattenJob, NewJob
    <2> QED
      BY <2>1 DEF TypedJob, PhaseOK, JobReady
  <1>5. ASSUME NEW m \in Markets, NEW leg \in [Sides -> Leg], PairOfBuys(leg)
        PROVE  TypedJob(PairJob(m, leg))
    <2>1. /\ PairJob(m, leg) \in JobState /\ PairJob(m, leg).sell.price = 0
          /\ PairJob(m, leg).stage = "first" /\ PairJob(m, leg).pc = "send"
          /\ PairJob(m, leg).market = m /\ PairJob(m, leg).leg = leg
      BY NewJobType DEF PairJob, NewJob
    <2> QED
      BY <1>5, <2>1 DEF TypedJob, PhaseOK, JobReady
  <1> QED
    BY <1>2, <1>3, <1>4, <1>5

LEMMA ReservedType ==
  ASSUME NEW res \in [Venues -> Nat], NEW v, NEW amount \in Int
  PROVE  setAside(res, v, amount) \in [Venues -> Nat] /\ giveBack(res, v, amount) \in [Venues -> Nat]
  <1>1. CASE v \in Venues
    <2> DEFINE more == res[v] + amount
    <2>1. amount > 0 => more \in Nat
      BY <1>1
    <2>a. setAside(res, v, amount) = IF amount <= 0 THEN res ELSE [res EXCEPT ![v] = more]
      BY DEF setAside
    <2> HIDE DEF more
    <2>2. setAside(res, v, amount) \in [Venues -> Nat]
      <3>1. CASE amount <= 0
        BY <3>1, <2>a
      <3>2. CASE ~(amount <= 0)
        <4>1. more \in Nat
          BY <3>2, <2>1
        <4> QED
          BY <3>2, <4>1, <2>a
      <3> QED
        BY <3>1, <3>2
    <2> DEFINE left == IF res[v] - amount < 0 THEN 0 ELSE res[v] - amount
    <2>3. left \in Nat
      BY <1>1
    <2>4. giveBack(res, v, amount) = IF amount <= 0 THEN res ELSE [res EXCEPT ![v] = left]
      BY DEF giveBack
    <2> HIDE DEF left
    <2>5. giveBack(res, v, amount) \in [Venues -> Nat]
      BY <2>3, <2>4
    <2> QED
      BY <2>2, <2>5
  <1>2. CASE v \notin Venues
    BY <1>2 DEF setAside, giveBack
  <1> QED
    BY <1>1, <1>2

LEMMA PairReservedType ==
  ASSUME reserved \in [Venues -> Nat], NEW leg \in [Sides -> Leg],
         \/ reserve_pair(leg[YesSided], leg[NoSided])
         \/ release_pair(leg[YesSided], leg[NoSided])
  PROVE  reserved' \in [Venues -> Nat]
  <1> DEFINE yes == leg[YesSided]
             no  == leg[NoSided]
             a   == legCost(yes, yes.size)
             b   == legCost(no, no.size)
  <1>1. yes \in Leg /\ no \in Leg
    BY DEF Sides
  <1>2. a \in Int /\ b \in Int /\ a + b \in Int
    BY <1>1, LegCostType DEF Leg
  <1>3. reserveTwo(yes.venue, a, no.venue, b) \/ releaseReserveTwo(yes.venue, a, no.venue, b)
    BY DEF reserve_pair, release_pair
  <1> HIDE DEF a, b, yes, no
  <1>4. CASE reserveTwo(yes.venue, a, no.venue, b)
    <2>1. setAside(reserved, yes.venue, a) \in [Venues -> Nat]
      BY <1>2, ReservedType
    <2> QED
      BY <1>2, <1>4, <2>1, ReservedType DEF reserveTwo
  <1>5. CASE releaseReserveTwo(yes.venue, a, no.venue, b)
    <2>1. giveBack(reserved, yes.venue, a) \in [Venues -> Nat]
      BY <1>2, ReservedType
    <2> QED
      BY <1>2, <1>5, <2>1, ReservedType DEF releaseReserveTwo
  <1> QED
    BY <1>3, <1>4, <1>5

LEMMA NextVenueTyped ==
  ASSUME NEW j, TypedJob(j), j.pc \in {"get", "set"}
  PROVE  TypedJob(NextVenue(j))
  <1>1. j.at \in Venues /\ (j.at # Gemini => j.at + 1 \in Venues)
    BY DEF TypedJob, JobState, Venues, Kalshi, Polymarket, Gemini
  <1>2. j \in JobState /\ j.market \in Markets
    BY DEF TypedJob, JobReady
  <1>3. ASSUME NEW at \in Venues
        PROVE  /\ TypedJob([j EXCEPT !.pc = "get", !.at = at, !.balance = 0])
               /\ TypedJob([j EXCEPT !.pc = "clear", !.at = at, !.balance = 0])
    <2>1. ASSUME NEW k, \/ k = [j EXCEPT !.pc = "get", !.at = at, !.balance = 0]
                        \/ k = [j EXCEPT !.pc = "clear", !.at = at, !.balance = 0]
          PROVE  TypedJob(k)
      <3> DEFINE moved == [j EXCEPT !.at = at]
      <3>a. moved \in JobState
        BY <1>2 DEF JobState
      <3>b. \/ k = [moved EXCEPT !.pc = "get", !.balance = 0]
            \/ k = [moved EXCEPT !.pc = "clear", !.balance = 0]
        BY <1>2, <2>1 DEF JobState
      <3> HIDE DEF moved
      <3>1. k \in JobState
        <4>1. [moved EXCEPT !.pc = "get"] \in JobState
          BY <3>a DEF JobState
        <4>2. [moved EXCEPT !.pc = "clear"] \in JobState
          BY <3>a DEF JobState
        <4>3. ASSUME NEW i \in JobState PROVE [i EXCEPT !.balance = 0] \in JobState
          BY <4>3 DEF JobState
        <4>4. \/ k = [[moved EXCEPT !.pc = "get"] EXCEPT !.balance = 0]
              \/ k = [[moved EXCEPT !.pc = "clear"] EXCEPT !.balance = 0]
          BY <3>b
        <4> QED
          BY <4>1, <4>2, <4>3, <4>4
      <3>2. /\ k.pc \in {"get", "clear"} /\ k.market = j.market /\ k.stage = j.stage
            /\ k.leg = j.leg /\ k.sell = j.sell
        BY <1>2, <2>1 DEF JobState
      <3>3. PhaseOK(k) /\ JobReady(k)
        BY <1>2, <3>2 DEF TypedJob, PhaseOK, JobReady
      <3> QED
        BY <3>1, <3>3 DEF TypedJob
    <2> QED
      BY <2>1
  <1>4. CASE j.at = Gemini
    <2>1. NextVenue(j) = [j EXCEPT !.pc = "clear", !.at = j.at, !.balance = 0]
      BY <1>2, <1>4 DEF NextVenue, JobState
    <2> QED
      BY <1>1, <1>3, <2>1
  <1>5. CASE j.at # Gemini
    <2>1. NextVenue(j) = [j EXCEPT !.pc = "get", !.at = j.at + 1, !.balance = 0]
      BY <1>5 DEF NextVenue
    <2>2. j.at + 1 \in Venues
      BY <1>1, <1>5
    <2> QED
      BY <1>3, <2>1, <2>2
  <1> QED
    BY <1>4, <1>5

LEMMA JobStepTyped ==
  ASSUME WellTyped, NEW w \in Workers, JobStep(w)
  PROVE  WellTyped'
  <1> DEFINE j == job[w]
  <1>0. TypedJob(j)
    BY DEF WellTyped, TypeOK, Phases, Ready, TypedJob
  <1>a. ASSUME NEW k, TypedJob(k), Goto(w, k),
               UNCHANGED <<bookVars, busy, gateVars, working, expired, feed, ticks, venueVars>>
        PROVE  WellTyped'
    BY <1>a, WorkerMoves
       DEF WellTyped, TypeOK, PortfolioTypeOK, bookVars, gateVars, venueVars
  <1>b. j.pc \notin {"idle", "end"} => j.market \in Markets
    BY <1>0 DEF TypedJob, JobReady
  <1>c. j.pc \in {"send", "apply", "note", "halt"} => j.stage # "done"
    BY <1>0 DEF TypedJob, PhaseOK
  <1>d. Limits.max_drawdown \in Int
    BY LimitsAssumption DEF RiskLimits
  <1> HIDE DEF j
  <1>1. CASE SendGivesUp(w)
    <2>1. TypedJob(AfterMiss(j)) /\ Goto(w, AfterMiss(j))
      BY <1>0, <1>1 DEF SendGivesUp, AfterMiss, TypedJob, JobState, PhaseOK, JobReady, j
    <2> QED
      BY <2>1, <1>a, <1>1 DEF SendGivesUp
  <1>2. CASE SendMissed(w)
    <2>1. TypedJob(AfterNoFill(j)) /\ Goto(w, AfterNoFill(j))
      BY <1>0, <1>b, <1>c, <1>2, AfterNoFillTyped DEF SendMissed, j
    <2> QED
      BY <2>1, <1>a, <1>2 DEF SendMissed
  <1>3. CASE SendFilled(w)
    <2>1. /\ j.pc = "send"
          /\ UNCHANGED <<bookVars, busy, gateVars, working, expired, feed, ticks>>
      BY <1>3 DEF SendFilled, j
    <2>2. PICK f \in VenueFills(j.market, Order(j)) :
            /\ VenueExecutes(j.market, f)
            /\ \E reported \in ReportedPrices(f) :
                 Goto(w, [j EXCEPT !.pc = "apply",
                                   !.fill = takeReportedFill(f, reported, Order(j))])
      BY <1>3 DEF SendFilled, j
    <2>r. PICK reported \in ReportedPrices(f) :
            Goto(w, [j EXCEPT !.pc = "apply",
                              !.fill = takeReportedFill(f, reported, Order(j))])
      BY <2>2
    <2>3. Order(j) \in Leg /\ (Order(j).buy \/ Order(j).price \in 0..1)
      BY <1>0, <1>c, <2>1, OrderType
    <2>4. f \in Leg
      BY <2>3, VenueFillsType
    <2>5. /\ funds' \in [Venues -> Int]
          /\ owned' \in [Markets -> [Sides -> [Venues -> Int]]]
      BY <1>b, <2>1, <2>2, <2>4, VenueExecutesType DEF WellTyped
    <2> DEFINE taken == takeReportedFill(f, reported, Order(j))
    <2>6. taken \in Leg /\ taken.price >= 0
      BY <2>3, TakeReportedFillType
    <2> HIDE DEF taken
    <2>7. TypedJob([j EXCEPT !.pc = "apply", !.fill = taken])
      BY <1>0, <1>b, <1>c, <2>1, <2>6 DEF TypedJob, JobState, PhaseOK, JobReady
    <2> QED
      BY <2>1, <2>r, <2>5, <2>7, WorkerMoves
         DEF WellTyped, TypeOK, PortfolioTypeOK, bookVars, gateVars, taken
  <1>4. CASE SendLost(w)
    <2>1. /\ j.pc = "send" /\ Goto(w, AfterNoFill(j))
          /\ UNCHANGED <<bookVars, busy, gateVars, working, expired, feed, ticks>>
      BY <1>4 DEF SendLost, j
    <2>2. PICK f \in VenueFills(j.market, Order(j)) : VenueExecutes(j.market, f)
      BY <1>4 DEF SendLost, j
    <2>3. f \in Leg
      BY <1>0, <1>c, <2>1, OrderType, VenueFillsType
    <2>4. /\ funds' \in [Venues -> Int]
          /\ owned' \in [Markets -> [Sides -> [Venues -> Int]]]
      BY <1>b, <2>1, <2>2, <2>3, VenueExecutesType DEF WellTyped
    <2>5. TypedJob(AfterNoFill(j))
      BY <1>0, <1>b, <1>c, <2>1, AfterNoFillTyped
    <2> QED
      BY <2>1, <2>4, <2>5, WorkerMoves DEF WellTyped, TypeOK, PortfolioTypeOK, bookVars, gateVars
  <1>5. CASE ApplyFill(w)
    <2> DEFINE priced == IF j.stage = "flatten" THEN j
                         ELSE [j EXCEPT !.leg[Turn(j)].price = j.fill.price]
               noted == [priced EXCEPT !.pc = "note"]
    <2>1. /\ j.pc = "apply" /\ updatePortfolio(j.market, j.fill)
          /\ \/ Goto(w, AfterNoFill(priced))
             \/ Goto(w, AfterFill(priced))
             \/ Goto(w, noted)
          /\ UNCHANGED <<busy, gateVars, working, expired, feed, ticks, venueVars>>
      BY <1>5 DEF ApplyFill, j
    <2>2. j.fill \in Leg /\ j.fill.price >= 0 /\ j.fill.price \in Int
      BY <1>0, <2>1 DEF TypedJob, JobReady, JobState, Leg
    <2>3. PortfolioTypeOK'
      BY <1>b, <2>1, <2>2, UpdatePortfolioType DEF WellTyped, TypeOK
    <2>4. /\ priced \in JobState /\ (j.stage \in {"first", "second"} => PairOfBuys(priced.leg))
          /\ priced.pc = j.pc /\ priced.market = j.market /\ priced.stage = j.stage
          /\ priced.sell = j.sell /\ priced.fill = j.fill
      <3>1. CASE j.stage = "flatten"
        BY <1>0, <3>1 DEF TypedJob
      <3>2. CASE j.stage # "flatten"
        <4>1. priced \in JobState
          BY <1>0, <2>2, <3>2, TurnType, PricedLegType DEF TypedJob
        <4>2. j.stage \in {"first", "second"} => PairOfBuys(priced.leg)
          BY <1>0, <3>2, TurnType, PricedLegBuys DEF TypedJob, JobReady
        <4> QED
          BY <1>0, <3>2, <4>1, <4>2 DEF TypedJob, JobState
      <3> QED
        BY <3>1, <3>2
    <2> HIDE DEF priced
    <2>5. TypedJob(priced)
      BY <1>0, <2>4 DEF TypedJob, PhaseOK, JobReady
    <2>6. priced.stage # "done" /\ priced.market \in Markets
      BY <1>b, <1>c, <2>1, <2>4
    <2>7. TypedJob(noted)
      BY <2>5, <2>6, <2>4 DEF TypedJob, JobState, PhaseOK, JobReady
    <2>8. TypedJob(AfterNoFill(priced)) /\ TypedJob(AfterFill(priced))
      BY <2>5, <2>6, AfterNoFillTyped, AfterFillTyped
    <2> HIDE DEF noted
    <2>9. PICK k : TypedJob(k) /\ Goto(w, k)
      BY <2>1, <2>7, <2>8
    <2> QED
      BY <2>1, <2>3, <2>9, WorkerMoves DEF WellTyped, TypeOK, gateVars, venueVars
  <1>6. CASE NoteFill(w)
    <2> DEFINE total == loss + fillFee(j.fill)
               trips == total >= Limits.max_drawdown /\ ~killed
    <2>1. /\ j.pc = "note" /\ loss' = total /\ killed' = (killed \/ trips)
          /\ Goto(w, AfterNote(j, trips))
          /\ UNCHANGED <<bookVars, busy, stopped, working, expired, feed, ticks, venueVars>>
      BY <1>6 DEF NoteFill, j
    <2>2. total \in Int
      BY <1>0, FillFeeType DEF WellTyped, TypeOK, TypedJob, JobState
    <2>3. TypedJob([j EXCEPT !.pc = "halt"])
      BY <1>0, <1>b, <1>c, <2>1 DEF TypedJob, JobState, PhaseOK, JobReady
    <2>4. TypedJob(AfterNote(j, trips))
      BY <1>0, <1>b, <1>c, <2>1, <2>3, AfterFillTyped DEF AfterNote
    <2> HIDE DEF total
    <2>5. killed' \in BOOLEAN
      BY <2>1 DEF WellTyped, TypeOK
    <2> HIDE DEF trips
    <2> QED
      BY <2>1, <2>2, <2>4, <2>5, WorkerMoves
         DEF WellTyped, TypeOK, PortfolioTypeOK, bookVars, venueVars
  <1>7. CASE NoteFillTooLate(w)
    <2>1. TypedJob(AfterFill(j)) /\ Goto(w, AfterFill(j))
      BY <1>0, <1>b, <1>c, <1>7, AfterFillTyped DEF NoteFillTooLate, j
    <2> QED
      BY <2>1, <1>a, <1>7 DEF NoteFillTooLate
  <1>8. CASE KillSwitch(w)
    <2>1. TypedJob(AfterFill(j)) /\ Goto(w, AfterFill(j))
      BY <1>0, <1>b, <1>c, <1>8, AfterFillTyped DEF KillSwitch, j
    <2> QED
      BY <2>1, <1>8, WorkerMoves
         DEF KillSwitch, WellTyped, TypeOK, PortfolioTypeOK, bookVars, venueVars
  <1>9. CASE Release(w)
    <2> DEFINE done == IF j.stage = "first"
                       THEN [j EXCEPT !.pc = "get", !.holding = FALSE]
                       ELSE [j EXCEPT !.pc = "flatten", !.stage = "flatten", !.holding = FALSE]
    <2>1. /\ j.pc = "release" /\ release_pair(j.copy[YesSided], j.copy[NoSided])
          /\ Goto(w, done)
          /\ UNCHANGED <<cash, exposure, pos, busy, gateVars, working, expired, feed, ticks, venueVars>>
      BY <1>9 DEF Release, ReleasedLegs, j
    <2>2. TypedJob(done)
      BY <1>0, <1>b, <2>1 DEF TypedJob, JobState, PhaseOK, JobReady
    <2>3. reserved' \in [Venues -> Nat]
      BY <1>0, <2>1, PairReservedType DEF WellTyped, TypeOK, PortfolioTypeOK, TypedJob, JobState
    <2> HIDE DEF done
    <2> QED
      BY <2>1, <2>2, <2>3, WorkerMoves
         DEF WellTyped, TypeOK, PortfolioTypeOK, gateVars, venueVars
  <1>10. CASE Flatten(w)
    <2> DEFINE sell == surplusSellIntent(pos[j.market])
    <2>1. /\ j.pc = "flatten"
          /\ \/ Goto(w, [j EXCEPT !.pc = "get", !.sold = TRUE])
             \/ Goto(w, [j EXCEPT !.pc = "get"])
             \/ Goto(w, [j EXCEPT !.pc = "send", !.sell = sell])
          /\ UNCHANGED <<bookVars, busy, gateVars, working, expired, feed, ticks, venueVars>>
      BY <1>10 DEF Flatten, j
    <2>2. sell \in Leg /\ sell.price = 1
      BY <1>b, <2>1, SurplusSellType DEF WellTyped, TypeOK, PortfolioTypeOK
    <2> HIDE DEF sell
    <2>3. TypedJob([j EXCEPT !.pc = "get", !.sold = TRUE])
      BY <1>0, <1>b, <2>1 DEF TypedJob, JobState, PhaseOK, JobReady
    <2>4. TypedJob([j EXCEPT !.pc = "get"])
      BY <1>0, <1>b, <2>1 DEF TypedJob, JobState, PhaseOK, JobReady
    <2>5. TypedJob([j EXCEPT !.pc = "send", !.sell = sell])
      <3> DEFINE k == [j EXCEPT !.pc = "send", !.sell = sell]
      <3>1. k \in JobState
        BY <1>0, <2>2 DEF TypedJob, JobState
      <3>2. /\ k.pc = "send" /\ k.market = j.market /\ k.stage = j.stage
            /\ k.leg = j.leg /\ k.sell = sell
        BY <1>0 DEF TypedJob, JobState
      <3> HIDE DEF k
      <3>3. PhaseOK(k) /\ JobReady(k)
        BY <1>0, <1>b, <2>1, <2>2, <3>2 DEF TypedJob, PhaseOK, JobReady
      <3> QED
        BY <3>1, <3>3 DEF TypedJob, k
    <2> QED
      BY <2>1, <2>3, <2>4, <2>5, <1>a
  <1>11. CASE GetBalance(w)
    <2> DEFINE asked == [j EXCEPT !.pc = "set", !.balance = funds[j.at]]
    <2>1. /\ j.pc = "get" /\ Goto(w, asked)
          /\ UNCHANGED <<bookVars, busy, gateVars, working, expired, feed, ticks, venueVars>>
      BY <1>11 DEF GetBalance, j
    <2>2. funds[j.at] \in Int
      BY <1>0 DEF WellTyped, TypeOK, TypedJob, JobState
    <2>3. TypedJob(asked)
      BY <1>0, <1>b, <2>1, <2>2 DEF TypedJob, JobState, PhaseOK, JobReady
    <2> HIDE DEF asked
    <2> QED
      BY <2>1, <2>3, <1>a
  <1>12. CASE GetBalanceFails(w)
    <2>1. j.pc = "get" /\ Goto(w, NextVenue(j))
      BY <1>12 DEF GetBalanceFails, AfterRefusal, j
    <2>2. TypedJob(NextVenue(j))
      BY <1>0, <2>1, NextVenueTyped
    <2> QED
      BY <2>1, <2>2, <1>a, <1>12 DEF GetBalanceFails
  <1>13. CASE SetBalance(w)
    <2>1. /\ j.pc = "set" /\ Goto(w, NextVenue(j))
          /\ cash' = [cash EXCEPT ![j.at] = j.balance]
          /\ UNCHANGED <<exposure, reserved, pos, busy, gateVars, working, expired, feed,
                         ticks, venueVars>>
      BY <1>13 DEF SetBalance, setCash, j
    <2>2. TypedJob(NextVenue(j))
      BY <1>0, <2>1, NextVenueTyped
    <2>3. cash' \in [Venues -> Int]
      BY <1>0, <2>1 DEF WellTyped, TypeOK, PortfolioTypeOK, TypedJob, JobState
    <2> QED
      BY <2>1, <2>2, <2>3, WorkerMoves
         DEF WellTyped, TypeOK, PortfolioTypeOK, gateVars, venueVars
  <1>14. CASE ClearBusy(w)
    <2>1. /\ Goto(w, [IdleJob EXCEPT !.pc = "end"]) /\ busy' = busy \ {j.market}
          /\ UNCHANGED <<bookVars, gateVars, working, expired, feed, ticks, venueVars>>
      BY <1>14 DEF ClearBusy, j
    <2> QED
      BY <2>1, NewJobsTyped, WorkerMoves
         DEF WellTyped, TypeOK, PortfolioTypeOK, bookVars, gateVars, venueVars
  <1>15. CASE WorkingEnd(w)
    <2>1. /\ Goto(w, IdleJob) /\ working' = IF working > 0 THEN working - 1 ELSE working
          /\ UNCHANGED <<bookVars, busy, gateVars, expired, feed, ticks, venueVars>>
      BY <1>15 DEF WorkingEnd
    <2>2. working' \in Nat
      BY <2>1 DEF WellTyped, TypeOK
    <2> QED
      BY <2>1, <2>2, NewJobsTyped, WorkerMoves
         DEF WellTyped, TypeOK, PortfolioTypeOK, bookVars, gateVars, venueVars
  <1> QED
    BY <1>1, <1>2, <1>3, <1>4, <1>5, <1>6, <1>7, <1>8, <1>9, <1>10, <1>11,
       <1>12, <1>13, <1>14, <1>15 DEF JobStep

\* A feed moves on to a well-formed record; a worker may be started.
LEMMA FeedMoves ==
  ASSUME WellTyped, NEW t \in Feeds, NEW f \in FeedState, FeedReady(f),
         feed' = [feed EXCEPT ![t] = f],
         \/ UNCHANGED job
         \/ \E w \in Workers : \E k : TypedJob(k) /\ job' = [job EXCEPT ![w] = k],
         reserved' \in [Venues -> Nat], busy' \in SUBSET Markets, working' \in Nat,
         ticks' \in Nat, UNCHANGED <<cash, exposure, pos, gateVars, expired, venueVars>>
  PROVE  WellTyped'
  <1>1. feed' \in [Feeds -> FeedState] /\ \A u \in Feeds : FeedReady(feed'[u])
    BY DEF WellTyped, TypeOK, Ready
  <1>2. /\ job' \in [Workers -> JobState]
        /\ \A u \in Workers : PhaseOK(job'[u]) /\ JobReady(job'[u])
    BY DEF WellTyped, TypeOK, Phases, Ready, TypedJob
  <1>3. TypeOK'
    BY <1>1, <1>2 DEF WellTyped, TypeOK, PortfolioTypeOK, gateVars, venueVars
  <1> QED
    BY <1>1, <1>2, <1>3 DEF WellTyped, Phases, Ready

LEMMA IdleFeedTyped == IdleFeed \in FeedState /\ FeedReady(IdleFeed)
  BY NoFillType DEF IdleFeed, FeedState, FeedReady

LEMMA DispatchTyped ==
  ASSUME WellTyped, NEW t \in Feeds, Dispatch(t)
  PROVE  WellTyped'
  <1>0. feed[t] \in FeedState /\ FeedReady(feed[t])
    BY DEF WellTyped, TypeOK, Ready
  <1>t. /\ reserved \in [Venues -> Nat] /\ busy \in SUBSET Markets /\ working \in Nat
        /\ ticks \in Nat
    BY DEF WellTyped, TypeOK, PortfolioTypeOK
  <1> USE DEF bookVars
  <1>1. CASE TryBusyInFlight(t)
    BY <1>t, <1>1, FeedMoves, IdleFeedTyped DEF TryBusyInFlight, FeedReturns
  <1>2. CASE TryBusyPair(t)
    <2> DEFINE f == [feed[t] EXCEPT !.pc = "reserve"]
    <2>1. /\ feed[t].pc = "tryBusy" /\ feed[t].leg # NoIdea
          /\ busy' = busy \cup {feed[t].market}
          /\ feed' = [feed EXCEPT ![t] = f]
          /\ UNCHANGED <<bookVars, gateVars, working, expired, job, ticks, venueVars>>
      BY <1>2 DEF TryBusyPair
    <2>2. f \in FeedState /\ FeedReady(f)
      BY <1>0, <2>1 DEF FeedState, FeedReady
    <2>3. busy' \in SUBSET Markets
      BY <1>0, <1>t, <2>1 DEF FeedReady
    <2> HIDE DEF f
    <2> QED
      BY <1>t, <2>1, <2>2, <2>3, FeedMoves
  <1>3. CASE ReserveFails(t)
    BY <1>t, <1>3, FeedMoves, IdleFeedTyped DEF ReserveFails, FeedReturns
  <1>4. ASSUME NEW w \in Workers, TryBusyFlatten(t, w)
        PROVE  WellTyped'
    <2>1. /\ feed[t].pc = "tryBusy"
          /\ busy' = busy \cup {feed[t].market}
          /\ job' = [job EXCEPT ![w] = FlattenJob(feed[t].market)]
          /\ working' = working + 1
          /\ feed' = [feed EXCEPT ![t] = IdleFeed]
          /\ UNCHANGED <<bookVars, gateVars, expired, ticks, venueVars>>
      BY <1>4 DEF TryBusyFlatten, Spawn, FeedReturns
    <2>2. feed[t].market \in Markets
      BY <1>0, <2>1 DEF FeedReady
    <2>3. TypedJob(FlattenJob(feed[t].market))
      BY <2>2, NewJobsTyped
    <2>4. busy' \in SUBSET Markets /\ working' \in Nat
      BY <1>t, <2>1, <2>2
    <2> QED
      BY <1>t, <2>1, <2>3, <2>4, FeedMoves, IdleFeedTyped
  <1>5. ASSUME NEW w \in Workers, Reserve(t, w)
        PROVE  WellTyped'
    <2> DEFINE leg == feed[t].leg
    <2>1. /\ feed[t].pc = "reserve"
          /\ reserve_pair(leg[YesSided], leg[NoSided])
          /\ job' = [job EXCEPT ![w] = PairJob(feed[t].market, leg)]
          /\ working' = working + 1
          /\ feed' = [feed EXCEPT ![t] = IdleFeed]
          /\ UNCHANGED <<cash, exposure, pos, busy, gateVars, expired, ticks, venueVars>>
      BY <1>5 DEF Reserve, Spawn, FeedReturns
    <2>2. feed[t].market \in Markets /\ leg \in [Sides -> Leg] /\ PairOfBuys(leg)
      BY <1>0, <2>1 DEF FeedReady, FeedState
    <2> HIDE DEF leg
    <2>3. TypedJob(PairJob(feed[t].market, leg))
      BY <2>2, NewJobsTyped
    <2>4. reserved' \in [Venues -> Nat]
      BY <1>t, <2>1, <2>2, PairReservedType
    <2>5. working' \in Nat
      BY <1>t, <2>1
    <2> QED
      BY <1>t, <2>1, <2>3, <2>4, <2>5, FeedMoves, IdleFeedTyped
  <1> QED
    BY <1>1, <1>2, <1>3, <1>4, <1>5 DEF Dispatch

LEMMA TickTyped ==
  ASSUME WellTyped, NEW t \in Feeds, Tick(t)
  PROVE  WellTyped'
  <1>t. /\ reserved \in [Venues -> Nat] /\ busy \in SUBSET Markets /\ working \in Nat
        /\ ticks \in Nat
    BY DEF WellTyped, TypeOK, PortfolioTypeOK
  <1>a. ASSUME NEW m \in Markets, NEW leg \in [Sides -> Leg],
               leg # NoIdea => PairOfBuys(leg), Attempt(t, m, leg), ticks' \in Nat
        PROVE  WellTyped'
    <2> DEFINE f == [pc |-> "tryBusy", market |-> m, leg |-> leg]
    <2>1. f \in FeedState /\ FeedReady(f)
      BY <1>a DEF FeedState, FeedReady
    <2>2. /\ feed' = [feed EXCEPT ![t] = f]
          /\ UNCHANGED <<bookVars, busy, gateVars, working, expired, job, venueVars>>
      BY <1>a DEF Attempt
    <2> HIDE DEF f
    <2> QED
      BY <1>a, <1>t, <2>1, <2>2, FeedMoves DEF bookVars
  <1>1. ASSUME NEW m \in Markets, FlattenTick(t, m)
        PROVE  WellTyped'
    <2>1. Attempt(t, m, NoIdea) /\ ticks' \in Nat
      BY <1>t, <1>1 DEF FlattenTick
    <2> QED
      BY <1>a, <2>1, NoFillType
  <1>2. ASSUME NEW m \in Markets, NEW view \in MarketViews[m], PairTick(t, m, view)
        PROVE  WellTyped'
    <2> DEFINE idea == strategize(view)
               size == approve_pair(idea[YesSided], idea[NoSided], m,
                                    getPortfolio, Limits, killed).size
               leg == [s \in Sides |-> [idea[s] EXCEPT !.size = size]]
    <2>1. idea # NoIdea /\ Attempt(t, m, leg) /\ ticks' = ticks + 1
      BY <1>2 DEF PairTick
    <2>2. idea \in [Sides -> QuotedLeg]
      <3>1. view \in View
        BY <1>2, MarketViewsAssumption
      <3> QED
        BY <2>1, <3>1, StrategizeType
    <2> HIDE DEF idea
    <2>3. size \in Nat
      <3>1. idea[YesSided] \in QuotedLeg /\ idea[NoSided] \in QuotedLeg
        BY <2>2 DEF Sides
      <3>2. pos[m] \in Position
        BY DEF WellTyped, TypeOK, PortfolioTypeOK
      <3>3. BookType(getPortfolio, m)
        BY <3>2 DEF BookType, getPortfolio, WellTyped, TypeOK, PortfolioTypeOK, Position
      <3> QED
        BY <3>1, <3>3, LimitsAssumption, ApprovedSizeType
    <2> HIDE DEF size
    <2>4. \A s \in Sides : /\ [idea[s] EXCEPT !.size = size] \in Leg
                           /\ [idea[s] EXCEPT !.size = size].buy
      <3> TAKE s \in Sides
      <3>1. idea[s] \in QuotedLeg
        BY <2>2
      <3> QED
        BY <2>3, <3>1 DEF QuotedLeg, Leg
    <2>5. leg \in [Sides -> Leg] /\ PairOfBuys(leg)
      BY <2>4 DEF PairOfBuys
    <2>6. ticks' \in Nat
      BY <1>t, <2>1
    <2> HIDE DEF leg
    <2> QED
      BY <1>a, <2>1, <2>5, <2>6
  <1> QED
    BY <1>1, <1>2 DEF Tick

LEMMA InitTyped ==
  ASSUME Init
  PROVE  WellTyped
  <1>1. EmptyPosition \in Position
    BY DEF EmptyPosition, Position
  <1>2. PortfolioTypeOK
    BY <1>1, InitialCashAssumption DEF Init, PortfolioTypeOK
  <1>3. IdleJob \in JobState /\ PhaseOK(IdleJob) /\ JobReady(IdleJob)
    BY NewJobsTyped DEF TypedJob
  <1>a. funds \in [Venues -> Int] /\ owned \in [Markets -> [Sides -> [Venues -> Int]]]
    BY InitialCashAssumption DEF Init
  <1>b. feed \in [Feeds -> FeedState] /\ job \in [Workers -> JobState]
    BY <1>3, IdleFeedTyped DEF Init
  <1>c. killed \in BOOLEAN /\ stopped \in BOOLEAN
    BY Zenon DEF Init
  <1>d. /\ busy \subseteq Markets /\ expired \subseteq Markets
        /\ loss \in Int /\ working \in Nat /\ ticks \in Nat
    BY DEF Init
  <1>4. TypeOK
    BY <1>2, <1>a, <1>b, <1>c, <1>d DEF TypeOK
  <1> QED
    BY <1>3, <1>4, IdleFeedTyped DEF Init, WellTyped, Phases, Ready

LEMMA NextTyped ==
  ASSUME WellTyped, [Next]_vars
  PROVE  WellTyped'
  <1>1. ASSUME NEW t \in Feeds, Tick(t) PROVE WellTyped'
    BY <1>1, TickTyped
  <1>2. ASSUME NEW t \in Feeds, Dispatch(t) PROVE WellTyped'
    BY <1>2, DispatchTyped
  <1>3. ASSUME NEW w \in Workers, JobStep(w) PROVE WellTyped'
    BY <1>3, JobStepTyped
  <1>4. CASE Stop
    BY <1>4 DEF Stop, WellTyped, TypeOK, PortfolioTypeOK, Phases, Ready, bookVars, venueVars
  <1>5. ASSUME NEW m \in Markets, Expire(m) PROVE WellTyped'
    BY <1>5 DEF Expire, WellTyped, TypeOK, PortfolioTypeOK, Phases, Ready, bookVars,
                gateVars, venueVars
  <1>6. CASE UNCHANGED vars
    BY <1>6 DEF vars, WellTyped, TypeOK, PortfolioTypeOK, Phases, Ready, bookVars,
                gateVars, venueVars
  <1> QED
    BY <1>1, <1>2, <1>3, <1>4, <1>5, <1>6 DEF Next, QuietTick

(* Every variable keeps its type: cents stay integers, counts and reservations
   never go below zero, and the thread tables stay well-formed. *)
THEOREM TypesHold == Spec => []TypeOK
  <1>1. Init => WellTyped
    BY InitTyped
  <1>2. WellTyped /\ [Next]_vars => WellTyped'
    BY NextTyped
  <1>3. WellTyped => TypeOK
    BY DEF WellTyped
  <1> QED
    BY <1>1, <1>2, <1>3, PTL DEF Spec

-----------------------------------------------------------------------------
(* The live path implements MarketLock: every step takes, passes or releases
   one market, or leaves the holders as they are. *)

LockInv == WellTyped /\ Shape /\ OneOwner

LEMMA LockInvInit == Init => LockInv
  <1> SUFFICES ASSUME Init PROVE LockInv
    OBVIOUS
  <1>1. JobFields \subseteq DOMAIN IdleJob /\ IdleJob.pc = "idle"
    BY NewJobs
  <1>2. Shape /\ OneOwner
    BY <1>1 DEF Init, Shape, OneOwner, OneJobPerMarket, Active, IdleFeed
  <1> QED
    BY <1>2, InitTyped DEF LockInv

LEMMA LockInvNext == LockInv /\ [Next]_vars => LockInv'
  <1> SUFFICES ASSUME LockInv, [Next]_vars PROVE LockInv'
    OBVIOUS
  <1> USE DEF LockInv
  <1>1. WellTyped' /\ Phases
    BY NextTyped DEF WellTyped
  <1>2. ASSUME NEW t \in Feeds, Tick(t) PROVE LockInv'
    BY <1>1, <1>2, TickKeepsOwners
  <1>3. ASSUME NEW t \in Feeds, Dispatch(t) PROVE LockInv'
    BY <1>1, <1>3, DispatchKeepsOwners
  <1>4. ASSUME NEW w \in Workers, JobStep(w) PROVE LockInv'
    BY <1>1, <1>4, JobStepKeepsOwners
  <1>5. CASE UNCHANGED <<feed, job, busy>>
    BY <1>1, <1>5 DEF Shape, OneOwner, OneJobPerMarket, Active
  <1> QED
    BY <1>2, <1>3, <1>4, <1>5 DEF Next, QuietTick, Stop, Expire, vars

-----------------------------------------------------------------------------
(* Holders *)

LEMMA HoldersMember ==
  \A m \in Markets : \A p :
    p \in lockHolders[m] <=>
      \/ p \in Feeds /\ feed[p].pc = "reserve" /\ feed[p].market = m
      \/ p \in Workers /\ job[p].pc \notin {"idle", "end"} /\ job[p].market = m
  BY DEF lockHolders, ActiveOn, Active

LEMMA HoldersMemberNext ==
  \A m \in Markets : \A p :
    p \in lockHolders'[m] <=>
      \/ p \in Feeds /\ feed'[p].pc = "reserve" /\ feed'[p].market = m
      \/ p \in Workers /\ job'[p].pc \notin {"idle", "end"} /\ job'[p].market = m
  BY DEF lockHolders, ActiveOn, Active

\* A market whose flag is off has no holder.
LEMMA FreeMarket ==
  ASSUME LockInv, NEW m \in Markets \ busy
  PROVE  lockHolders[m] = {}
  BY HoldersMember DEF LockInv, OneOwner, Active

\* A market a feed reserves for has no other holder.
LEMMA ReservedMarket ==
  ASSUME LockInv, NEW t \in Feeds, feed[t].pc = "reserve", feed[t].market \in Markets
  PROVE  lockHolders[feed[t].market] = {t}
  BY HoldersMember DEF LockInv, OneOwner, Active

\* Nor has the market of an active worker.
LEMMA WorkedMarket ==
  ASSUME LockInv, NEW w \in Workers, Active(w), job[w].market \in Markets
  PROVE  lockHolders[job[w].market] = {w}
  BY HoldersMember DEF LockInv, OneOwner, OneJobPerMarket, Active

\* Feeds that do not reserve and workers that are not active hold nothing.
LEMMA IdleHoldsNothing ==
  ASSUME NEW p, p \in Feeds => feed[p].pc # "reserve", p \in Workers => ~Active(p)
  PROVE  ~Lock!Holding(p)
  BY HoldersMember DEF Lock!Holding, Active

\* Holders are a function on the markets, so they are compared market by market.
LEMMA HoldersUpdate ==
  ASSUME NEW m \in Markets, NEW S,
         \A p : p \in lockHolders'[m] <=> p \in S,
         \A n \in Markets \ {m} : \A p : p \in lockHolders'[n] <=> p \in lockHolders[n]
  PROVE  lockHolders' = [lockHolders EXCEPT ![m] = S]
  <1>0. \A n \in Markets : lockHolders'[n] = IF n = m THEN S ELSE lockHolders[n]
    OBVIOUS
  <1>1. DOMAIN lockHolders = Markets /\ DOMAIN lockHolders' = Markets
    BY DEF lockHolders
  <1>2. lockHolders' = [n \in Markets |-> lockHolders'[n]]
    BY DEF lockHolders
  <1>3. lockHolders = [n \in Markets |-> lockHolders[n]]
    BY DEF lockHolders
  <1> QED
    BY <1>0, <1>1, <1>2, <1>3

LEMMA HoldersSame ==
  ASSUME \A n \in Markets : \A p : p \in lockHolders'[n] <=> p \in lockHolders[n]
  PROVE  lockHolders' = lockHolders
  <1>0. \A n \in Markets : lockHolders'[n] = lockHolders[n]
    OBVIOUS
  <1>1. lockHolders' = [n \in Markets |-> lockHolders'[n]]
    BY DEF lockHolders
  <1>2. lockHolders = [n \in Markets |-> lockHolders[n]]
    BY DEF lockHolders
  <1> QED
    BY <1>0, <1>1, <1>2

-----------------------------------------------------------------------------
(* Steps *)

LEMMA TickHolds ==
  ASSUME LockInv, NEW t \in Feeds, Tick(t)
  PROVE  lockHolders' = lockHolders
  <1>1. PICK m, leg : Attempt(t, m, leg)
    BY DEF Tick, FlattenTick, PairTick
  <1>2. feed[t].pc = "idle"
    BY DEF Tick, FlattenTick, PairTick, CanTick
  <1>3. \A n \in Markets : \A p : p \in lockHolders'[n] <=> p \in lockHolders[n]
    BY <1>1, <1>2, HoldersMember, HoldersMemberNext DEF Attempt, LockInv, Shape
  <1> QED
    BY <1>3, HoldersSame

LEMMA DispatchHolds ==
  ASSUME LockInv, NEW t \in Feeds, Dispatch(t)
  PROVE  Lock!Next \/ UNCHANGED lockHolders
  <1> DEFINE m == feed[t].market
  <1>0. feed[t].pc # "idle" /\ m \in Markets /\ IdleFeed.pc = "idle"
    BY DEF Dispatch, TryBusyInFlight, TryBusyPair, ReserveFails, TryBusyFlatten, Reserve,
           LockInv, WellTyped, Ready, FeedReady, IdleFeed
  <1>t. t \notin Workers /\ \A w \in Workers : w \notin Feeds
    BY ThreadsAssumption
  <1>s. DOMAIN feed = Feeds /\ DOMAIN job = Workers /\ {"pc", "market"} \subseteq DOMAIN feed[t]
    BY DEF LockInv, Shape
  <1> HIDE DEF m
  <1>1. CASE TryBusyInFlight(t)
    <2>1. feed[t].pc = "tryBusy" /\ feed' = [feed EXCEPT ![t] = IdleFeed] /\ job' = job
      BY <1>1 DEF TryBusyInFlight, FeedReturns
    <2>2. \A n \in Markets : \A p : p \in lockHolders'[n] <=> p \in lockHolders[n]
      BY <2>1, <1>0, <1>s, HoldersMember, HoldersMemberNext
    <2> QED
      BY <2>2, HoldersSame
  <1>2. CASE TryBusyPair(t)
    <2>1. /\ feed[t].pc = "tryBusy" /\ m \notin busy /\ job' = job
          /\ feed' = [feed EXCEPT ![t].pc = "reserve"] /\ feed[t].market = m
      BY <1>2 DEF TryBusyPair, TakesBusy, m
    <2>2. lockHolders[m] = {} /\ ~Lock!Holding(t)
      BY <2>1, <1>0, <1>t, FreeMarket, IdleHoldsNothing
    <2>3. /\ feed'[t].pc = "reserve" /\ feed'[t].market = m
          /\ \A u \in Feeds \ {t} : feed'[u] = feed[u]
      BY <2>1, <1>s
    <2>4. \A p : p \in lockHolders'[m] <=> p \in {t}
      BY <2>1, <2>2, <2>3, <1>0, <1>t, HoldersMember, HoldersMemberNext
    <2>5. \A n \in Markets \ {m} : \A p : p \in lockHolders'[n] <=> p \in lockHolders[n]
      BY <2>1, <2>3, HoldersMember, HoldersMemberNext
    <2> QED
      BY <2>2, <2>4, <2>5, <1>0, HoldersUpdate DEF Lock!Next, Lock!Take
  <1>3. CASE ReserveFails(t)
    <2>1. /\ feed[t].pc = "reserve" /\ feed[t].market = m
          /\ feed' = [feed EXCEPT ![t] = IdleFeed] /\ job' = job
      BY <1>3 DEF ReserveFails, FeedReturns, m
    <2>2. lockHolders[m] = {t}
      BY <2>1, <1>0, ReservedMarket
    <2>3. feed'[t].pc = "idle" /\ \A u \in Feeds \ {t} : feed'[u] = feed[u]
      BY <2>1, <1>0, <1>s
    <2>4. \A p : p \in lockHolders'[m] <=> p \in {}
      BY <2>1, <2>2, <2>3, <1>0, <1>t, HoldersMember, HoldersMemberNext
    <2>5. \A n \in Markets \ {m} : \A p : p \in lockHolders'[n] <=> p \in lockHolders[n]
      BY <2>1, <2>3, HoldersMember, HoldersMemberNext
    <2> QED
      BY <2>2, <2>4, <2>5, <1>0, HoldersUpdate DEF Lock!Next, Lock!Release
  <1>4. ASSUME NEW w \in Workers, TryBusyFlatten(t, w)
        PROVE  Lock!Next
    <2>1. /\ feed[t].pc = "tryBusy" /\ m \notin busy /\ job[w].pc = "idle"
          /\ feed' = [feed EXCEPT ![t] = IdleFeed]
          /\ job' = [job EXCEPT ![w] = FlattenJob(m)]
      BY <1>4 DEF TryBusyFlatten, TakesBusy, Spawn, FeedReturns, m
    <2>2. lockHolders[m] = {} /\ ~Lock!Holding(w)
      BY <2>1, <1>0, <1>t, FreeMarket, IdleHoldsNothing DEF Active
    <2>3. /\ feed'[t].pc = "idle" /\ \A u \in Feeds \ {t} : feed'[u] = feed[u]
          /\ job'[w].pc = "flatten" /\ job'[w].market = m
          /\ \A u \in Workers \ {w} : job'[u] = job[u]
      BY <2>1, <1>0, <1>s, NewJobs
    <2>4. \A p : p \in lockHolders'[m] <=> p \in {w}
      BY <2>1, <2>2, <2>3, <1>0, <1>t, HoldersMember, HoldersMemberNext
    <2>5. \A n \in Markets \ {m} : \A p : p \in lockHolders'[n] <=> p \in lockHolders[n]
      BY <2>1, <2>3, HoldersMember, HoldersMemberNext
    <2> QED
      BY <2>2, <2>4, <2>5, <1>0, HoldersUpdate DEF Lock!Next, Lock!Take
  <1>5. ASSUME NEW w \in Workers, Reserve(t, w)
        PROVE  Lock!Next
    <2>1. /\ feed[t].pc = "reserve" /\ feed[t].market = m /\ job[w].pc = "idle"
          /\ feed' = [feed EXCEPT ![t] = IdleFeed]
          /\ job' = [job EXCEPT ![w] = PairJob(m, feed[t].leg)]
      BY <1>5 DEF Reserve, Spawn, FeedReturns, m
    <2>2. lockHolders[m] = {t} /\ ~Lock!Holding(w)
      BY <2>1, <1>0, <1>t, ReservedMarket, IdleHoldsNothing DEF Active
    <2>3. /\ feed'[t].pc = "idle" /\ \A u \in Feeds \ {t} : feed'[u] = feed[u]
          /\ job'[w].pc = "send" /\ job'[w].market = m
          /\ \A u \in Workers \ {w} : job'[u] = job[u]
      BY <2>1, <1>0, <1>s, NewJobs
    <2>4. \A p : p \in lockHolders'[m] <=> p \in {w}
      BY <2>1, <2>2, <2>3, <1>0, <1>t, HoldersMember, HoldersMemberNext
    <2>5. \A n \in Markets \ {m} : \A p : p \in lockHolders'[n] <=> p \in lockHolders[n]
      BY <2>1, <2>3, HoldersMember, HoldersMemberNext
    <2> QED
      BY <2>2, <2>4, <2>5, <1>0, HoldersUpdate DEF Lock!Next, Lock!Pass
  <1> QED
    BY <1>1, <1>2, <1>3, <1>4, <1>5 DEF Dispatch

LEMMA JobStepHoldsMarket ==
  ASSUME LockInv, NEW w \in Workers, JobStep(w)
  PROVE  Lock!Next \/ UNCHANGED lockHolders
  <1>s. DOMAIN job = Workers /\ w \notin Feeds
    BY ThreadsAssumption DEF LockInv, Shape
  <1>1. CASE ClearBusy(w)
    <2> DEFINE m == job[w].market
               ended == [IdleJob EXCEPT !.pc = "end"]
    <2>1. Active(w) /\ job' = [job EXCEPT ![w] = ended] /\ feed' = feed
      BY <1>1 DEF ClearBusy, Goto, Active
    <2>2. m \in Markets /\ ended.pc = "end"
      BY <2>1, NewJobs DEF LockInv, WellTyped, Ready, JobReady, Active, JobFields
    <2>3. lockHolders[m] = {w}
      BY <2>1, <2>2, WorkedMarket
    <2> HIDE DEF ended
    <2>4. job'[w].pc = "end" /\ \A u \in Workers \ {w} : job'[u] = job[u]
      BY <2>1, <2>2, <1>s
    <2>5. \A p : p \in lockHolders'[m] <=> p \in {}
      BY <2>1, <2>2, <2>3, <2>4, <1>s, HoldersMember, HoldersMemberNext
    <2>6. \A n \in Markets \ {m} : \A p : p \in lockHolders'[n] <=> p \in lockHolders[n]
      BY <2>1, <2>4, HoldersMember, HoldersMemberNext
    <2> QED
      BY <2>2, <2>3, <2>5, <2>6, HoldersUpdate DEF Lock!Next, Lock!Release
  <1>2. CASE WorkingEnd(w)
    <2>1. job[w].pc = "end" /\ job' = [job EXCEPT ![w] = IdleJob] /\ feed' = feed
      BY <1>2 DEF WorkingEnd, Goto
    <2>2. \A n \in Markets : \A p : p \in lockHolders'[n] <=> p \in lockHolders[n]
      BY <2>1, <1>s, NewJobs, HoldersMember, HoldersMemberNext
    <2> QED
      BY <2>2, HoldersSame
  <1>3. CASE ~ClearBusy(w) /\ ~WorkingEnd(w)
    <2>1. /\ Active(w) /\ job' = [job EXCEPT ![w] = job'[w]]
          /\ StillRunning(job[w], job'[w]) /\ feed' = feed
      BY <1>3, JobStepStillRunning DEF LockInv, WellTyped
    <2>2. \A n \in Markets : \A p : p \in lockHolders'[n] <=> p \in lockHolders[n]
      BY <2>1, <1>s, HoldersMember, HoldersMemberNext DEF Active, StillRunning
    <2> QED
      BY <2>2, HoldersSame
  <1> QED
    BY <1>1, <1>2, <1>3

(* The live order path implements the abstract lock: at every moment at most
   one thread, a feed that reserves or the worker it started, has a market
   (live_busy.hpp:5, main.cpp:340, 389, 187, 300, 308). *)
THEOREM LocksRefinedHolds == Spec => LocksRefined
  <1>1. Init => Lock!Init
    <2> SUFFICES ASSUME Init PROVE lockHolders = [m \in Markets |-> {}]
      BY DEF Lock!Init
    <2>1. IdleJob.pc = "idle"
      BY NewJobs
    <2>2. \A m \in Markets : \A p : p \notin lockHolders[m]
      BY <2>1, HoldersMember DEF Init, IdleFeed
    <2>3. \A m \in Markets : lockHolders[m] = {}
      BY <2>2
    <2> QED
      BY <2>3 DEF lockHolders
  <1>2. LockInv /\ [Next]_vars => [Lock!Next]_lockHolders
    <2> SUFFICES ASSUME LockInv, [Next]_vars PROVE Lock!Next \/ UNCHANGED lockHolders
      OBVIOUS
    <2>1. ASSUME NEW t \in Feeds, Tick(t) PROVE UNCHANGED lockHolders
      BY <2>1, TickHolds
    <2>2. CASE UNCHANGED <<feed, job>>
      BY <2>2 DEF lockHolders, ActiveOn, Active
    <2> QED
      BY <2>1, <2>2, DispatchHolds, JobStepHoldsMarket DEF Next, QuietTick, Stop, Expire, vars
  <1> QED
    BY <1>1, <1>2, LockInvInit, LockInvNext, PTL DEF Spec, LocksRefined, Lock!Spec

-----------------------------------------------------------------------------
(* The edge of a pair: what is looked at before an order is sent still holds
   when the fill is booked, because nobody else touches the legs of a job. *)

(* At one-contract fees, the prices of the two legs leave chase_reserve. *)
KeepsEdge(leg) ==
  pairCost(leg[YesSided], leg[NoSided], 1) <= kDollarCents - Limits.chase_reserve

LegsAt(leg, side, price) == [leg EXCEPT ![side] = [leg[side] EXCEPT !.price = price]]

(* What the prices of a job's legs are worth.  The ceiling is looked at before
   an order is sent, against the price of the other leg at that moment; once
   the first leg is filled that price is final, so the ceiling of the second
   leg speaks of the pair that is bought. *)
EdgeOf(j) ==
  /\ j.stage \in {"first", "second"} => Priced(j.leg)
  /\ j.stage \in {"first", "second"} /\ j.pc = "apply" => j.fill.price >= 1
  /\ j.stage = "second" /\ j.pc = "apply" => KeepsEdge(LegsAt(j.leg, Turn(j), j.fill.price))
  /\ BothFilled(j) /\ j.pc \notin {"idle", "end"} => KeepsEdge(j.leg)

EdgeInv ==
  /\ \A w \in Workers : EdgeOf(job[w])
  /\ \A t \in Feeds : feed[t].leg # NoIdea => Priced(feed[t].leg)

LEMMA EdgeIsPairCost ==
  ASSUME NEW leg \in [Sides -> Leg], NEW side \in Sides, NEW price \in Int,
         edgeAt(price, leg[side].venue, leg[OtherSide(side)].price, leg[OtherSide(side)].venue)
           >= Limits.chase_reserve
  PROVE  KeepsEdge(LegsAt(leg, side, price))
  <1> DEFINE that == OtherSide(side)
             this == [leg[side] EXCEPT !.price = price]
             a == takerFee(leg[side].venue, price, 1)
             b == takerFee(leg[that].venue, leg[that].price, 1)
  <1>1. \/ side = YesSided /\ that = NoSided
        \/ side = NoSided /\ that = YesSided
    BY DEF Sides, OtherSide, YesSided, NoSided
  <1>2. YesSided # NoSided /\ leg[side] \in Leg /\ leg[that] \in Leg
    BY <1>1 DEF Sides, YesSided, NoSided
  <1>3. LegsAt(leg, side, price)[side] = this /\ LegsAt(leg, side, price)[that] = leg[that]
    BY <1>1, <1>2 DEF LegsAt
  <1>4. legCost(this, 1) = price + a /\ legCost(leg[that], 1) = leg[that].price + b
    BY <1>2 DEF legCost, Leg
  <1>5. a \in Int /\ b \in Int /\ leg[that].price \in Int /\ Limits.chase_reserve \in Int
    BY <1>2, TakerFeeType, LimitsAssumption DEF Leg, RiskLimits
  <1>6. kDollarCents - price - a - leg[that].price - b >= Limits.chase_reserve
    BY DEF edgeAt
  <1> HIDE DEF that, this, a, b
  <1> QED
    BY <1>1, <1>3, <1>4, <1>5, <1>6 DEF KeepsEdge, pairCost, kDollarCents

\* A leg that is moved to a price of a cent or more.
LEMMA PricedStays ==
  ASSUME NEW leg \in [Sides -> Leg], Priced(leg), NEW side \in Sides, NEW price \in Int, price >= 1
  PROVE  Priced(LegsAt(leg, side, price))
  BY DEF Priced, LegsAt, Leg

LEMMA AfterNoFillEdge ==
  ASSUME NEW j, TypedJob(j), j.stage # "done", j.stage \in {"first", "second"} => Priced(j.leg)
  PROVE  EdgeOf(AfterNoFill(j))
  <1>1. j \in JobState
    BY DEF TypedJob
  <1>2. CASE j.stage = "flatten"
    BY <1>1, <1>2 DEF AfterNoFill, AfterMiss, EdgeOf, BothFilled, JobState
  <1>3. CASE j.stage # "flatten"
    <2> DEFINE missed == [j EXCEPT !.pc = "send", !.fill = NoFill]
               side == Turn(missed)
               price == nextChasePrice(j.leg[side].price)
               bumped == [missed EXCEPT !.leg[side].price = nextChasePrice(@), !.tries = @ + 1]
    <2>1. j.stage \in {"first", "second"} /\ Priced(j.leg)
      BY <1>3 DEF TypedJob, PhaseOK
    <2>2. side \in Sides
      BY TurnType
    <2> HIDE DEF side
    <2>3. j.leg \in [Sides -> Leg] /\ j.leg[side] \in Leg /\ price \in Int /\ price >= 1
      BY <1>1, <2>1, <2>2 DEF JobState, Leg, nextChasePrice, Priced
    <2>4. /\ bumped.stage = j.stage /\ bumped.pc = "send"
          /\ bumped.leg = LegsAt(j.leg, side, price)
      BY <1>1 DEF JobState, LegsAt
    <2>5. Priced(bumped.leg)
      BY <2>1, <2>2, <2>3, <2>4, PricedStays
    <2> DEFINE done == [missed EXCEPT !.pc = "release"]
    <2>6. done.stage = j.stage /\ done.pc = "release" /\ done.leg = j.leg
      BY <1>1 DEF JobState
    <2>7. AfterNoFill(j) = bumped \/ AfterNoFill(j) = done
      <3>1. missed.stage = j.stage
        BY <1>1 DEF JobState
      <3> QED
        BY <1>3, <3>1 DEF AfterNoFill, AfterMiss, Turn, side
    <2> HIDE DEF bumped, done, price
    <2> QED
      BY <2>1, <2>4, <2>5, <2>6, <2>7 DEF EdgeOf, BothFilled
  <1> QED
    BY <1>2, <1>3

LEMMA AfterFillEdge ==
  ASSUME NEW j, TypedJob(j), j.stage # "done", j.stage \in {"first", "second"} => Priced(j.leg),
         j.stage = "second" => KeepsEdge(j.leg)
  PROVE  EdgeOf(AfterFill(j))
  <1>1. j \in JobState /\ j.stage \in {"first", "second", "flatten"}
    BY DEF TypedJob, PhaseOK
  <1>2. CASE j.stage = "first"
    BY <1>1, <1>2 DEF AfterFill, EdgeOf, BothFilled, JobState
  <1>3. CASE j.stage = "second"
    BY <1>1, <1>3 DEF AfterFill, EdgeOf, BothFilled, JobState
  <1>4. CASE j.stage = "flatten"
    BY <1>1, <1>4 DEF AfterFill, EdgeOf, BothFilled, JobState
  <1> QED
    BY <1>1, <1>2, <1>3, <1>4

-----------------------------------------------------------------------------
(* Steps *)

\* A buy is filled at its price or cheaper, whatever the reply says.
LEMMA BuyFilledWithin ==
  ASSUME NEW leg \in Leg, leg.buy, leg.price >= 1, NEW market, NEW f \in VenueFills(market, leg),
         NEW reported \in ReportedPrices(f)
  PROVE  LET price == takeReportedFill(f, reported, leg).price
         IN  price \in Int /\ price >= 1 /\ price <= leg.price
  <1>1. f \in Leg /\ f.price \in Prices /\ f.price <= leg.price
    BY VenueFillsType
  <1>2. reported \in {f.price, 0}
    BY DEF ReportedPrices
  <1>3. FallbackPrice(leg) = leg.price /\ leg.price \in Int
    BY DEF FallbackPrice, Leg
  <1> QED
    BY <1>1, <1>2, <1>3 DEF takeReportedFill, Leg, Prices

LEMMA SendFilledEdge ==
  ASSUME WellTyped, NEW w \in Workers, EdgeOf(job[w]), SendFilled(w)
  PROVE  \E k : Goto(w, k) /\ EdgeOf(k)
  <1> DEFINE j == job[w]
             order == Order(j)
  <1>0. TypedJob(j) /\ j \in JobState
    BY DEF WellTyped, TypeOK, Phases, Ready, TypedJob
  <1>1. j.pc = "send" /\ MaySend(j) /\ j.stage # "done"
    BY <1>0 DEF SendFilled, TypedJob, PhaseOK
  <1>2. PICK f \in VenueFills(j.market, order) : \E reported \in ReportedPrices(f) :
          Goto(w, [j EXCEPT !.pc = "apply", !.fill = takeReportedFill(f, reported, order)])
    BY DEF SendFilled
  <1>3. PICK reported \in ReportedPrices(f) :
          Goto(w, [j EXCEPT !.pc = "apply", !.fill = takeReportedFill(f, reported, order)])
    BY <1>2
  <1> DEFINE fill == takeReportedFill(f, reported, order)
             k == [j EXCEPT !.pc = "apply", !.fill = fill]
  <1>4. k.pc = "apply" /\ k.fill = fill /\ k.stage = j.stage /\ k.leg = j.leg
    BY <1>0 DEF JobState
  <1>5. CASE j.stage = "flatten"
    BY <1>3, <1>4, <1>5 DEF EdgeOf, BothFilled
  <1>6. CASE j.stage # "flatten"
    <2> DEFINE this == Turn(j)
               that == OtherSide(this)
    <2>1. j.stage \in {"first", "second"} /\ Priced(j.leg) /\ PairOfBuys(j.leg)
      BY <1>0, <1>1, <1>6 DEF TypedJob, PhaseOK, JobReady, EdgeOf
    <2>2. this \in Sides /\ that \in Sides /\ j.leg \in [Sides -> Leg]
      BY <1>0, TurnType DEF OtherSide, Sides, JobState
    <2>3. /\ order = j.leg[this] /\ order \in Leg /\ order.buy /\ order.price >= 1
          /\ j.leg[that] \in Leg
      BY <1>6, <2>1, <2>2 DEF Order, Priced, PairOfBuys
    <2>4. fill.price \in Int /\ fill.price >= 1 /\ fill.price <= order.price
      BY <2>3, BuyFilledWithin
    <2>5. order.price <= Ceiling(j)
      BY <1>1, <1>6 DEF MaySend
    <2>6. Ceiling(j) = chaseCeiling(j.leg[that].price, j.leg[that].venue, j.leg[this].venue,
                                    Limits.chase_reserve)
      BY DEF Ceiling
    <2>7. Ceiling(j) \in Int
      <3>1. Limits.chase_reserve \in Int /\ j.leg[that].price \in Int
        BY <2>3, LimitsAssumption DEF RiskLimits, Leg
      <3> QED
        BY <2>6, <3>1, CeilingIs
    <2> HIDE DEF fill, order, this, that
    <2>8. edgeAt(fill.price, j.leg[this].venue, j.leg[that].price, j.leg[that].venue)
            >= Limits.chase_reserve
      <3>1. Limits.chase_reserve \in Int /\ j.leg[that].price \in Int /\ order.price \in Int
        BY <2>3, LimitsAssumption DEF RiskLimits, Leg
      <3>2. fill.price <= chaseCeiling(j.leg[that].price, j.leg[that].venue, j.leg[this].venue,
                                       Limits.chase_reserve)
        BY <2>4, <2>5, <2>6, <2>7, <3>1
      <3> QED
        BY <2>4, <3>1, <3>2, CeilingKeepsEdge
    <2>9. KeepsEdge(LegsAt(j.leg, this, fill.price))
      BY <2>2, <2>4, <2>8, EdgeIsPairCost DEF that
    <2>10. Turn(k) = this
      BY <1>4 DEF Turn, this
    <2> HIDE DEF k
    <2> QED
      BY <1>3, <1>4, <2>1, <2>4, <2>9, <2>10 DEF EdgeOf, BothFilled, k, fill, order
  <1> QED
    BY <1>5, <1>6

LEMMA ApplyFillEdge ==
  ASSUME WellTyped, NEW w \in Workers, EdgeOf(job[w]), ApplyFill(w)
  PROVE  \E k : Goto(w, k) /\ EdgeOf(k)
  <1> DEFINE j == job[w]
             side == Turn(j)
             price == j.fill.price
             priced == IF j.stage = "flatten" THEN j
                       ELSE [j EXCEPT !.leg[side].price = price]
             noted == [priced EXCEPT !.pc = "note"]
  <1>0. TypedJob(j) /\ j \in JobState
    BY DEF WellTyped, TypeOK, Phases, Ready, TypedJob
  <1>1. /\ j.pc = "apply" /\ j.stage # "done"
        /\ \/ Goto(w, AfterNoFill(priced))
           \/ Goto(w, AfterFill(priced))
           \/ Goto(w, noted)
    BY <1>0 DEF ApplyFill, TypedJob, PhaseOK
  <1>2. side \in Sides /\ price \in Int /\ j.leg \in [Sides -> Leg]
    BY <1>0, TurnType DEF JobState, Leg
  <1> HIDE DEF side, price
  <1>3. /\ TypedJob(priced) /\ priced.stage = j.stage
        /\ j.stage # "flatten" => priced.leg = LegsAt(j.leg, side, price)
    <2>1. CASE j.stage = "flatten"
      BY <1>0, <2>1
    <2>2. CASE j.stage # "flatten"
      <3> DEFINE moved == [j EXCEPT !.leg[side].price = price]
      <3>1. moved \in JobState
        BY <1>0, <1>2, PricedLegType
      <3>2. /\ moved.stage = j.stage /\ moved.pc = j.pc /\ moved.market = j.market
            /\ moved.sell = j.sell /\ moved.fill = j.fill
            /\ moved.leg = LegsAt(j.leg, side, price)
        BY <1>0 DEF JobState, LegsAt
      <3>3. j.stage \in {"first", "second"} => PairOfBuys(moved.leg)
        BY <1>0, <1>2, PricedLegBuys DEF TypedJob, JobReady
      <3>4. priced = moved
        BY <2>2
      <3> HIDE DEF moved, priced
      <3> QED
        BY <1>0, <3>1, <3>2, <3>3, <3>4 DEF TypedJob, PhaseOK, JobReady
    <2> QED
      BY <2>1, <2>2
  <1> HIDE DEF priced
  <1>4. priced.stage \in {"first", "second"} => Priced(priced.leg)
    BY <1>1, <1>2, <1>3, PricedStays DEF EdgeOf, price
  <1>5. priced.stage = "second" => KeepsEdge(priced.leg)
    BY <1>1, <1>3 DEF EdgeOf, side, price
  <1>6. EdgeOf(AfterNoFill(priced)) /\ EdgeOf(AfterFill(priced))
    BY <1>1, <1>3, <1>4, <1>5, AfterNoFillEdge, AfterFillEdge
  <1>7. EdgeOf(noted)
    <2>1. noted.pc = "note" /\ noted.stage = priced.stage /\ noted.leg = priced.leg
      BY <1>3 DEF TypedJob, JobState
    <2> HIDE DEF noted
    <2> QED
      BY <1>1, <1>3, <1>4, <1>5, <2>1 DEF EdgeOf, BothFilled
  <1> QED
    BY <1>1, <1>6, <1>7

LEMMA JobStepEdge ==
  ASSUME WellTyped, NEW w \in Workers, EdgeOf(job[w]), JobStep(w)
  PROVE  \E k : Goto(w, k) /\ EdgeOf(k)
  <1> DEFINE j == job[w]
  <1>0. TypedJob(j) /\ j \in JobState
    BY DEF WellTyped, TypeOK, Phases, Ready, TypedJob
  <1>s. j.pc \in {"send", "apply", "note", "halt"} => j.stage # "done"
    BY <1>0 DEF TypedJob, PhaseOK
  <1>p. j.stage \in {"first", "second"} => Priced(j.leg)
    BY DEF EdgeOf
  <1> HIDE DEF j
  <1>1. CASE SendGivesUp(w)
    <2> DEFINE k == [j EXCEPT !.pc = "release"]
    <2>1. Goto(w, k) /\ j.stage # "done"
      BY <1>1, <1>s DEF SendGivesUp, MaySend, AfterMiss, j
    <2>2. k.pc = "release" /\ k.stage = j.stage /\ k.leg = j.leg
      BY <1>0 DEF JobState
    <2> HIDE DEF k
    <2> QED
      BY <1>p, <2>1, <2>2 DEF EdgeOf, BothFilled
  <1>2. CASE SendMissed(w) \/ SendLost(w)
    <2>1. j.pc = "send" /\ Goto(w, AfterNoFill(j))
      BY <1>2 DEF SendMissed, SendLost, j
    <2> QED
      BY <1>0, <1>s, <1>p, <2>1, AfterNoFillEdge
  <1>3. CASE NoteFill(w) \/ NoteFillTooLate(w) \/ KillSwitch(w)
    <2> DEFINE k == [j EXCEPT !.pc = "halt"]
    <2>1. /\ j.pc \in {"note", "halt"}
          /\ Goto(w, AfterFill(j)) \/ Goto(w, k)
      BY <1>3 DEF NoteFill, AfterNote, NoteFillTooLate, KillSwitch, j
    <2>2. j.stage = "second" => KeepsEdge(j.leg)
      BY <2>1 DEF EdgeOf, BothFilled, j
    <2>3. EdgeOf(AfterFill(j))
      BY <1>0, <1>s, <1>p, <2>1, <2>2, AfterFillEdge
    <2>4. k.pc = "halt" /\ k.stage = j.stage /\ k.leg = j.leg
      BY <1>0 DEF JobState
    <2> HIDE DEF k
    <2>5. EdgeOf(k)
      BY <1>s, <1>p, <2>1, <2>2, <2>4 DEF EdgeOf, BothFilled
    <2> QED
      BY <2>1, <2>3, <2>5
  <1>4. CASE Release(w)
    <2> DEFINE k1 == [j EXCEPT !.pc = "get", !.holding = FALSE]
               k2 == [j EXCEPT !.pc = "flatten", !.stage = "flatten", !.holding = FALSE]
    <2>1. (Goto(w, k1) /\ j.stage = "first") \/ Goto(w, k2)
      BY <1>4 DEF Release, j
    <2>2. k1.pc = "get" /\ k1.stage = j.stage /\ k1.leg = j.leg /\ k2.stage = "flatten"
      BY <1>0 DEF JobState
    <2> HIDE DEF k1, k2
    <2> QED
      BY <1>p, <2>1, <2>2 DEF EdgeOf, BothFilled
  <1>5. CASE Flatten(w)
    <2>1. PICK k : Goto(w, k) /\ k.stage = "flatten"
      <3> DEFINE k1 == [j EXCEPT !.pc = "get", !.sold = TRUE]
                 k2 == [j EXCEPT !.pc = "send", !.sell = surplusSellIntent(pos[j.market])]
      <3>1. (Goto(w, k1) \/ Goto(w, k2)) /\ j.stage = "flatten"
        BY <1>0, <1>5 DEF Flatten, TypedJob, PhaseOK, j
      <3>2. k1.stage = j.stage /\ k2.stage = j.stage
        BY <1>0 DEF JobState
      <3> QED
        BY <3>1, <3>2
    <2> QED
      BY <2>1 DEF EdgeOf, BothFilled
  <1>6. CASE GetBalance(w) \/ GetBalanceFails(w) \/ SetBalance(w)
    <2>1. PICK k : /\ Goto(w, k) /\ j.pc \in {"get", "set"} /\ k.pc \in {"get", "set", "clear"}
                   /\ k.stage = j.stage /\ k.leg = j.leg
      <3> DEFINE k == [j EXCEPT !.pc = "set", !.balance = funds[j.at]]
      <3>1. j.pc \in {"get", "set"} /\ (Goto(w, k) \/ Goto(w, NextVenue(j)))
        BY <1>6 DEF GetBalance, GetBalanceFails, AfterRefusal, SetBalance, j
      <3>2. k.pc = "set" /\ k.stage = j.stage /\ k.leg = j.leg
        BY <1>0 DEF JobState
      <3>3. /\ NextVenue(j).pc \in {"get", "clear"} /\ NextVenue(j).stage = j.stage
            /\ NextVenue(j).leg = j.leg
        BY <1>0 DEF NextVenue, JobState
      <3> HIDE DEF k
      <3> QED
        BY <3>1, <3>2, <3>3
    <2> QED
      BY <1>p, <2>1 DEF EdgeOf, BothFilled, j
  <1>7. CASE ClearBusy(w) \/ WorkingEnd(w)
    <2>1. PICK k \in {IdleJob, [IdleJob EXCEPT !.pc = "end"]} : Goto(w, k)
      BY <1>7 DEF ClearBusy, WorkingEnd
    <2>2. k.stage = "done" /\ k.pc \in {"idle", "end"}
      BY <2>1 DEF IdleJob, NewJob
    <2> QED
      BY <2>1, <2>2 DEF EdgeOf
  <1> QED
    BY <1>1, <1>2, <1>3, <1>4, <1>5, <1>6, <1>7, SendFilledEdge, ApplyFillEdge DEF JobStep

LEMMA EdgeInvInit == Init => EdgeInv
  BY DEF Init, EdgeInv, EdgeOf, IdleJob, NewJob, IdleFeed

LEMMA EdgeInvNext == LockInv /\ EdgeInv /\ [Next]_vars => EdgeInv'
  <1> SUFFICES ASSUME LockInv, EdgeInv, [Next]_vars PROVE EdgeInv'
    OBVIOUS
  <1>0. DOMAIN job = Workers /\ DOMAIN feed = Feeds
    BY DEF LockInv, Shape
  <1>1. CASE UNCHANGED <<job, feed>>
    BY <1>1 DEF EdgeInv
  <1>2. ASSUME NEW w \in Workers, JobStep(w) PROVE EdgeInv'
    <2>1. PICK k : Goto(w, k) /\ EdgeOf(k)
      BY <1>2, JobStepEdge DEF LockInv, EdgeInv
    <2>2. UNCHANGED feed
      BY <1>2 DEF JobStep, SendGivesUp, SendMissed, SendFilled, SendLost, ApplyFill, NoteFill,
           NoteFillTooLate, KillSwitch, Release, Flatten, GetBalance, GetBalanceFails, SetBalance,
           ClearBusy, WorkingEnd
    <2> QED
      BY <1>0, <2>1, <2>2 DEF Goto, EdgeInv
  <1>3. ASSUME NEW t \in Feeds, Dispatch(t) PROVE EdgeInv'
    <2>1. ASSUME NEW k, feed' = [feed EXCEPT ![t] = k], k.leg \in {NoIdea, feed[t].leg},
                 \/ UNCHANGED job
                 \/ \E w \in Workers : \E j : job' = [job EXCEPT ![w] = j] /\ EdgeOf(j)
          PROVE  EdgeInv'
      BY <1>0, <2>1 DEF EdgeInv
    <2>2. CASE TryBusyInFlight(t) \/ ReserveFails(t)
      BY <2>1, <2>2 DEF TryBusyInFlight, ReserveFails, FeedReturns, IdleFeed
    <2>3. CASE TryBusyPair(t)
      <3> DEFINE k == [feed[t] EXCEPT !.pc = "reserve"]
      <3>1. k.leg = feed[t].leg
        BY DEF LockInv, WellTyped, TypeOK, FeedState
      <3>2. feed' = [feed EXCEPT ![t] = k] /\ UNCHANGED job
        BY <2>3 DEF TryBusyPair
      <3> HIDE DEF k
      <3> QED
        BY <2>1, <3>1, <3>2
    <2>4. ASSUME NEW w \in Workers, TryBusyFlatten(t, w) PROVE EdgeInv'
      <3>1. EdgeOf(FlattenJob(feed[t].market))
        BY DEF FlattenJob, NewJob, EdgeOf, BothFilled
      <3> QED
        BY <2>1, <2>4, <3>1 DEF TryBusyFlatten, Spawn, FeedReturns, IdleFeed
    <2>5. ASSUME NEW w \in Workers, Reserve(t, w) PROVE EdgeInv'
      <3>1. feed[t].leg # NoIdea
        BY <2>5 DEF Reserve, LockInv, WellTyped, Ready, FeedReady
      <3>2. EdgeOf(PairJob(feed[t].market, feed[t].leg))
        BY <3>1 DEF PairJob, NewJob, EdgeOf, BothFilled, EdgeInv
      <3> QED
        BY <2>1, <2>5, <3>2 DEF Reserve, Spawn, FeedReturns, IdleFeed
    <2> QED
      BY <1>3, <2>2, <2>3, <2>4, <2>5 DEF Dispatch
  <1>4. ASSUME NEW t \in Feeds, Tick(t) PROVE EdgeInv'
    <2>1. ASSUME NEW m, NEW leg, Attempt(t, m, leg), leg # NoIdea => Priced(leg)
          PROVE  EdgeInv'
      BY <1>0, <2>1 DEF Attempt, EdgeInv
    <2>2. ASSUME NEW m \in Markets, FlattenTick(t, m) PROVE EdgeInv'
      BY <2>1, <2>2 DEF FlattenTick
    <2>3. ASSUME NEW m \in Markets, NEW view \in MarketViews[m], PairTick(t, m, view)
          PROVE  EdgeInv'
      <3> DEFINE idea == strategize(view)
      <3>1. PICK n : Attempt(t, m, [s \in Sides |-> [idea[s] EXCEPT !.size = n]]) /\ idea # NoIdea
        BY <2>3 DEF PairTick
      <3>2. view \in View
        BY MarketViewsAssumption
      <3>3. Priced(idea) /\ idea \in [Sides -> QuotedLeg]
        BY <3>1, <3>2, StrategizePrices, StrategizeType
      <3> HIDE DEF idea
      <3>4. Priced([s \in Sides |-> [idea[s] EXCEPT !.size = n]])
        BY <3>3 DEF Priced, QuotedLeg
      <3> QED
        BY <2>1, <3>1, <3>4
    <2> QED
      BY <1>4, <2>2, <2>3 DEF Tick
  <1> QED
    BY <1>1, <1>2, <1>3, <1>4 DEF Next, QuietTick, Stop, Expire, vars

(* A pair of which both legs were filled kept its edge: however far either leg
   was chased, the two fill prices and their one-contract fees leave at least
   chase_reserve of the dollar (sendSide looks at the ceiling before each
   order, with the price the other leg was filled at: main.cpp:263-288,
   risk.hpp:96-107). *)
THEOREM PairKeepsEdgeHolds == Spec => []PairKeepsEdge
  <1>1. EdgeInv => PairKeepsEdge
    BY DEF EdgeInv, EdgeOf, PairKeepsEdge, KeepsEdge, Active
  <1> QED
    BY <1>1, LockInvInit, LockInvNext, EdgeInvInit, EdgeInvNext, PTL DEF Spec
=============================================================================
