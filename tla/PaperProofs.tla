---------------------------- MODULE PaperProofs ----------------------------
(***************************************************************************)
(* Paper trading and replays keep their types, and every tick of a replay  *)
(* leaves its market in whole pairs and, when it buys, within every limit, *)
(* for any number of threads and markets, any quotes, any limits, any      *)
(* positions reported at startup and any number of tapes.                  *)
(*                                                                         *)
(* The limits hold when the tick ends.  During a tick that buys they hold  *)
(* of the book as it will be: with the contracts and the cents of the      *)
(* fills that are still due.  Booking a fill moves its cents from cash to  *)
(* exposure and its contracts from due to held, so that the book as it     *)
(* will be stays what it was when the pair was approved.                   *)
(***************************************************************************)
EXTENDS PaperTrading, PricingProofs

-----------------------------------------------------------------------------
(* Types *)

FeedState == [pc : {"idle", "sell", "apply", "note", "halt"},
              market : Markets \cup {NoMarket}, found : Int, todo : Seq(Leg)]

\* One fill or two, at no less than nothing.
Fills(todo) ==
  \/ \E a \in Leg : a.price >= 0 /\ todo = <<a>>
  \/ \E a, b \in Leg : a.price >= 0 /\ b.price >= 0 /\ todo = <<a, b>>

FeedReady(f) ==
  /\ f.pc # "idle" => f.market \in Markets
  /\ f.pc \in {"apply", "note", "halt"} => Fills(f.todo)

WellTyped ==
  /\ TypeOK
  /\ feed \in [Feeds -> FeedState]
  /\ \A t \in Feeds : FeedReady(feed[t])

LEMMA FillsAreLegs ==
  ASSUME NEW todo, Fills(todo)
  PROVE  todo \in Seq(Leg) /\ Head(todo) \in Leg /\ Head(todo).price >= 0
  <1>1. CASE \E a \in Leg : a.price >= 0 /\ todo = <<a>>
    BY <1>1
  <1>2. CASE \E a, b \in Leg : a.price >= 0 /\ b.price >= 0 /\ todo = <<a, b>>
    BY <1>2
  <1> QED
    BY <1>1, <1>2 DEF Fills

LEMMA IdleFeedTyped == IdleFeed \in FeedState /\ FeedReady(IdleFeed)
  BY DEF IdleFeed, FeedState, FeedReady

LEMMA AfterFillTyped ==
  ASSUME NEW f \in FeedState, f.market \in Markets, Fills(f.todo)
  PROVE  AfterFill(f) \in FeedState /\ FeedReady(AfterFill(f))
  <1>1. CASE \E a \in Leg : a.price >= 0 /\ f.todo = <<a>>
    BY <1>1, IdleFeedTyped DEF AfterFill
  <1>2. CASE \E a, b \in Leg : a.price >= 0 /\ b.price >= 0 /\ f.todo = <<a, b>>
    <2>1. PICK a \in Leg, b \in Leg : b.price >= 0 /\ f.todo = <<a, b>>
      BY <1>2
    <2>2. Tail(f.todo) = <<b>> /\ Len(f.todo) = 2
      BY <2>1
    <2>3. AfterFill(f) = [f EXCEPT !.pc = "apply", !.todo = <<b>>]
      <3>1. AfterFill(f) = [f EXCEPT !.pc = "apply", !.todo = Tail(@)]
        BY <2>2 DEF AfterFill
      <3> QED
        BY <2>2, <3>1 DEF FeedState
    <2>4. <<b>> \in Seq(Leg) /\ Fills(<<b>>)
      BY <2>1 DEF Fills
    <2> QED
      BY <2>3, <2>4 DEF FeedState, FeedReady
  <1> QED
    BY <1>1, <1>2 DEF Fills

\* A step of one thread keeps the types when its own record does.
LEMMA FeedMoves ==
  ASSUME WellTyped, NEW t \in Feeds, NEW f \in FeedState, FeedReady(f), Goto(t, f),
         PortfolioTypeOK', unloaded' \subseteq Lot, up' \in BOOLEAN, replay' \in BOOLEAN, killed' \in BOOLEAN, stopped' \in BOOLEAN,
         replays' \in Nat, ticks' \in Nat, loss' \in Int, expired' \subseteq Markets
  PROVE  WellTyped'
  <1>1. feed' = [feed EXCEPT ![t] = f]
    BY DEF Goto
  <1>2. feed' \in [Feeds -> FeedState] /\ \A u \in Feeds : FeedReady(feed'[u])
    BY <1>1 DEF WellTyped
  <1>3. \A u \in Feeds : FeedReady(feed[u])'
    BY <1>2 DEF FeedReady, Fills
  <1>4. \A u \in Feeds :
          /\ feed'[u].pc \in {"idle", "sell", "apply", "note", "halt"}
          /\ feed'[u].market \in Markets \cup {NoMarket}
          /\ feed'[u].found \in Int
          /\ feed'[u].todo \in Seq(Leg)
    BY <1>2 DEF FeedState
  <1>5. TypeOK'
    BY <1>4 DEF TypeOK
  <1> QED
    BY <1>2, <1>3, <1>5 DEF WellTyped, FeedState

LEMMA UpdatePortfolioType ==
  ASSUME PortfolioTypeOK, NEW market \in Markets, NEW f \in Leg, f.price >= 0,
         updatePortfolio(market, f)
  PROVE  PortfolioTypeOK'
  <1>1. pos[market] \in Position
    BY DEF PortfolioTypeOK
  <1>2. /\ f.size \in Nat /\ f.price \in Nat /\ f.side \in Sides
        /\ f.venue \in Venues \cup {NoVenue} /\ fillFee(f) \in Nat
    BY FillFeeType DEF Leg
  <1>3. CASE ~fillApplies(market, f)
    BY <1>3 DEF updatePortfolio, PortfolioTypeOK
  <1>4. CASE fillApplies(market, f) /\ f.buy
    <2> DEFINE spent == f.size * f.price + fillFee(f)
    <2>1. f.size >= 1 /\ spent \in Int
      BY <1>2, <1>4 DEF fillApplies
    <2>2. /\ pos' = [pos EXCEPT ![market] =
                       blendLot(pos[market], f.side, f.venue, f.size, f.price)]
          /\ cash' = [cash EXCEPT ![f.venue] = cash[f.venue] - spent]
          /\ exposure' = [exposure EXCEPT ![f.venue] = exposure[f.venue] + spent]
          /\ UNCHANGED reserved
      BY <1>4 DEF updatePortfolio, applyBuy
    <2> HIDE DEF spent
    <2>3. pos' \in [Markets -> Position]
      <3>1. blendLot(pos[market], f.side, f.venue, f.size, f.price) \in Position
        BY <1>1, <1>2, <2>1, BlendLotType
      <3> QED
        BY <2>2, <3>1 DEF PortfolioTypeOK
    <2>4. cash' \in [Venues -> Int] /\ exposure' \in [Venues -> Int]
      BY <2>1, <2>2, AddedCents DEF PortfolioTypeOK
    <2> QED
      BY <2>2, <2>3, <2>4 DEF PortfolioTypeOK
  <1>5. CASE fillApplies(market, f) /\ ~f.buy
    <2> DEFINE n == soldSize(pos[market], f)
    <2>1. n \in 0..pos[market].count[f.side]
      BY <1>1, <1>2 DEF soldSize, Position
    <2>2. pos[market].count[f.side] \in Nat /\ pos[market].avg[f.side] \in Nat
      BY <1>1, <1>2 DEF Position
    <2>3. sellProceeds(f, n) \in Int /\ n * pos[market].avg[f.side] \in Int
      BY <1>2, <2>1, <2>2 DEF sellProceeds
    <2>4. sellLot(pos[market], f.side, n) \in Position
      BY <1>1, <1>2, <2>1, SellLotType
    <2>5. /\ pos' = [pos EXCEPT ![market] = sellLot(pos[market], f.side, n)]
          /\ cash' = [cash EXCEPT ![f.venue] = cash[f.venue] + sellProceeds(f, n)]
          /\ exposure' = [exposure EXCEPT ![f.venue] =
                            exposure[f.venue] - n * pos[market].avg[f.side]]
          /\ UNCHANGED reserved
      BY <1>5 DEF updatePortfolio, applySell
    <2> HIDE DEF n
    <2>6. pos' \in [Markets -> Position]
      BY <2>4, <2>5 DEF PortfolioTypeOK
    <2>7. cash' \in [Venues -> Int] /\ exposure' \in [Venues -> Int]
      BY <2>3, <2>5, AddedCents DEF PortfolioTypeOK
    <2> QED
      BY <2>5, <2>6, <2>7 DEF PortfolioTypeOK
  <1> QED
    BY <1>3, <1>4, <1>5

\* The pair a tick has approved.
sized(view, n, s) == [strategize(view)[s] EXCEPT !.size = n]

LEMMA ApprovedPair ==
  ASSUME WellTyped, NEW t \in Feeds, NEW m \in Markets, NEW view \in MarketViews[m],
         PairTick(t, m, view)
  PROVE  LET idea == strategize(view)
             verdict == approve_pair(idea[YesSided], idea[NoSided], m,
                                     getPortfolio, Limits, killed)
             yes == sized(view, verdict.size, YesSided)
             no == sized(view, verdict.size, NoSided)
         IN  /\ \A s \in Sides : idea[s] \in QuotedLeg /\ idea[s].price >= 1 /\ idea[s].side = s
             /\ BookType(getPortfolio, m)
             /\ verdict.size \in Nat /\ verdict.reason = "Ok"
             /\ yes \in QuotedLeg /\ no \in QuotedLeg
             /\ Goto(t, [pc |-> "apply", market |-> m, found |-> OverVenues(cash), todo |-> <<yes, no>>])
  <1> DEFINE idea == strategize(view)
             verdict == approve_pair(idea[YesSided], idea[NoSided], m,
                                     getPortfolio, Limits, killed)
             yes == sized(view, verdict.size, YesSided)
             no == sized(view, verdict.size, NoSided)
  <1>1. view \in View /\ idea # NoIdea
    BY MarketViewsAssumption DEF PairTick
  <1>2. idea \in [Sides -> QuotedLeg] /\ Priced(idea)
    BY <1>1, StrategizeType, StrategizePrices
  <1>3. idea = [s \in Sides |-> BuyLeg(view, s, ProposedSize(view))]
    BY <1>1 DEF strategize
  <1>4. \A s \in Sides : idea[s] \in QuotedLeg /\ idea[s].price >= 1 /\ idea[s].side = s
    BY <1>2, <1>3 DEF Priced, BuyLeg
  <1>5. YesSided \in Sides /\ NoSided \in Sides
    BY DEF Sides
  <1>6. BookType(getPortfolio, m)
    BY DEF BookType, getPortfolio, WellTyped, TypeOK, PortfolioTypeOK, Position
  <1>7. verdict.reason = "Ok" /\ Goto(t, [pc |-> "apply", market |-> m, found |-> OverVenues(cash), todo |-> <<yes, no>>])
    BY DEF PairTick, Executioner, sized
  <1> HIDE DEF idea
  <1>8. verdict.size \in Nat
    BY <1>4, <1>5, <1>6, LimitsAssumption, ApprovedSizeType
  <1> HIDE DEF verdict
  <1>9. yes \in QuotedLeg /\ no \in QuotedLeg
    <2>1. ASSUME NEW n \in Nat, NEW s \in Sides PROVE sized(view, n, s) \in QuotedLeg
      <3>1. sized(view, n, s) = [idea[s] EXCEPT !.size = n]
        BY DEF sized, idea
      <3> QED
        BY <1>4, <3>1 DEF QuotedLeg
    <2> QED
      BY <1>5, <1>8, <2>1
  <1> QED
    BY <1>4, <1>6, <1>7, <1>8, <1>9 DEF idea, verdict

LEMMA TickTyped ==
  ASSUME WellTyped, NEW t \in Feeds, NEW m \in Markets, NEW view \in MarketViews[m],
         PairTick(t, m, view)
  PROVE  WellTyped'
  <1> DEFINE n == approve_pair(strategize(view)[YesSided], strategize(view)[NoSided], m,
                               getPortfolio, Limits, killed).size
             yes == sized(view, n, YesSided)
             no == sized(view, n, NoSided)
             f == [pc |-> "apply", market |-> m, found |-> OverVenues(cash), todo |-> <<yes, no>>]
  <1>1. /\ yes \in QuotedLeg /\ no \in QuotedLeg /\ n \in Nat /\ Goto(t, f)
        /\ yes.price >= 1 /\ no.price >= 1
    BY ApprovedPair DEF sized, Sides, QuotedLeg
  <1> HIDE DEF n, yes, no
  <1>2. yes \in Leg /\ no \in Leg
    BY <1>1 DEF QuotedLeg, Leg
  <1>a. OverVenues(cash) \in Int
    BY DEF OverVenues, Venues, WellTyped, TypeOK, PortfolioTypeOK
  <1>3. Fills(f.todo) /\ f \in FeedState /\ FeedReady(f)
    <2>1. <<yes, no>> \in Seq(Leg) /\ Fills(<<yes, no>>)
      BY <1>1, <1>2 DEF Fills, QuotedLeg
    <2> QED
      BY <1>a, <2>1 DEF FeedState, FeedReady
  <1> HIDE DEF f
  <1>4. ticks' \in Nat /\ UNCHANGED <<bookVars, bootVars, replay, replays, gateVars, expired>>
    BY DEF PairTick, WellTyped, TypeOK
  <1> QED
    BY <1>1, <1>3, <1>4, FeedMoves
    DEF WellTyped, TypeOK, PortfolioTypeOK, bookVars, bootVars, gateVars

LEMMA FillStepTyped ==
  ASSUME WellTyped, NEW t \in Feeds, FillStep(t)
  PROVE  WellTyped'
  <1> DEFINE f == feed[t]
  <1>0. f \in FeedState /\ FeedReady(f) /\ PortfolioTypeOK
    BY DEF WellTyped, TypeOK
  <1>a. /\ unloaded \subseteq Lot /\ up \in BOOLEAN
        /\ replay \in BOOLEAN /\ killed \in BOOLEAN /\ stopped \in BOOLEAN
        /\ replays \in Nat /\ ticks \in Nat /\ loss \in Int /\ expired \subseteq Markets
    BY DEF WellTyped, TypeOK
  <1>1. CASE SellSurplus(t)
    <2> DEFINE sell == surplusSellIntent(pos[f.market])
               g == [f EXCEPT !.pc = "apply", !.todo = <<sell>>]
    <2>1. f.market \in Markets /\ pos[f.market] \in Position
      BY <1>0, <1>1 DEF SellSurplus, FeedReady, PortfolioTypeOK
    <2>2. sell \in Leg /\ sell.price = 1
      BY <2>1, SurplusSellType
    <2> HIDE DEF sell
    <2>3. <<sell>> \in Seq(Leg) /\ Fills(<<sell>>)
      BY <2>2 DEF Fills
    <2>4. g \in FeedState /\ FeedReady(g)
      BY <1>0, <2>1, <2>3 DEF FeedState, FeedReady
    <2>5. Goto(t, IdleFeed) \/ Goto(t, g)
      BY <1>1 DEF SellSurplus, Executioner, sell
    <2>6. UNCHANGED <<bookVars, bootVars, replay, replays, gateVars, expired, ticks>>
      BY <1>1 DEF SellSurplus
    <2> HIDE DEF g
    <2> QED
      BY <1>0, <1>a, <2>4, <2>5, <2>6, IdleFeedTyped, FeedMoves
      DEF PortfolioTypeOK, bookVars, bootVars, gateVars
  <1>2. CASE ApplyFill(t)
    <2> DEFINE g == [f EXCEPT !.pc = "note"]
    <2>1. f.market \in Markets /\ Fills(f.todo)
      BY <1>0, <1>2 DEF ApplyFill, FeedReady
    <2>2. Filling(t) \in Leg /\ Filling(t).price >= 0
      BY <2>1, FillsAreLegs DEF Filling
    <2>3. PortfolioTypeOK'
      BY <1>0, <1>2, <2>1, <2>2, UpdatePortfolioType DEF ApplyFill
    <2>4. g \in FeedState /\ FeedReady(g)
      BY <1>0, <2>1 DEF FeedState, FeedReady
    <2>5. Goto(t, g) \/ Goto(t, AfterFill(f))
      BY <1>2 DEF ApplyFill
    <2>6. UNCHANGED <<bootVars, replay, replays, gateVars, expired, ticks>>
      BY <1>2 DEF ApplyFill
    <2> HIDE DEF g
    <2> QED
      BY <1>0, <1>a, <2>1, <2>3, <2>4, <2>5, <2>6, AfterFillTyped, FeedMoves DEF bootVars, gateVars
  <1>3. CASE NoteFill(t)
    <2> DEFINE g == [f EXCEPT !.pc = "halt"]
    <2>1. f.market \in Markets /\ Fills(f.todo)
      BY <1>0, <1>3 DEF NoteFill, FeedReady
    <2>2. loss' \in Int /\ killed' \in BOOLEAN
      <3>1. fillFee(Filling(t)) \in Nat
        BY <2>1, FillsAreLegs, FillFeeType DEF Filling
      <3>2. loss' = loss + fillFee(Filling(t))
        BY <1>3 DEF NoteFill
      <3>3. killed' \in BOOLEAN
        BY <1>3, <1>a DEF NoteFill
      <3> QED
        BY <1>a, <3>1, <3>2, <3>3
    <2>3. g \in FeedState /\ FeedReady(g)
      BY <1>0, <2>1 DEF FeedState, FeedReady
    <2>4. Goto(t, g) \/ Goto(t, AfterFill(f))
      BY <1>3 DEF NoteFill, AfterNote
    <2>5. UNCHANGED <<bookVars, bootVars, replay, replays, stopped, expired, ticks>>
      BY <1>3 DEF NoteFill
    <2> HIDE DEF g
    <2> QED
      BY <1>0, <1>a, <2>1, <2>2, <2>3, <2>4, <2>5, AfterFillTyped, FeedMoves
      DEF PortfolioTypeOK, bookVars, bootVars
  <1>4. CASE NoteFillTooLate(t) \/ KillSwitch(t)
    <2>1. f.market \in Markets /\ Fills(f.todo) /\ Goto(t, AfterFill(f))
      BY <1>0, <1>4 DEF NoteFillTooLate, KillSwitch, FeedReady
    <2>2. UNCHANGED <<bookVars, bootVars, replay, replays, killed, loss, expired, ticks>>
      BY <1>4 DEF NoteFillTooLate, KillSwitch, gateVars
    <2>3. stopped' \in BOOLEAN
      BY <1>4, <1>a DEF NoteFillTooLate, KillSwitch, gateVars
    <2> QED
      BY <1>0, <1>a, <2>1, <2>2, <2>3, AfterFillTyped, FeedMoves DEF PortfolioTypeOK, bookVars, bootVars
  <1> QED
    BY <1>1, <1>2, <1>3, <1>4 DEF FillStep

LEMMA LotTyped ==
  ASSUME PortfolioTypeOK, NEW lot \in Lot, addVenueLot(lot)
  PROVE  PortfolioTypeOK'
  <1>1. /\ lot.market \in Markets /\ lot.venue \in Venues /\ lot.side \in Sides
        /\ lot.count \in Nat /\ lot.count >= 1 /\ lot.avg \in Nat
    BY DEF Lot
  <1>2. lot.count * lot.avg \in Int
    BY <1>1, ProductNat
  <1>3. blendLot(pos[lot.market], lot.side, lot.venue, lot.count, lot.avg) \in Position
    BY <1>1, BlendLotType DEF PortfolioTypeOK
  <1>4. pos' \in [Markets -> Position]
    BY <1>3 DEF addVenueLot, PortfolioTypeOK
  <1> DEFINE cost == lot.count * lot.avg
  <1>5. exposure' = [exposure EXCEPT ![lot.venue] = exposure[lot.venue] + cost]
    BY DEF addVenueLot
  <1> HIDE DEF cost
  <1>6. exposure' \in [Venues -> Int]
    BY <1>2, <1>5, AddedCents DEF PortfolioTypeOK, cost
  <1> QED
    BY <1>4, <1>6 DEF addVenueLot, PortfolioTypeOK

LEMMA LoadTyped ==
  ASSUME WellTyped, Load
  PROVE  WellTyped'
  <1>1. /\ unloaded \subseteq Lot /\ replay \in BOOLEAN /\ killed \in BOOLEAN
        /\ up \in BOOLEAN /\ stopped \in BOOLEAN /\ expired \subseteq Markets
        /\ replays \in Nat /\ ticks \in Nat /\ loss \in Int /\ PortfolioTypeOK
    BY DEF WellTyped, TypeOK
  <1>2. /\ UNCHANGED <<replay, replays, gateVars, expired, feed, ticks>>
        /\ unloaded' \subseteq unloaded
    BY DEF Load, LoadLot, refreshVenueCash
  <1>3. up' \in BOOLEAN
    BY <1>1 DEF Load, LoadLot, refreshVenueCash
  <1>4. PortfolioTypeOK'
    <2>1. ASSUME NEW lot \in unloaded, LoadLot(lot) PROVE PortfolioTypeOK'
      BY <1>1, <2>1, LotTyped DEF LoadLot
    <2>2. CASE refreshVenueCash
      BY <1>1, <2>2, PaperCashAssumption DEF refreshVenueCash, PortfolioTypeOK
    <2> QED
      BY <2>1, <2>2 DEF Load
  <1> QED
    BY <1>1, <1>2, <1>3, <1>4 DEF WellTyped, TypeOK, FeedReady, Fills, FeedState, gateVars

LEMMA NextTyped ==
  ASSUME WellTyped, [Next]_vars
  PROVE  WellTyped'
  <1>a. /\ unloaded \subseteq Lot /\ up \in BOOLEAN
        /\ replay \in BOOLEAN /\ killed \in BOOLEAN /\ stopped \in BOOLEAN
        /\ replays \in Nat /\ ticks \in Nat /\ loss \in Int /\ expired \subseteq Markets
        /\ PortfolioTypeOK /\ feed \in [Feeds -> FeedState]
    BY DEF WellTyped, TypeOK
  <1>b. ASSUME UNCHANGED feed, PortfolioTypeOK', unloaded' \subseteq Lot, up' \in BOOLEAN,
               replay' \in BOOLEAN, killed' \in BOOLEAN, stopped' \in BOOLEAN, replays' \in Nat, ticks' \in Nat, loss' \in Int,
               expired' \subseteq Markets
        PROVE  WellTyped'
    BY <1>b DEF WellTyped, TypeOK, FeedReady, Fills, FeedState
  <1>1. ASSUME NEW t \in Feeds, FillStep(t) PROVE WellTyped'
    BY <1>1, FillStepTyped
  <1>2. ASSUME NEW t \in Feeds, NEW m \in Markets, FlattenTick(t, m) PROVE WellTyped'
    <2> DEFINE f == [pc |-> "sell", market |-> m, found |-> 0, todo |-> <<>>]
    <2>1. f \in FeedState /\ FeedReady(f)
      BY DEF FeedState, FeedReady
    <2>2. Goto(t, f) /\ UNCHANGED <<bookVars, bootVars, replay, replays, gateVars, expired, ticks>>
      BY <1>2 DEF FlattenTick
    <2> HIDE DEF f
    <2> QED
      BY <1>a, <2>1, <2>2, FeedMoves DEF PortfolioTypeOK, bookVars, bootVars, gateVars
  <1>3. ASSUME NEW t \in Feeds, NEW m \in Markets, NEW view \in MarketViews[m],
               PairTick(t, m, view)
        PROVE  WellTyped'
    BY <1>3, TickTyped
  <1>4. CASE StartReplay
    <2>1. cash' \in [Venues -> Int]
      BY <1>4 DEF StartReplay, kReplayCash
    <2>2. replays' \in Nat /\ expired' \subseteq Markets
      BY <1>a, <1>4 DEF StartReplay
    <2>3. UNCHANGED <<exposure, reserved, pos, bootVars, replay, gateVars, feed, ticks>>
      BY <1>4 DEF StartReplay
    <2> QED
      BY <1>a, <1>b, <2>1, <2>2, <2>3 DEF PortfolioTypeOK, bootVars, gateVars
  <1>5. CASE Stop
    <2>1. stopped' \in BOOLEAN
          /\ UNCHANGED <<bookVars, bootVars, replay, replays, killed, loss, expired, feed, ticks>>
      BY <1>5 DEF Stop
    <2> QED
      BY <1>a, <1>b, <2>1 DEF PortfolioTypeOK, bookVars, bootVars
  <1>6. ASSUME NEW m \in Markets, Expire(m) PROVE WellTyped'
    <2>1. expired' \subseteq Markets
          /\ UNCHANGED <<bookVars, bootVars, replay, replays, gateVars, feed, ticks>>
      BY <1>a, <1>6 DEF Expire
    <2> QED
      BY <1>a, <1>b, <2>1 DEF PortfolioTypeOK, bookVars, bootVars, gateVars
  <1>7. CASE Load
    BY <1>7, LoadTyped
  <1>8. CASE UNCHANGED vars
    BY <1>a, <1>b, <1>8 DEF vars, PortfolioTypeOK, bookVars, bootVars, gateVars
  <1> QED
    BY <1>1, <1>2, <1>3, <1>4, <1>5, <1>6, <1>7, <1>8 DEF Next

LEMMA InitTyped ==
  ASSUME Init
  PROVE  WellTyped
  <1>1. EmptyPosition \in Position
    BY DEF EmptyPosition, Position
  <1>2. PortfolioTypeOK
    BY <1>1, PaperCashAssumption DEF Init, PortfolioTypeOK
  <1>3. feed \in [Feeds -> FeedState] /\ \A t \in Feeds : FeedReady(feed[t])
    BY IdleFeedTyped DEF Init
  <1>a. unloaded \subseteq Lot
    BY ReportsAssumption DEF Init
  <1>4. up \in BOOLEAN /\ killed \in BOOLEAN /\ stopped \in BOOLEAN /\ replay \in BOOLEAN
    BY Zenon DEF Init
  <1>5. replays \in Nat /\ ticks \in Nat /\ loss \in Int /\ expired \subseteq Markets
    BY DEF Init
  <1> QED
    BY <1>a, <1>2, <1>3, <1>4, <1>5 DEF WellTyped, TypeOK, FeedState

(* A replay's book, or a feed's, keeps its types: cents stay integers, counts
   and averages never go below zero, however the legs of the feeds' pairs and
   their leftovers' sales fall between each other (main.cpp:348, 408). *)
THEOREM PaperTypesHold == Spec => []TypeOK
  <1>1. Init => WellTyped
    BY InitTyped
  <1>2. WellTyped /\ [Next]_vars => WellTyped'
    BY NextTyped
  <1>3. WellTyped => TypeOK
    BY DEF WellTyped
  <1> QED
    BY <1>1, <1>2, <1>3, PTL DEF Spec

-----------------------------------------------------------------------------
(* The book as it will be *)

\* A leg of an approved pair.
LegOf(l, s) == l \in QuotedLeg /\ l.side = s /\ l.size >= 1 /\ l.price >= 1

\* A pair, or what is left of one when its yes contracts are booked.
Paired(todo) ==
  \/ \E no : LegOf(no, NoSided) /\ todo = <<no>>
  \/ \E yes, no : /\ LegOf(yes, YesSided) /\ LegOf(no, NoSided) /\ yes.size = no.size
                  /\ todo = <<yes, no>>

centsOf(leg, v) == IF leg.venue = v THEN legCost(leg, leg.size) ELSE 0
contractsOf(leg, s) == IF leg.side = s THEN leg.size ELSE 0

centsDue(legs, v) ==
  IF legs = <<>> THEN 0
  ELSE centsOf(legs[1], v) + (IF Len(legs) = 2 THEN centsOf(legs[2], v) ELSE 0)
contractsDue(legs, s) ==
  IF legs = <<>> THEN 0
  ELSE contractsOf(legs[1], s) + (IF Len(legs) = 2 THEN contractsOf(legs[2], s) ELSE 0)

\* The contracts of side s in position q, and the venue it was last bought on,
\* when the legs are booked.
WillHold(q, legs, s) == q.count[s] + contractsDue(legs, s)
WillUse(q, legs, s) ==
  IF legs = <<>> THEN q.venue[s]
  ELSE IF legs[1].side = s THEN legs[1].venue
  ELSE IF Len(legs) = 2 THEN legs[2].venue
  ELSE q.venue[s]

MarketKeeps(q, legs) ==
  /\ WillHold(q, legs, YesSided) = WillHold(q, legs, NoSided)
  /\ WillHold(q, legs, YesSided) + WillHold(q, legs, NoSided) <= Limits.max_contracts

\* With amounts c of cash and e of exposure and d cents to be spent.
VenueKeeps(c, e, d) == d <= c /\ (c + e) * Limits.venue_reserve_pct <= 100 * (c - d)

AtWork(e, legs) == OverVenues(e) + OverVenues([v \in Venues |-> centsDue(legs, v)])
AllocationKeeps(e, legs, found) ==
  AtWork(e, legs) > 0 => 100 * AtWork(e, legs) <= found * Limits.max_allocation_pct

\* Every limit that a tick which found that much cash is held to, of the book
\* with cash c, exposure e and position q, when the legs are booked.
Keeps(c, e, q, legs, found) ==
  /\ MarketKeeps(q, legs)
  /\ \A s \in Sides :
       LET v == WillUse(q, legs, s) IN v \in Venues /\ VenueKeeps(c[v], e[v], centsDue(legs, v))
  /\ AllocationKeeps(e, legs, found)

\* A leg costs something.
LEMMA CentsOfType ==
  ASSUME NEW leg, NEW s, LegOf(leg, s), NEW v
  PROVE  centsOf(leg, v) \in Nat /\ (leg.venue = v => centsOf(leg, v) >= 1)
  <1> DEFINE worth == leg.size * leg.price
             rest == (leg.size - 1) * leg.price
  <1>1. /\ leg.size \in Nat /\ leg.price \in Nat /\ leg.size >= 1 /\ leg.price >= 1
        /\ takerFee(leg.venue, leg.price, leg.size) \in Nat
    BY TakerFeeType DEF LegOf, QuotedLeg
  <1>2. worth \in Nat /\ rest \in Nat /\ worth = rest + leg.price
    <2>1. leg.size - 1 \in Nat
      BY <1>1
    <2>2. worth \in Nat /\ rest \in Nat
      BY <1>1, <2>1, ProductNat
    <2> QED
      BY <1>1, <2>2
  <1> HIDE DEF rest
  <1>3. worth >= 1
    BY <1>1, <1>2
  <1> QED
    BY <1>1, <1>2, <1>3 DEF centsOf, legCost

\* The first fill that is due, and the others.
LEMMA DueSplits ==
  ASSUME NEW todo, Paired(todo)
  PROVE  LET leg == Head(todo)
             rest == Tail(todo)
         IN  /\ leg \in QuotedLeg /\ leg.size >= 1 /\ leg.price >= 1
             /\ \E s \in Sides : LegOf(leg, s)
             /\ (rest = <<>> /\ Len(todo) = 1) \/ (Paired(rest) /\ Len(todo) = 2)
             /\ \A v : /\ centsDue(todo, v) = centsOf(leg, v) + centsDue(rest, v)
                       /\ centsOf(leg, v) \in Nat /\ centsDue(rest, v) \in Nat
             /\ \A s \in Sides : /\ contractsDue(todo, s) = contractsOf(leg, s) + contractsDue(rest, s)
                                 /\ contractsOf(leg, s) \in Nat /\ contractsDue(rest, s) \in Nat
             /\ \A q \in Position, s \in Sides :
                  WillUse(q, todo, s) = WillUse([q EXCEPT !.venue[leg.side] = leg.venue], rest, s)
  <1>1. CASE \E no : LegOf(no, NoSided) /\ todo = <<no>>
    <2>1. PICK no : LegOf(no, NoSided) /\ todo = <<no>>
      BY <1>1
    <2>2. Head(todo) = no /\ Tail(todo) = <<>> /\ Len(todo) = 1 /\ todo[1] = no /\ todo # <<>>
      BY <2>1
    <2>3. \A v : /\ centsDue(todo, v) = centsOf(no, v) + 0 /\ centsDue(<<>>, v) = 0
                 /\ centsOf(no, v) \in Nat
      BY <2>1, <2>2, CentsOfType DEF centsDue
    <2>4. \A s : /\ contractsDue(todo, s) = contractsOf(no, s) + 0 /\ contractsDue(<<>>, s) = 0
                 /\ contractsOf(no, s) \in Nat
      BY <2>1, <2>2 DEF contractsDue, contractsOf, LegOf, QuotedLeg
    <2>5. ASSUME NEW q \in Position, NEW s \in Sides
          PROVE  WillUse(q, todo, s) = WillUse([q EXCEPT !.venue[no.side] = no.venue], <<>>, s)
      BY <2>1, <2>2 DEF WillUse, Position, LegOf, Sides
    <2> QED
      BY <2>1, <2>2, <2>3, <2>4, <2>5 DEF LegOf, Sides
  <1>2. CASE \E yes, no : /\ LegOf(yes, YesSided) /\ LegOf(no, NoSided) /\ yes.size = no.size
                          /\ todo = <<yes, no>>
    <2>1. PICK yes, no : LegOf(yes, YesSided) /\ LegOf(no, NoSided) /\ todo = <<yes, no>>
      BY <1>2
    <2>2. /\ Head(todo) = yes /\ Tail(todo) = <<no>> /\ Len(todo) = 2 /\ Len(<<no>>) = 1
          /\ todo[1] = yes /\ todo[2] = no /\ todo # <<>> /\ <<no>> # <<>> /\ <<no>>[1] = no
      BY <2>1
    <2>3. \A v : centsOf(yes, v) \in Nat /\ centsOf(no, v) \in Nat
      BY <2>1, CentsOfType
    <2>4. \A v : centsDue(todo, v) = centsOf(yes, v) + centsOf(no, v)
                 /\ centsDue(<<no>>, v) = centsOf(no, v) + 0
      BY <2>2 DEF centsDue
    <2>5. \A s : contractsOf(yes, s) \in Nat /\ contractsOf(no, s) \in Nat
      BY <2>1 DEF contractsOf, LegOf, QuotedLeg
    <2>6. \A s : contractsDue(todo, s) = contractsOf(yes, s) + contractsOf(no, s)
                 /\ contractsDue(<<no>>, s) = contractsOf(no, s) + 0
      BY <2>2 DEF contractsDue
    <2>7. Paired(<<no>>)
      BY <2>1 DEF Paired
    <2>8. ASSUME NEW q \in Position, NEW s \in Sides
          PROVE  WillUse(q, todo, s) = WillUse([q EXCEPT !.venue[yes.side] = yes.venue], <<no>>, s)
      BY <2>1, <2>2 DEF WillUse, Position, LegOf, Sides, YesSided, NoSided
    <2> QED
      BY <2>1, <2>2, <2>3, <2>4, <2>5, <2>6, <2>7, <2>8 DEF LegOf, Sides
  <1> QED
    BY <1>1, <1>2 DEF Paired

(* Booking the first fill that is due leaves the book as it will be: what goes
   from cash to exposure was due, and so were the contracts. *)
LEMMA BookingKeeps ==
  ASSUME NEW c \in [Venues -> Int], NEW e \in [Venues -> Int], NEW q \in Position,
         NEW todo, Paired(todo), NEW found, Keeps(c, e, q, todo, found)
  PROVE  LET leg == Head(todo)
             spent == legCost(leg, leg.size)
         IN  Keeps([c EXCEPT ![leg.venue] = c[leg.venue] - spent],
                   [e EXCEPT ![leg.venue] = e[leg.venue] + spent],
                   blendLot(q, leg.side, leg.venue, leg.size, leg.price),
                   Tail(todo), found)
  <1> DEFINE leg == Head(todo)
             rest == Tail(todo)
             spent == legCost(leg, leg.size)
             c2 == [c EXCEPT ![leg.venue] = c[leg.venue] - spent]
             e2 == [e EXCEPT ![leg.venue] = e[leg.venue] + spent]
             q2 == blendLot(q, leg.side, leg.venue, leg.size, leg.price)
  <1>1. /\ leg \in QuotedLeg /\ leg.size >= 1
        /\ \A v : /\ centsDue(todo, v) = centsOf(leg, v) + centsDue(rest, v)
                  /\ centsOf(leg, v) \in Nat /\ centsDue(rest, v) \in Nat
        /\ \A s \in Sides : /\ contractsDue(todo, s) = contractsOf(leg, s) + contractsDue(rest, s)
                            /\ contractsOf(leg, s) \in Nat /\ contractsDue(rest, s) \in Nat
        /\ \A s \in Sides : WillUse(q, todo, s) =
                              WillUse([q EXCEPT !.venue[leg.side] = leg.venue], rest, s)
    BY DueSplits
  <1>2. leg.venue \in Venues /\ leg.side \in Sides /\ leg.size \in Nat
    BY <1>1 DEF QuotedLeg
  <1> HIDE DEF leg, rest
  <1>3. \A v \in Venues : /\ c2[v] = c[v] - centsOf(leg, v) /\ e2[v] = e[v] + centsOf(leg, v)
                          /\ c[v] \in Int /\ e[v] \in Int
    <2> TAKE v \in Venues
    <2>1. CASE v = leg.venue
      BY <1>2, <2>1 DEF centsOf
    <2>2. CASE v # leg.venue
      <3>1. centsOf(leg, v) = 0
        BY <2>2 DEF centsOf
      <3>2. c2[v] = c[v] /\ e2[v] = e[v] /\ c[v] \in Int /\ e[v] \in Int
        BY <2>2
      <3> QED
        BY <3>1, <3>2
    <2> QED
      BY <2>1, <2>2
  <1> HIDE DEF c2, e2
  <1>4. ASSUME NEW v \in Venues, VenueKeeps(c[v], e[v], centsDue(todo, v))
        PROVE  VenueKeeps(c2[v], e2[v], centsDue(rest, v))
    <2> DEFINE k == centsOf(leg, v)
               d == centsDue(rest, v)
               before == centsDue(todo, v)
    <2>1. /\ k \in Nat /\ d \in Nat /\ before = k + d /\ c[v] \in Int /\ e[v] \in Int
          /\ c2[v] = c[v] - k /\ e2[v] = e[v] + k
      BY <1>1, <1>3
    <2> HIDE DEF k, d, before
    <2>2. c2[v] + e2[v] = c[v] + e[v] /\ c2[v] - d = c[v] - before /\ (before <= c[v] => d <= c2[v])
      BY <2>1
    <2>3. VenueKeeps(c[v], e[v], before)
      BY <1>4 DEF before
    <2>4. VenueKeeps(c2[v], e2[v], d)
      BY <2>2, <2>3 DEF VenueKeeps
    <2> QED
      BY <2>4 DEF d
  <1>5. AllocationKeeps(e2, rest, found)
    <2>1. AllocationKeeps(e, todo, found)
      BY DEF Keeps
    <2>2. AtWork(e2, rest) = AtWork(e, todo)
      BY <1>1, <1>3 DEF AtWork, OverVenues, Venues
    <2> QED
      BY <2>1, <2>2 DEF AllocationKeeps
  <1>6. /\ q2.count = [q.count EXCEPT ![leg.side] = q.count[leg.side] + leg.size]
        /\ q2.venue = [q.venue EXCEPT ![leg.side] = leg.venue]
    BY DEF blendLot, Position
  <1> HIDE DEF q2
  <1>7. ASSUME NEW s \in Sides
        PROVE  WillHold(q2, rest, s) = WillHold(q, todo, s)
    <2>1. q.count \in [Sides -> Nat] /\ q.count[s] \in Nat
      BY DEF Position
    <2>2. q2.count[s] = q.count[s] + contractsOf(leg, s)
      BY <1>2, <1>6, <2>1 DEF contractsOf
    <2> QED
      BY <1>1, <2>1, <2>2 DEF WillHold
  <1>8. ASSUME NEW s \in Sides
        PROVE  WillUse(q2, rest, s) = WillUse(q, todo, s)
    <2> DEFINE r == [q EXCEPT !.venue[leg.side] = leg.venue]
    <2>1. r.venue = q2.venue
      BY <1>6 DEF Position
    <2> HIDE DEF r
    <2>2. WillUse(q2, rest, s) = WillUse(r, rest, s)
      BY <2>1 DEF WillUse
    <2>3. WillUse(q, todo, s) = WillUse(r, rest, s)
      BY <1>1 DEF r
    <2> QED
      BY <2>2, <2>3
  <1>9. MarketKeeps(q2, rest)
    BY <1>7 DEF Keeps, MarketKeeps, Sides
  <1>10. ASSUME NEW s \in Sides
         PROVE  LET v == WillUse(q2, rest, s)
                IN  v \in Venues /\ VenueKeeps(c2[v], e2[v], centsDue(rest, v))
    <2> DEFINE v == WillUse(q, todo, s)
    <2>1. v \in Venues /\ VenueKeeps(c[v], e[v], centsDue(todo, v))
      BY DEF Keeps
    <2>2. v = WillUse(q2, rest, s)
      BY <1>8
    <2> HIDE DEF v
    <2>3. VenueKeeps(c2[v], e2[v], centsDue(rest, v))
      BY <1>4, <2>1
    <2> QED
      BY <2>1, <2>2, <2>3
  <1>11. Keeps(c2, e2, q2, rest, found)
    BY <1>5, <1>9, <1>10 DEF Keeps
  <1> QED
    BY <1>11 DEF c2, e2, q2, leg, rest, spent

-----------------------------------------------------------------------------
(* A pair that is approved *)

\* A hundredth is rounded toward zero.
LEMMA HundredthBelow ==
  ASSUME NEW a \in Int
  PROVE  /\ truncDiv(a, 100) \in Int
         /\ a >= 0 => 100 * truncDiv(a, 100) <= a
         /\ a < 0 => truncDiv(a, 100) <= 0
  BY DEF truncDiv

\* What the reserve leaves to spend, said of what remains.
LEMMA ReserveRemains ==
  ASSUME NEW c \in Int, NEW e \in Int, NEW d \in Int, d <= c, c >= 0,
         d <= truncDiv((c + e) * (100 - Limits.venue_reserve_pct), 100) - e
  PROVE  VenueKeeps(c, e, d)
  <1> DEFINE pct == Limits.venue_reserve_pct
             part == 100 - pct
             worth == c + e
             spare == worth * part
             kept == worth * pct
             room == truncDiv(spare, 100)
  <1>1. pct \in Nat /\ part \in Nat /\ worth \in Int
    BY LimitsAssumption DEF RiskLimits
  <1> HIDE DEF worth
  <1>2. spare \in Int /\ kept \in Int /\ spare + kept = 100 * worth
    <2>1. part = 100 - pct
      OBVIOUS
    <2> HIDE DEF pct, part
    <2>2. worth * part \in Int /\ worth * pct \in Int
      BY <1>1
    <2>3. worth * part + worth * pct = worth * (part + pct)
      BY <1>1
    <2>4. part + pct = 100
      BY <1>1, <2>1
    <2> QED
      BY <1>1, <2>2, <2>3, <2>4
  <1>3. CASE spare >= 0
    <2>1. 100 * room <= spare /\ room \in Int
      BY <1>2, <1>3, HundredthBelow
    <2>2. d <= room - e
      BY DEF worth
    <2> HIDE DEF spare, kept, room, pct
    <2>3. 100 * d + 100 * e <= spare
      BY <2>1, <2>2, <1>2
    <2>4. kept <= 100 * (c - d)
      BY <1>2, <2>3 DEF worth
    <2> QED
      BY <2>4 DEF VenueKeeps, kept, worth, pct
  <1>4. CASE spare < 0
    <2>1. worth < 0
      <3>1. worth >= 0 => spare \in Nat
        BY <1>1, ProductNat
      <3> HIDE DEF spare
      <3> QED
        BY <1>1, <1>4, <3>1
    <2>2. (-worth) * pct \in Nat
      <3>1. -worth \in Nat
        BY <1>1, <2>1
      <3> QED
        BY <1>1, <3>1, ProductNat
    <2>3. kept <= 0
      <3> HIDE DEF pct
      <3>1. (-worth) * pct = -(worth * pct)
        BY <1>1
      <3> QED
        BY <1>1, <2>2, <3>1
    <2> HIDE DEF kept, pct
    <2>4. kept <= 100 * (c - d)
      BY <1>2, <2>3
    <2> QED
      BY <2>4 DEF VenueKeeps, kept, worth, pct
  <1> QED
    BY <1>2, <1>3, <1>4

\* A pair that fits in the allocation's room.
LEMMA AllocationFits ==
  ASSUME NEW all \in Int, NEW atWork \in Int, NEW spent \in Int,
         spent <= truncDiv(all * Limits.max_allocation_pct, 100) - atWork,
         atWork + spent > 0
  PROVE  100 * (atWork + spent) <= all * Limits.max_allocation_pct
  <1> DEFINE share == all * Limits.max_allocation_pct
             room == truncDiv(share, 100)
  <1>1. share \in Int
    <2>1. Limits.max_allocation_pct \in Int
      BY LimitsAssumption DEF RiskLimits
    <2> QED
      BY <2>1
  <1> HIDE DEF share
  <1>2. /\ room \in Int /\ (share >= 0 => 100 * room <= share) /\ (share < 0 => room <= 0)
    BY <1>1, HundredthBelow
  <1>3. spent <= room - atWork
    BY DEF share
  <1> HIDE DEF room
  <1>4. 100 * (atWork + spent) <= share
    BY <1>1, <1>2, <1>3
  <1> QED
    BY <1>4 DEF share

(* A pair within the contract cap, its venues' cash and reserves and the
   allocation leaves a book within every limit, once it is booked, whatever the
   book was. *)
LEMMA PairKeeps ==
  ASSUME NEW c \in [Venues -> Int], NEW e \in [Venues -> Int], NEW p, NEW q \in Position,
         Balanced(q), NEW r, \A v \in Venues : r[v] = 0,
         NEW yes, NEW no, LegOf(yes, YesSided), LegOf(no, NoSided),
         NEW n, yes.size = n, no.size = n, 2 * n <= contractRoom(q, Limits),
         LET book == [cash |-> c, exposure |-> e, reserved |-> r, pos |-> p]
         IN  /\ \A v \in {yes.venue, no.venue} :
                  /\ spentAt(yes, no, n, v) <= venueCash(book, v)
                  /\ spentAt(yes, no, n, v) <= reserveRoom(book, v, Limits)
             /\ pairCost(yes, no, n) <= allocationRoom(book, Limits)
  PROVE  Keeps(c, e, q, <<yes, no>>, OverVenues(c))
  <1> DEFINE book == [cash |-> c, exposure |-> e, reserved |-> r, pos |-> p]
             legs == <<yes, no>>
  <1>1. \A v : /\ centsDue(legs, v) = spentAt(yes, no, n, v)
               /\ centsOf(yes, v) \in Nat /\ centsOf(no, v) \in Nat
               /\ spentAt(yes, no, n, v) = centsOf(yes, v) + centsOf(no, v)
    BY CentsOfType DEF centsDue, centsOf, spentAt
  <1>2. \A s : contractsDue(legs, s) = contractsOf(yes, s) + contractsOf(no, s)
    BY DEF contractsDue
  <1>3. yes.venue \in Venues /\ no.venue \in Venues /\ n \in Nat
    BY DEF LegOf, QuotedLeg
  <1>4. WillUse(q, legs, YesSided) = yes.venue /\ WillUse(q, legs, NoSided) = no.venue
    BY DEF WillUse, LegOf, YesSided, NoSided
  <1> HIDE DEF legs
  <1>5. ASSUME NEW v \in {yes.venue, no.venue} PROVE VenueKeeps(c[v], e[v], centsDue(legs, v))
    <2> DEFINE d == centsDue(legs, v)
               worth == (c[v] + e[v]) * (100 - Limits.venue_reserve_pct)
    <2>0. c[v] \in Int /\ e[v] \in Int /\ r[v] = 0
      BY <1>3
    <2>1. /\ d \in Nat /\ d <= venueCash(book, v) /\ d <= reserveRoom(book, v, Limits)
      BY <1>1
    <2>2. d >= 1
      BY <1>1, CentsOfType
    <2>3. venueCash(book, v) = IF c[v] - 0 > 0 THEN c[v] - 0 ELSE 0
      BY <2>0 DEF venueCash
    <2>4. reserveRoom(book, v, Limits) = truncDiv(worth, 100) - e[v] - 0
      BY <2>0 DEF reserveRoom
    <2>5. truncDiv(worth, 100) \in Int
      <3>1. 100 - Limits.venue_reserve_pct \in Int
        BY LimitsAssumption DEF RiskLimits
      <3>2. worth \in Int
        BY <2>0, <3>1
      <3> QED
        BY <3>2, HundredthBelow
    <2> HIDE DEF d, book, worth
    <2>6. d <= c[v] /\ c[v] >= 0
      BY <2>0, <2>1, <2>2, <2>3
    <2>7. d <= truncDiv(worth, 100) - e[v]
      BY <2>0, <2>1, <2>4, <2>5
    <2>8. VenueKeeps(c[v], e[v], d)
      BY <2>0, <2>1, <2>6, <2>7, ReserveRemains DEF worth
    <2> QED
      BY <2>8 DEF d
  <1>6. AllocationKeeps(e, legs, OverVenues(c))
    <2> DEFINE spend == [v \in Venues |-> centsDue(legs, v)]
               all == OverVenues(c)
               atWork == OverVenues(e)
               cost == pairCost(yes, no, n)
    <2>1. all \in Int /\ atWork \in Int /\ OverVenues(r) = 0
      BY DEF OverVenues, Venues
    <2>2. OverVenues(spend) = cost
      <3>1. /\ legCost(yes, n) = centsOf(yes, yes.venue) /\ legCost(no, n) = centsOf(no, no.venue)
        BY DEF centsOf
      <3>2. OverVenues(spend) = legCost(yes, n) + legCost(no, n)
        BY <1>1, <1>3, <3>1 DEF OverVenues, Venues, centsOf, Kalshi, Polymarket, Gemini
      <3> QED
        BY <3>2 DEF pairCost
    <2>3. cost <= allocationRoom(book, Limits) /\ cost \in Int
      BY <1>3, PairCostType DEF LegOf, QuotedLeg
    <2>4. allocationRoom(book, Limits) = truncDiv((all - 0) * Limits.max_allocation_pct, 100) - atWork
      BY <2>1 DEF allocationRoom
    <2>5. AtWork(e, legs) = atWork + cost
      BY <2>2 DEF AtWork
    <2> HIDE DEF all, atWork, cost, book
    <2>6. all - 0 = all
      BY <2>1
    <2>7. cost <= truncDiv(all * Limits.max_allocation_pct, 100) - atWork
      BY <2>3, <2>4, <2>6
    <2>8. atWork + cost > 0 => 100 * (atWork + cost) <= all * Limits.max_allocation_pct
      BY <2>1, <2>3, <2>7, AllocationFits
    <2> QED
      BY <2>5, <2>8 DEF AllocationKeeps, all
  <1>7. MarketKeeps(q, legs)
    <2>1. \A s \in Sides : q.count[s] \in Nat
      BY DEF Position
    <2>2. q.count[YesSided] = q.count[NoSided]
      BY <2>1 DEF Balanced, surplus, Sides
    <2>3. contractsDue(legs, YesSided) = n /\ contractsDue(legs, NoSided) = n
      BY <1>2, <1>3 DEF contractsOf, LegOf, YesSided, NoSided
    <2>4. q.count[YesSided] + n + (q.count[NoSided] + n) <= Limits.max_contracts
      <3>1. Limits.max_contracts \in Nat
        BY LimitsAssumption DEF RiskLimits
      <3> QED
        BY <1>3, <2>1, <3>1 DEF contractRoom, Sides
    <2> QED
      BY <1>3, <2>1, <2>2, <2>3, <2>4 DEF MarketKeeps, WillHold, Sides
  <1>8. \A s \in Sides : LET v == WillUse(q, legs, s)
                         IN  v \in Venues /\ VenueKeeps(c[v], e[v], centsDue(legs, v))
    BY <1>3, <1>4, <1>5 DEF Sides
  <1> QED
    BY <1>6, <1>7, <1>8 DEF Keeps, legs

-----------------------------------------------------------------------------
(* A replay *)

\* With that book, the fill at the head of f is booked: a pair's next leg, or
\* the sale of a leftover.
BookedPair(c, e, q, f) == Paired(f.todo) /\ Keeps(c, e, q, Tail(f.todo), f.found)
BookedSale(q, f) == Balanced(q) /\ \E l \in Leg : ~l.buy /\ l.price >= 0 /\ f.todo = <<l>>

\* With that book, f.market's position being q, a thread in state f.
Stands(c, e, q, f) ==
  \/ f.pc = "idle"
  \/ f.pc = "sell" /\ ~Balanced(q)
  \/ f.pc = "apply" /\ ~Balanced(q) /\ f.todo = <<surplusSellIntent(q)>>
  \/ f.pc = "apply" /\ Paired(f.todo) /\ Keeps(c, e, q, f.todo, f.found)
  \/ f.pc \in {"note", "halt"} /\ (BookedPair(c, e, q, f) \/ BookedSale(q, f))

Alone(t) == \A u \in Feeds \ {t} : feed[u].pc = "idle"

\* The threads tick one at a time, after main has loaded the book.
ReplayInv ==
  replay =>
    /\ up => unloaded = {}
    /\ \A v \in Venues : reserved[v] = 0
    /\ \A m \in Markets : HeldSomewhere(pos[m])
    /\ \A t \in Feeds : feed[t].pc # "idle" =>
         up /\ Alone(t) /\ Stands(cash, exposure, pos[feed[t].market], feed[t])

LEMMA AfterFillStands ==
  ASSUME NEW c, NEW e, NEW q, NEW f \in FeedState, f.market \in Markets,
         BookedPair(c, e, q, f) \/ BookedSale(q, f)
  PROVE  /\ Stands(c, e, q, AfterFill(f))
         /\ AfterFill(f).pc # "idle" => AfterFill(f).market = f.market
         /\ AfterFill(f).pc = "idle" => Tail(f.todo) = <<>>
  <1>1. CASE BookedSale(q, f)
    <2>1. Len(f.todo) = 1 /\ Tail(f.todo) = <<>>
      BY <1>1 DEF BookedSale
    <2>2. AfterFill(f).pc = "idle"
      BY <2>1 DEF AfterFill, IdleFeed
    <2> QED
      BY <2>1, <2>2 DEF Stands
  <1>2. CASE BookedPair(c, e, q, f)
    <2>1. \/ Tail(f.todo) = <<>> /\ Len(f.todo) = 1
          \/ Paired(Tail(f.todo)) /\ Len(f.todo) = 2
      BY <1>2, DueSplits DEF BookedPair
    <2>2. CASE Tail(f.todo) = <<>> /\ Len(f.todo) = 1
      <3>1. AfterFill(f).pc = "idle"
        BY <2>2 DEF AfterFill, IdleFeed
      <3> QED
        BY <2>2, <3>1 DEF Stands
    <2>3. CASE Paired(Tail(f.todo)) /\ Len(f.todo) = 2
      <3>1. AfterFill(f) = [f EXCEPT !.pc = "apply", !.todo = Tail(@)]
        BY <2>3 DEF AfterFill
      <3>2. /\ AfterFill(f).pc = "apply" /\ AfterFill(f).market = f.market
            /\ AfterFill(f).todo = Tail(f.todo) /\ AfterFill(f).found = f.found
        BY <3>1 DEF FeedState
      <3> QED
        BY <1>2, <2>3, <3>2 DEF Stands, BookedPair
    <2> QED
      BY <2>1, <2>2, <2>3
  <1> QED
    BY <1>1, <1>2

\* A step of the one thread that ticks.
LEMMA LoneFeedMoves ==
  ASSUME WellTyped, ReplayInv, replay, NEW t \in Feeds, Alone(t), NEW f, Goto(t, f), up,
         UNCHANGED <<replay, bootVars, reserved>>, \A m \in Markets : HeldSomewhere(pos'[m]),
         f.pc # "idle" => Stands(cash', exposure', pos'[f.market], f)
  PROVE  ReplayInv'
  <1>1. feed' = [feed EXCEPT ![t] = f] /\ feed \in [Feeds -> FeedState]
    BY DEF Goto, WellTyped
  <1>2. feed'[t] = f /\ \A u \in Feeds \ {t} : feed'[u].pc = "idle"
    BY <1>1 DEF Alone
  <1>3. \A u \in Feeds : (feed[u].pc # "idle" =>
                            up /\ Alone(u) /\ Stands(cash, exposure, pos[feed[u].market], feed[u]))'
    <2> SUFFICES ASSUME NEW u \in Feeds, feed'[u].pc # "idle"
                 PROVE  (up /\ Alone(u) /\ Stands(cash, exposure, pos[feed[u].market], feed[u]))'
      OBVIOUS
    <2>1. u = t /\ feed'[u] = f
      BY <1>2
    <2>2. Alone(u)'
      BY <1>2, <2>1 DEF Alone
    <2>3. Stands(cash', exposure', pos'[feed'[u].market], feed'[u])
      BY <2>1
    <2>4. Stands(cash, exposure, pos[feed[u].market], feed[u])'
      BY <2>3 DEF Stands, BookedPair, BookedSale, Keeps, MarketKeeps, WillHold, VenueKeeps,
                  AllocationKeeps, AtWork
    <2> QED
      BY <2>2, <2>4 DEF bootVars
  <1>4. (\A m \in Markets : HeldSomewhere(pos[m]))'
    BY DEF HeldSomewhere
  <1>5. (\A v \in Venues : reserved[v] = 0)'
    BY DEF ReplayInv
  <1>6. (up => unloaded = {})'
    BY DEF ReplayInv, bootVars
  <1> QED
    BY <1>3, <1>4, <1>5, <1>6 DEF ReplayInv

\* A fill leaves every contract with the venue it was bought on.
LEMMA BookedSomewhere ==
  ASSUME WellTyped, NEW m \in Markets, HeldSomewhere(pos[m]), NEW f \in Leg,
         f.buy => f.venue # NoVenue, updatePortfolio(m, f)
  PROVE  HeldSomewhere(pos'[m]) /\ \A x \in Markets \ {m} : pos'[x] = pos[x]
  <1>0. pos[m] \in Position /\ DOMAIN pos = Markets /\ f.side \in Sides /\ f.size \in Nat
    BY DEF WellTyped, TypeOK, PortfolioTypeOK, Leg
  <1>1. CASE ~fillApplies(m, f)
    BY <1>1 DEF updatePortfolio
  <1>2. CASE fillApplies(m, f) /\ f.buy
    <2>1. pos' = [pos EXCEPT ![m] = blendLot(pos[m], f.side, f.venue, f.size, f.price)]
      BY <1>2 DEF updatePortfolio, applyBuy
    <2> QED
      BY <1>0, <1>2, <2>1, BoughtSomewhere
  <1>3. CASE fillApplies(m, f) /\ ~f.buy
    <2> DEFINE n == soldSize(pos[m], f)
    <2>1. pos' = [pos EXCEPT ![m] = sellLot(pos[m], f.side, n)]
      BY <1>3 DEF updatePortfolio, applySell
    <2>2. n \in 0..pos[m].count[f.side]
      BY <1>0 DEF soldSize, Position
    <2> HIDE DEF n
    <2> QED
      BY <1>0, <2>1, <2>2, SoldSomewhere
  <1> QED
    BY <1>1, <1>2, <1>3

\* What a replay's thread does next.
LEMMA FillStepMoves ==
  ASSUME WellTyped, ReplayInv, replay, NEW t \in Feeds, FillStep(t)
  PROVE  LET f == feed[t]
         IN  /\ f \in FeedState /\ f.market \in Markets /\ up /\ Alone(t)
             /\ UNCHANGED <<replay, bootVars, reserved>>
             /\ \A m \in Markets : HeldSomewhere(pos'[m])
             /\ \/ /\ ~Balanced(pos'[f.market])
                   /\ Goto(t, [f EXCEPT !.pc = "apply", !.todo = <<surplusSellIntent(pos'[f.market])>>])
                \/ /\ \/ BookedPair(cash', exposure', pos'[f.market], f)
                      \/ BookedSale(pos'[f.market], f)
                   /\ \/ Goto(t, AfterFill(f))
                      \/ Goto(t, [f EXCEPT !.pc = "note"])
                      \/ Goto(t, [f EXCEPT !.pc = "halt"])
  <1> DEFINE f == feed[t]
             m == f.market
  <1>1. f.pc # "idle" /\ UNCHANGED <<replay, bootVars, reserved>>
    BY DEF FillStep, SellSurplus, ApplyFill, NoteFill, NoteFillTooLate, KillSwitch,
           updatePortfolio, bookVars
  <1>2. /\ f \in FeedState /\ FeedReady(f) /\ m \in Markets
        /\ pos \in [Markets -> Position] /\ pos[m] \in Position
        /\ cash \in [Venues -> Int] /\ exposure \in [Venues -> Int]
    BY <1>1 DEF WellTyped, TypeOK, PortfolioTypeOK, FeedReady
  <1>3. /\ up /\ Alone(t) /\ Stands(cash, exposure, pos[m], f)
        /\ \A x \in Markets : HeldSomewhere(pos[x])
    BY <1>1 DEF ReplayInv
  <1>4. CASE SellSurplus(t)
    <2> DEFINE sell == surplusSellIntent(pos[m])
    <2>1. f.pc = "sell" /\ UNCHANGED bookVars /\ pos' = pos
      BY <1>4 DEF SellSurplus, bookVars
    <2>2. ~Balanced(pos[m])
      BY <1>3, <2>1 DEF Stands
    <2>3. sell.venue # NoVenue
      BY <1>2, <1>3, <2>2, LeftoverHasVenue
    <2>4. Goto(t, [f EXCEPT !.pc = "apply", !.todo = <<sell>>])
      BY <1>4, <2>2, <2>3 DEF SellSurplus, Executioner
    <2> QED
      BY <1>1, <1>2, <1>3, <2>1, <2>2, <2>4
  <1>5. CASE ApplyFill(t)
    <2> DEFINE leg == Head(f.todo)
    <2>1. f.pc = "apply" /\ updatePortfolio(m, leg)
      BY <1>5 DEF ApplyFill, Filling
    <2>2. Goto(t, AfterFill(f)) \/ Goto(t, [f EXCEPT !.pc = "note"])
      BY <1>5 DEF ApplyFill
    <2>3. leg \in Leg /\ leg.price >= 0
      BY <1>2, <2>1, FillsAreLegs DEF FeedReady
    <2>4. CASE ~Balanced(pos[m]) /\ f.todo = <<surplusSellIntent(pos[m])>>
      <3> DEFINE n == soldSize(pos[m], leg)
      <3>1. leg = surplusSellIntent(pos[m]) /\ f.todo = <<leg>>
        BY <2>4
      <3>2. ~leg.buy
        BY <3>1 DEF surplusSellIntent
      <3>3. leg.size > 0 /\ n >= 1 /\ Balanced(sellLot(pos[m], leg.side, n))
        BY <1>2, <2>4, <3>1, SaleBalances
      <3>4. pos' = [pos EXCEPT ![m] = sellLot(pos[m], leg.side, n)]
        BY <2>1, <3>2, <3>3 DEF updatePortfolio, fillApplies, applySell
      <3>5. BookedSale(pos'[m], f)
        <4> HIDE DEF leg
        <4>1. pos'[m] = sellLot(pos[m], leg.side, n)
          BY <1>2, <3>4
        <4> QED
          BY <2>3, <3>1, <3>2, <3>3, <4>1 DEF BookedSale
      <3>6. \A x \in Markets : HeldSomewhere(pos'[x])
        BY <1>2, <1>3, <2>1, <2>3, <3>2, BookedSomewhere
      <3> QED
        BY <1>1, <1>2, <1>3, <2>2, <3>5, <3>6
    <2>5. CASE Paired(f.todo) /\ Keeps(cash, exposure, pos[m], f.todo, f.found)
      <3>1. leg \in QuotedLeg /\ leg.size >= 1
        BY <2>5, DueSplits
      <3>2. fillApplies(m, leg) /\ leg.buy /\ leg.venue # NoVenue
        <4> HIDE DEF leg
        <4>1. leg.buy = TRUE
          BY <3>1 DEF QuotedLeg
        <4>2. leg.size > 0 /\ leg.venue # NoVenue
          BY <3>1 DEF QuotedLeg, Venues, NoVenue, Kalshi, Polymarket, Gemini
        <4> QED
          BY <4>1, <4>2, Zenon DEF fillApplies
      <3>3. /\ cash' = [cash EXCEPT ![leg.venue] = cash[leg.venue] - legCost(leg, leg.size)]
            /\ exposure' = [exposure EXCEPT ![leg.venue] =
                              exposure[leg.venue] + legCost(leg, leg.size)]
            /\ pos' = [pos EXCEPT ![m] =
                         blendLot(pos[m], leg.side, leg.venue, leg.size, leg.price)]
        <4>1. applyBuy(m, leg)
          BY <2>1, <3>2 DEF updatePortfolio
        <4>2. legCost(leg, leg.size) = leg.size * leg.price + fillFee(leg)
          BY DEF legCost, fillFee
        <4> QED
          BY <4>1, <4>2 DEF applyBuy
      <3>4. pos'[m] = blendLot(pos[m], leg.side, leg.venue, leg.size, leg.price)
        BY <1>2, <3>3
      <3>5. Keeps(cash', exposure', pos'[m], Tail(f.todo), f.found)
        BY <1>2, <2>5, <3>3, <3>4, BookingKeeps
      <3>6. \A x \in Markets : HeldSomewhere(pos'[x])
        BY <1>2, <1>3, <2>1, <2>3, <3>2, BookedSomewhere
      <3> QED
        BY <1>1, <1>2, <1>3, <2>2, <2>5, <3>5, <3>6 DEF BookedPair
    <2> QED
      BY <1>3, <2>1, <2>4, <2>5 DEF Stands
  <1>6. CASE NoteFill(t) \/ NoteFillTooLate(t) \/ KillSwitch(t)
    <2>1. UNCHANGED bookVars /\ f.pc \in {"note", "halt"}
      BY <1>6 DEF NoteFill, NoteFillTooLate, KillSwitch
    <2>2. cash' = cash /\ exposure' = exposure /\ pos' = pos
      BY <2>1 DEF bookVars
    <2>3. Goto(t, [f EXCEPT !.pc = "halt"]) \/ Goto(t, AfterFill(f))
      BY <1>6 DEF NoteFill, NoteFillTooLate, KillSwitch, AfterNote
    <2>4. BookedPair(cash, exposure, pos[m], f) \/ BookedSale(pos[m], f)
      BY <1>3, <2>1 DEF Stands
    <2> QED
      BY <1>1, <1>2, <1>3, <2>2, <2>3, <2>4
  <1> QED
    BY <1>4, <1>5, <1>6 DEF FillStep

LEMMA FillStepKeeps ==
  ASSUME WellTyped, ReplayInv, replay, NEW t \in Feeds, FillStep(t)
  PROVE  ReplayInv'
  <1> DEFINE f == feed[t]
             m == f.market
             q == pos'[m]
             sold == [f EXCEPT !.pc = "apply", !.todo = <<surplusSellIntent(q)>>]
             noted == [f EXCEPT !.pc = "note"]
             halting == [f EXCEPT !.pc = "halt"]
             Booked == BookedPair(cash', exposure', q, f) \/ BookedSale(q, f)
  <1>1. /\ f \in FeedState /\ m \in Markets /\ up /\ Alone(t)
        /\ UNCHANGED <<replay, bootVars, reserved>>
        /\ \A x \in Markets : HeldSomewhere(pos'[x])
        /\ \/ ~Balanced(q) /\ Goto(t, sold)
           \/ Booked /\ (Goto(t, AfterFill(f)) \/ Goto(t, noted) \/ Goto(t, halting))
    BY FillStepMoves
  <1> HIDE DEF q
  <1>2. CASE ~Balanced(q) /\ Goto(t, sold)
    <2>1. sold.pc = "apply" /\ sold.todo = <<surplusSellIntent(q)>> /\ sold.market = m
      BY <1>1 DEF FeedState
    <2>2. Stands(cash', exposure', pos'[sold.market], sold)
      BY <1>2, <2>1 DEF Stands, q
    <2> HIDE DEF sold
    <2> QED
      BY <1>1, <1>2, <2>2, LoneFeedMoves
  <1>3. CASE Booked /\ Goto(t, AfterFill(f))
    <2>1. /\ Stands(cash', exposure', q, AfterFill(f))
          /\ AfterFill(f).pc # "idle" => AfterFill(f).market = m
      BY <1>1, <1>3, AfterFillStands
    <2> QED
      BY <1>1, <1>3, <2>1, LoneFeedMoves DEF q
  <1>4. ASSUME NEW g \in {noted, halting}, Booked, Goto(t, g) PROVE ReplayInv'
    <2>1. /\ g.pc \in {"note", "halt"} /\ g.market = m /\ g.todo = f.todo /\ g.found = f.found
      BY <1>1 DEF FeedState
    <2>2. Stands(cash', exposure', pos'[g.market], g)
      BY <1>4, <2>1 DEF Stands, BookedPair, BookedSale, q
    <2> QED
      BY <1>1, <1>4, <2>2, LoneFeedMoves
  <1> QED
    BY <1>1, <1>2, <1>3, <1>4

LEMMA TickKeeps ==
  ASSUME WellTyped, ReplayInv, replay, NEW t \in Feeds, NEW m \in Markets,
         NEW view \in MarketViews[m], PairTick(t, m, view)
  PROVE  ReplayInv'
  <1> DEFINE idea == strategize(view)
             n == approve_pair(idea[YesSided], idea[NoSided], m, getPortfolio, Limits, killed).size
             a == idea[YesSided]
             b == idea[NoSided]
             yes == sized(view, n, YesSided)
             no == sized(view, n, NoSided)
             f == [pc |-> "apply", market |-> m, found |-> OverVenues(cash), todo |-> <<yes, no>>]
  <1>1. /\ a \in QuotedLeg /\ a.price >= 1 /\ a.side = YesSided
        /\ b \in QuotedLeg /\ b.price >= 1 /\ b.side = NoSided
        /\ BookType(getPortfolio, m) /\ n \in Nat
        /\ approve_pair(a, b, m, getPortfolio, Limits, killed).reason = "Ok"
        /\ yes \in QuotedLeg /\ no \in QuotedLeg /\ Goto(t, f)
    BY ApprovedPair DEF Sides
  <1>2. yes = [a EXCEPT !.size = n] /\ no = [b EXCEPT !.size = n]
    BY DEF sized
  <1>3. /\ n >= 1 /\ 2 * n <= contractRoom(getPortfolio.pos[m], Limits)
        /\ \A v \in {a.venue, b.venue} : /\ spentAt(a, b, n, v) <= venueCash(getPortfolio, v)
                                         /\ spentAt(a, b, n, v) <= reserveRoom(getPortfolio, v, Limits)
        /\ pairCost(a, b, n) <= allocationRoom(getPortfolio, Limits)
    BY <1>1, LimitsAssumption, ApprovedFits
  <1>4. /\ Alone(t) /\ up /\ Balanced(pos[m])
        /\ UNCHANGED <<bookVars, bootVars, replay>>
    BY DEF PairTick, CanTick, Alone
  <1>5. /\ cash \in [Venues -> Int] /\ exposure \in [Venues -> Int] /\ pos[m] \in Position
        /\ \A v \in Venues : reserved[v] = 0
        /\ \A x \in Markets : HeldSomewhere(pos[x])
    BY DEF WellTyped, TypeOK, PortfolioTypeOK, ReplayInv
  <1> HIDE DEF n, a, b
  <1>6. /\ yes.venue = a.venue /\ yes.price = a.price /\ yes.side = a.side /\ yes.size = n
        /\ no.venue = b.venue /\ no.price = b.price /\ no.side = b.side /\ no.size = n
    BY <1>1, <1>2 DEF QuotedLeg
  <1> HIDE DEF yes, no
  <1>7. /\ \A v : spentAt(yes, no, n, v) = spentAt(a, b, n, v)
        /\ pairCost(yes, no, n) = pairCost(a, b, n)
    BY <1>6 DEF spentAt, pairCost, legCost
  <1>8. LegOf(yes, YesSided) /\ LegOf(no, NoSided)
    BY <1>1, <1>3, <1>6 DEF LegOf
  <1>9. Keeps(cash, exposure, pos[m], <<yes, no>>, OverVenues(cash))
    <2>1. getPortfolio = [cash |-> cash, exposure |-> exposure, reserved |-> reserved, pos |-> pos]
      BY DEF getPortfolio
    <2>2. 2 * n <= contractRoom(pos[m], Limits)
      BY <1>3, <2>1
    <2>3. LET book == [cash |-> cash, exposure |-> exposure, reserved |-> reserved, pos |-> pos]
          IN  /\ \A v \in {yes.venue, no.venue} :
                   /\ spentAt(yes, no, n, v) <= venueCash(book, v)
                   /\ spentAt(yes, no, n, v) <= reserveRoom(book, v, Limits)
              /\ pairCost(yes, no, n) <= allocationRoom(book, Limits)
      BY <1>3, <1>6, <1>7, <2>1
    <2>4. yes.size = n /\ no.size = n
      BY <1>6
    <2> QED
      BY <1>4, <1>5, <1>8, <2>2, <2>3, <2>4, PairKeeps
  <1>10. Stands(cash', exposure', pos'[m], f)
    <2>1. Paired(<<yes, no>>)
      BY <1>6, <1>8 DEF Paired
    <2>2. f.pc = "apply" /\ f.todo = <<yes, no>> /\ f.found = OverVenues(cash)
      OBVIOUS
    <2>3. cash' = cash /\ exposure' = exposure /\ pos' = pos
      BY <1>4 DEF bookVars
    <2> QED
      BY <1>9, <2>1, <2>2, <2>3 DEF Stands
  <1>11. f.market = m
    OBVIOUS
  <1>12. reserved' = reserved /\ \A x \in Markets : HeldSomewhere(pos'[x])
    BY <1>4, <1>5 DEF bookVars
  <1> HIDE DEF f
  <1> QED
    BY <1>1, <1>4, <1>10, <1>11, <1>12, LoneFeedMoves

LEMMA FlattenKeeps ==
  ASSUME WellTyped, ReplayInv, replay, NEW t \in Feeds, NEW m \in Markets, FlattenTick(t, m)
  PROVE  ReplayInv'
  <1> DEFINE f == [pc |-> "sell", market |-> m, found |-> 0, todo |-> <<>>]
  <1>1. /\ Goto(t, f) /\ up /\ Alone(t) /\ ~Balanced(pos[m])
        /\ UNCHANGED <<bookVars, bootVars, replay>>
    BY DEF FlattenTick, CanTick, OneSided, Alone
  <1>2. pos' = pos /\ reserved' = reserved /\ \A x \in Markets : HeldSomewhere(pos'[x])
    BY <1>1 DEF bookVars, ReplayInv
  <1>3. Stands(cash', exposure', pos'[f.market], f)
    BY <1>1, <1>2 DEF Stands
  <1> HIDE DEF f
  <1> QED
    BY <1>1, <1>2, <1>3, LoneFeedMoves

\* The book is loaded, and a tape opened, while no thread ticks.
LEMMA LoadKeeps ==
  ASSUME WellTyped, ReplayInv, replay, Load
  PROVE  ReplayInv'
  <1>1. UNCHANGED <<replay, reserved, feed>> /\ unloaded \subseteq Lot
    BY DEF Load, LoadLot, addVenueLot, refreshVenueCash, WellTyped, TypeOK
  <1>2. ~up
    BY DEF Load, LoadLot, refreshVenueCash, ReplayInv
  <1>3. \A t \in Feeds : feed[t].pc = "idle"
    BY <1>2 DEF ReplayInv
  <1>4. up' => unloaded' = {}
    BY <1>2 DEF Load, LoadLot, refreshVenueCash
  <1>5. \A m \in Markets : HeldSomewhere(pos'[m])
    <2>1. ASSUME NEW lot \in unloaded, LoadLot(lot), NEW m \in Markets
          PROVE  HeldSomewhere(pos'[m])
      <3>1. /\ lot.market \in Markets /\ lot.side \in Sides /\ lot.venue # NoVenue
        BY <1>1, <2>1 DEF Lot, Venues, NoVenue, Kalshi, Polymarket, Gemini
      <3>2. pos' = [pos EXCEPT ![lot.market] =
                      blendLot(pos[lot.market], lot.side, lot.venue, lot.count, lot.avg)]
        BY <2>1 DEF LoadLot, addVenueLot
      <3>3. /\ pos \in [Markets -> Position] /\ pos[lot.market] \in Position
            /\ HeldSomewhere(pos[lot.market]) /\ HeldSomewhere(pos[m])
        BY <3>1 DEF WellTyped, TypeOK, PortfolioTypeOK, ReplayInv
      <3>4. HeldSomewhere(blendLot(pos[lot.market], lot.side, lot.venue, lot.count, lot.avg))
        BY <3>1, <3>3, BoughtSomewhere
      <3> QED
        BY <3>1, <3>2, <3>3, <3>4
    <2>2. CASE refreshVenueCash
      BY <2>2 DEF refreshVenueCash, ReplayInv
    <2> QED
      BY <2>1, <2>2 DEF Load
  <1>6. (\A m \in Markets : HeldSomewhere(pos[m]))'
    BY <1>5 DEF HeldSomewhere
  <1>7. \A t \in Feeds : ~(feed[t].pc # "idle")'
    BY <1>1, <1>3
  <1>8. (\A v \in Venues : reserved[v] = 0)'
    BY <1>1 DEF ReplayInv
  <1> QED
    BY <1>4, <1>6, <1>7, <1>8 DEF ReplayInv

LEMMA NewTapeKeeps ==
  ASSUME ReplayInv, replay, StartReplay
  PROVE  ReplayInv'
  <1>1. UNCHANGED <<replay, reserved, pos, bootVars, feed>> /\ \A t \in Feeds : feed[t].pc = "idle"
    BY DEF StartReplay
  <1>2. \A t \in Feeds : ~(feed[t].pc # "idle")'
    BY <1>1
  <1> QED
    BY <1>1, <1>2 DEF ReplayInv, HeldSomewhere, bootVars

LEMMA NextKeeps ==
  ASSUME WellTyped, ReplayInv, [Next]_vars
  PROVE  ReplayInv'
  <1>1. replay' = replay
    BY DEF Next, FillStep, SellSurplus, ApplyFill, NoteFill, NoteFillTooLate, KillSwitch, Load,
           LoadLot, refreshVenueCash, FlattenTick, PairTick, StartReplay, Stop, Expire, vars
  <1>2. CASE ~replay
    BY <1>1, <1>2 DEF ReplayInv
  <1>3. CASE replay
    <2>1. ASSUME NEW t \in Feeds, FillStep(t) PROVE ReplayInv'
      BY <1>3, <2>1, FillStepKeeps
    <2>2. ASSUME NEW t \in Feeds, NEW m \in Markets, FlattenTick(t, m) PROVE ReplayInv'
      BY <1>3, <2>2, FlattenKeeps
    <2>3. ASSUME NEW t \in Feeds, NEW m \in Markets, NEW view \in MarketViews[m],
                 PairTick(t, m, view)
          PROVE  ReplayInv'
      BY <1>3, <2>3, TickKeeps
    <2>4. CASE Load
      BY <1>3, <2>4, LoadKeeps
    <2>5. CASE StartReplay
      BY <1>3, <2>5, NewTapeKeeps
    <2>6. CASE Stop \/ (\E m \in Markets : Expire(m)) \/ UNCHANGED vars
      <3>1. UNCHANGED <<bookVars, bootVars, replay, feed>>
        BY <2>6 DEF Stop, Expire, vars
      <3> QED
        BY <3>1 DEF ReplayInv, Alone, Stands, BookedPair, BookedSale, Keeps, MarketKeeps, WillHold,
                    VenueKeeps, AllocationKeeps, AtWork, HeldSomewhere, bookVars, bootVars
    <2> QED
      BY <2>1, <2>2, <2>3, <2>4, <2>5, <2>6 DEF Next
  <1> QED
    BY <1>2, <1>3

LEMMA InitKeeps ==
  ASSUME Init
  PROVE  ReplayInv
  BY DEF Init, IdleFeed, ReplayInv, HeldSomewhere, EmptyPosition

\* The last fill of a tick: nothing is due any more.
LEMMA LastFillKeeps ==
  ASSUME WellTyped, ReplayInv, replay, NEW t \in Feeds, FillStep(t), feed'[t].pc = "idle",
         NEW m \in Markets, feed[t].market = m
  PROVE  /\ Balanced(pos'[m])
         /\ Buys(t) =>
              /\ WithinCap(m)'
              /\ \A v \in {pos'[m].venue[s] : s \in Sides} : KeepsReserve(v)'
              /\ \A found \in {feed[t].found} : WithinAllocation(found)'
  <1> DEFINE f == feed[t]
             q == pos'[m]
  <1>1. /\ f \in FeedState
        /\ \/ Goto(t, [f EXCEPT !.pc = "apply", !.todo = <<surplusSellIntent(q)>>])
           \/ /\ BookedPair(cash', exposure', q, f) \/ BookedSale(q, f)
              /\ \/ Goto(t, AfterFill(f))
                 \/ Goto(t, [f EXCEPT !.pc = "note"])
                 \/ Goto(t, [f EXCEPT !.pc = "halt"])
    BY FillStepMoves
  <1>2. \A g : Goto(t, g) => g.pc = "idle"
    BY DEF Goto, WellTyped
  <1>3. /\ [f EXCEPT !.pc = "apply", !.todo = <<surplusSellIntent(q)>>].pc = "apply"
        /\ [f EXCEPT !.pc = "note"].pc = "note" /\ [f EXCEPT !.pc = "halt"].pc = "halt"
    BY <1>1 DEF FeedState
  <1>4. /\ BookedPair(cash', exposure', q, f) \/ BookedSale(q, f)
        /\ AfterFill(f).pc = "idle"
    BY <1>1, <1>2, <1>3
  <1>5. /\ cash' \in [Venues -> Int] /\ exposure' \in [Venues -> Int] /\ q \in Position
    <2>1. WellTyped'
      BY FillStepTyped
    <2> QED
      BY <2>1 DEF WellTyped, TypeOK, PortfolioTypeOK
  <1> HIDE DEF q
  <1>6. CASE BookedSale(q, f)
    <2>1. Balanced(q) /\ ~Buys(t)
      BY <1>6 DEF BookedSale, Buys
    <2> QED
      BY <2>1 DEF q
  <1>7. CASE BookedPair(cash', exposure', q, f)
    <2>1. Keeps(cash', exposure', q, <<>>, f.found)
      BY <1>1, <1>4, <1>5, <1>7, AfterFillStands DEF BookedPair
    <2>2. \A s : contractsDue(<<>>, s) = 0 /\ WillUse(q, <<>>, s) = q.venue[s]
      BY DEF contractsDue, WillUse
    <2>3. \A v : centsDue(<<>>, v) = 0
      BY DEF centsDue
    <2>4. \A s \in Sides : q.count[s] \in Nat /\ WillHold(q, <<>>, s) = q.count[s]
      BY <1>5, <2>2 DEF WillHold, Position
    <2>5. Balanced(q) /\ q.count[YesSided] + q.count[NoSided] <= Limits.max_contracts
      BY <2>1, <2>4 DEF Keeps, MarketKeeps, Balanced, surplus, Sides
    <2>6. ASSUME NEW s \in Sides, NEW v, v = q.venue[s] PROVE KeepsReserve(v)'
      <3>1. v \in Venues /\ VenueKeeps(cash'[v], exposure'[v], 0)
        BY <2>1, <2>2, <2>3, <2>6 DEF Keeps
      <3>2. cash'[v] \in Int /\ cash'[v] - 0 = cash'[v]
        BY <1>5, <3>1
      <3>3. /\ cash'[v] >= 0
            /\ 100 * cash'[v] >= (cash'[v] + exposure'[v]) * Limits.venue_reserve_pct
        <4> DEFINE kept == (cash'[v] + exposure'[v]) * Limits.venue_reserve_pct
        <4>1. 0 <= cash'[v] /\ kept <= 100 * cash'[v]
          BY <3>1, <3>2 DEF VenueKeeps
        <4>2. kept \in Int
          BY <1>5, <3>1, LimitsAssumption DEF RiskLimits
        <4> HIDE DEF kept
        <4>3. cash'[v] >= 0 /\ 100 * cash'[v] >= kept
          BY <3>2, <4>1, <4>2
        <4> QED
          BY <4>3 DEF kept
      <3> QED
        BY <3>3 DEF KeepsReserve
    <2>7. ASSUME NEW found, found = f.found PROVE WithinAllocation(found)'
      <3>1. AtWork(exposure', <<>>) = OverVenues(exposure')
        BY <1>5, <2>3 DEF AtWork, OverVenues, Venues
      <3>2. OverVenues(exposure') > 0 =>
              100 * OverVenues(exposure') <= f.found * Limits.max_allocation_pct
        BY <2>1, <3>1 DEF Keeps, AllocationKeeps
      <3> QED
        BY <2>7, <3>2 DEF WithinAllocation, OverVenues
    <2> QED
      BY <2>5, <2>6, <2>7 DEF WithinCap, q
  <1> QED
    BY <1>4, <1>6, <1>7

(* A replay may start from anything: a market held on one side, above the
   contract cap or on two venues, exposure beyond what a hundred dollars a venue
   allow.  Whatever the venues reported and the tapes before left, every tick
   that trades leaves its market in whole pairs, and every tick that buys leaves
   it within the contract cap, the venues of its legs not overdrawn and with
   their reserve unspent, and no more at work than max_allocation_pct of the
   cash it found: for any limits, quotes, reports and number of tapes
   (risk.hpp:133-201, main.cpp:348, 408, 425). *)
THEOREM ReplayKeepsLimitsHolds == Spec => ReplayKeepsLimits
  <1>1. Init => WellTyped /\ ReplayInv
    BY InitTyped, InitKeeps
  <1>2. WellTyped /\ ReplayInv /\ [Next]_vars => (WellTyped /\ ReplayInv)'
    BY NextTyped, NextKeeps
  <1> DEFINE Kept == \A t \in Feeds, m \in Markets :
               replay /\ TickEnds(t) /\ feed[t].market = m =>
                 /\ Balanced(pos'[m])
                 /\ Buys(t) =>
                      /\ WithinCap(m)'
                      /\ \A v \in {pos'[m].venue[s] : s \in Sides} : KeepsReserve(v)'
                      /\ \A found \in {feed[t].found} : WithinAllocation(found)'
  <1>3. WellTyped /\ ReplayInv /\ Next => Kept
    <2> SUFFICES ASSUME WellTyped, ReplayInv, Next, replay, NEW t \in Feeds, TickEnds(t),
                        NEW m \in Markets, feed[t].market = m
                 PROVE  FillStep(t)
      BY LastFillKeeps DEF TickEnds
    <2>1. feed[t].pc # "idle" /\ feed'[t] # feed[t]
      BY DEF TickEnds
    <2>2. ASSUME NEW u \in Feeds, NEW g, Goto(u, g) PROVE u = t
      BY <2>1, <2>2 DEF Goto, WellTyped
    <2>3. ASSUME NEW u \in Feeds, FillStep(u) PROVE u = t
      <3>1. \E g : Goto(u, g)
        BY <2>3 DEF FillStep, SellSurplus, ApplyFill, NoteFill, NoteFillTooLate, KillSwitch
      <3> QED
        BY <2>2, <3>1
    <2>4. ASSUME NEW u \in Feeds, NEW x \in Markets, FlattenTick(u, x) PROVE FALSE
      <3>1. (\E g : Goto(u, g)) /\ feed[u].pc = "idle"
        BY <2>4 DEF FlattenTick, CanTick
      <3> QED
        BY <2>1, <2>2, <3>1
    <2>5. ASSUME NEW u \in Feeds, NEW x \in Markets, NEW view \in MarketViews[x],
                 PairTick(u, x, view)
          PROVE  FALSE
      <3>1. (\E g : Goto(u, g)) /\ feed[u].pc = "idle"
        BY <2>5 DEF PairTick, CanTick
      <3> QED
        BY <2>1, <2>2, <3>1
    <2>6. ASSUME Load \/ StartReplay \/ Stop \/ (\E x \in Markets : Expire(x)) PROVE FALSE
      BY <2>1, <2>6 DEF Load, LoadLot, refreshVenueCash, StartReplay, Stop, Expire
    <2> QED
      BY <2>3, <2>4, <2>5, <2>6 DEF Next
  <1>4. WellTyped /\ ReplayInv /\ [Next]_vars => [Kept]_vars
    BY <1>3
  <1> QED
    BY <1>1, <1>2, <1>4, PTL DEF Spec, ReplayKeepsLimits
=============================================================================
