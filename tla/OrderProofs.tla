---------------------------- MODULE OrderProofs ----------------------------
(***************************************************************************)
(* The order path implements the lock and the stamp dispenser, every       *)
(* market has a slot, a request means what its leg means, and the book     *)
(* takes what was executed: for any number of threads, markets and slots,  *)
(* any orders and any wall clock.                                          *)
(*                                                                         *)
(* The slots are in order when no market has two and a free slot is off.   *)
(* A thread that works on a market keeps the market's flag on, so that a   *)
(* market whose flag is off has no holder.                                 *)
(*                                                                         *)
(* A fill is followed from the leg to the book: what a request asks for    *)
(* (RequestIs), what its executions can be (ExecutionsAreFair), what they  *)
(* cost or earn (NothingWorse), what the reply says of them (ResultIs) and *)
(* what is booked of the reply (FillIsGood).  The contracts on their way   *)
(* are a sum over the threads whose reply is being read; one step adds or  *)
(* removes one term (ContractsMove).                                       *)
(***************************************************************************)
EXTENDS OrderPath, PricingProofs

Works(t) == order[t].pc # "idle"

SlotsInOrder ==
  /\ ids \in [Slots -> Markets \cup {NoMarket}]
  /\ on \in [Slots -> BOOLEAN]
  /\ \A i, j \in Slots : ids[i] = ids[j] /\ ids[i] # NoMarket => i = j
  /\ \A i \in Slots : ids[i] = NoMarket => ~on[i]

OrdersShaped ==
  /\ DOMAIN order = Threads
  /\ \A t \in Threads : {"pc", "market"} \subseteq DOMAIN order[t]
  /\ \A t \in Threads : order[t].pc = "sign" => order[t].leg.venue \in Venues

WorkersHold ==
  /\ \A t \in Threads : Works(t) => order[t].market \in Markets /\ InFlight(order[t].market)
  /\ \A t, u \in Threads : Works(t) /\ Works(u) /\ order[t].market = order[u].market => t = u

-----------------------------------------------------------------------------
(* Slots *)

LEMMA FirstIsMember ==
  ASSUME NEW T \in SUBSET Slots, T # {}
  PROVE  FirstOf(T) \in T
  <1>1. \A i \in Slots : i \in Nat
    BY SlotsAssumption DEF Slots
  <1>2. PICK i \in T : \A j \in T : ~(<<j, i>> \in OpToRel(<, Nat))
    <2>1. T \subseteq Nat
      BY <1>1
    <2> QED
      BY <2>1, WFMin, NatLessThanWellFounded
  <1>3. \A j \in T : i <= j
    <2> SUFFICES ASSUME NEW j \in T PROVE i <= j
      OBVIOUS
    <2>1. <<j, i>> \in Nat \X Nat
      BY <1>1
    <2>2. ~(j < i)
      BY <1>2, <2>1, Zenon DEF OpToRel
    <2> QED
      BY <1>1, <2>2
  <1> QED
    BY <1>3 DEF FirstOf

\* A market with a slot has just one.
LEMMA OwnSlot ==
  ASSUME SlotsInOrder, NEW m \in Markets, NEW i \in Slots, ids[i] = m
  PROVE  FirstOf(SlotsOf(m)) = i
  <1>1. FirstOf(SlotsOf(m)) \in SlotsOf(m)
    BY FirstIsMember DEF SlotsOf
  <1> QED
    BY <1>1, SlotsAssumption DEF SlotsOf, SlotsInOrder

\* By counting: with as many slots as markets, a market without a slot leaves
\* one free.
LEMMA FreeSlot ==
  ASSUME SlotsInOrder, NEW m \in Markets, SlotsOf(m) = {}
  PROVE  SlotsOf(NoMarket) # {}
  <1> SUFFICES ASSUME SlotsOf(NoMarket) = {} PROVE FALSE
    OBVIOUS
  <1> DEFINE others == Markets \ {m}
  <1>1. ids \in [Slots -> others]
    BY DEF SlotsInOrder, SlotsOf
  <1>2. IsFiniteSet(Slots) /\ Cardinality(Slots) = kMax
    BY SlotsAssumption, FS_Interval DEF Slots
  <1>3. IsFiniteSet(others) /\ Cardinality(others) < kMax
    <2>1. Cardinality(Markets) \in Nat
      BY SlotsAssumption, FS_CardinalityType
    <2>2. IsFiniteSet(others) /\ Cardinality(others) = Cardinality(Markets) - 1
      BY SlotsAssumption, FS_RemoveElement
    <2> QED
      BY <2>1, <2>2, SlotsAssumption
  <1> HIDE DEF others
  <1>4. \E i, j \in Slots : i # j /\ ids[i] = ids[j]
    BY <1>1, <1>2, <1>3, FS_PigeonHole
  <1> QED
    BY <1>1, <1>4 DEF SlotsInOrder, SlotsOf

LEMMA AcquireTakesFlag ==
  ASSUME SlotsInOrder, NEW m \in Markets, tryAcquire(m)
  PROVE  /\ SlotsInOrder'
         /\ ~InFlight(m) /\ InFlight(m)'
         /\ \A n \in Markets : InFlight(n) => InFlight(n)'
  <1> DEFINE own == FirstOf(SlotsOf(m))
             free == FirstOf(SlotsOf(NoMarket))
  <1>0. m # NoMarket /\ Slots' = Slots
    BY SlotsAssumption DEF Slots
  <1>1. CASE /\ SlotsOf(m) # {} /\ ~on[own]
             /\ on' = [on EXCEPT ![own] = TRUE] /\ ids' = ids
    <2>1. own \in Slots /\ ids[own] = m
      BY <1>1, FirstIsMember DEF SlotsOf
    <2>2. \A i \in Slots : ids[i] = m => i = own
      BY OwnSlot
    <2> HIDE DEF own
    <2> QED
      BY <1>0, <1>1, <2>1, <2>2 DEF SlotsInOrder, InFlight
  <1>2. CASE /\ SlotsOf(m) = {} /\ SlotsOf(NoMarket) # {}
             /\ ids' = [ids EXCEPT ![free] = m] /\ on' = [on EXCEPT ![free] = TRUE]
    <2>1. free \in Slots /\ ids[free] = NoMarket
      BY <1>2, FirstIsMember DEF SlotsOf
    <2>2. \A i \in Slots : ids[i] # m
      BY <1>2 DEF SlotsOf
    <2> HIDE DEF free
    <2>3. \A i \in Slots : /\ ids'[i] = IF i = free THEN m ELSE ids[i]
                           /\ on'[i] = IF i = free THEN TRUE ELSE on[i]
      BY <1>2, <2>1 DEF SlotsInOrder
    <2>4. SlotsInOrder'
      BY <1>0, <1>2, <2>1, <2>2, <2>3 DEF SlotsInOrder
    <2> QED
      BY <1>0, <2>1, <2>2, <2>3, <2>4 DEF SlotsInOrder, InFlight
  <1> QED
    BY <1>1, <1>2 DEF tryAcquire

LEMMA ReleaseClearsFlag ==
  ASSUME SlotsInOrder, NEW m \in Markets, release(m)
  PROVE  /\ SlotsInOrder'
         /\ \A n \in Markets \ {m} : InFlight(n) => InFlight(n)'
  <1>0. m # NoMarket /\ Slots' = Slots /\ ids' = ids
    BY SlotsAssumption DEF Slots, release
  <1>1. CASE SlotsOf(m) = {}
    BY <1>0, <1>1 DEF release, SlotsInOrder, InFlight
  <1>2. CASE SlotsOf(m) # {}
    <2> DEFINE own == FirstOf(SlotsOf(m))
    <2>1. own \in Slots /\ ids[own] = m
      BY <1>2, FirstIsMember DEF SlotsOf
    <2>2. on' = [on EXCEPT ![own] = FALSE]
      BY <1>0, <1>2 DEF release
    <2> HIDE DEF own
    <2> QED
      BY <1>0, <2>1, <2>2 DEF SlotsInOrder, InFlight
  <1> QED
    BY <1>1, <1>2

(* In every state the slots can be in, a market that cannot be taken is in
   flight (live_busy.hpp:10-25). *)
LEMMA EveryMarketHasSlot == SlotsInOrder => SlotForEveryMarket
  <1> SUFFICES ASSUME SlotsInOrder, NEW m \in Markets, acquireFails(m)
               PROVE  InFlight(m)
    BY DEF SlotForEveryMarket
  <1>1. SlotsOf(m) # {} /\ on[FirstOf(SlotsOf(m))]
    BY FreeSlot, SlotsAssumption DEF acquireFails
  <1>2. FirstOf(SlotsOf(m)) \in Slots /\ ids[FirstOf(SlotsOf(m))] = m
    BY <1>1, FirstIsMember DEF SlotsOf
  <1> QED
    BY <1>1, <1>2 DEF InFlight

-----------------------------------------------------------------------------
(* The jobs *)

OrderInv == SlotsInOrder /\ OrdersShaped /\ WorkersHold /\ ClockTypeOK

LEMMA OrderInvInit == Init => OrderInv
  <1> SUFFICES ASSUME Init PROVE OrderInv
    OBVIOUS
  <1>1. SlotsInOrder
    BY DEF Init, FlagsOff, SlotsInOrder
  <1>2. OrdersShaped /\ WorkersHold
    BY DEF Init, IdleOrder, OrdersShaped, WorkersHold, Works
  <1>3. ClockTypeOK
    BY DEF Init, ClocksAtZero, NotSigning, ClockTypeOK, Signing, Venues
  <1> QED
    BY <1>1, <1>2, <1>3 DEF OrderInv

\* Steps that leave the slots alone and keep each thread's market.
LEMMA KeepsMarkets ==
  ASSUME OrderInv, NEW t \in Threads, NEW o, {"pc", "market"} \subseteq DOMAIN o,
         UNCHANGED slotVars, Works(t), Goto(t, o), o.market = order[t].market,
         o.pc \notin {"idle", "sign"}
  PROVE  SlotsInOrder' /\ OrdersShaped' /\ WorkersHold' /\ slotHolders' = slotHolders
  <1>1. /\ DOMAIN order' = Threads
        /\ order'[t] = o
        /\ \A u \in Threads \ {t} : order'[u] = order[u]
    BY DEF Goto, OrderInv, OrdersShaped
  <1>2. SlotsInOrder' /\ \A m \in Markets : InFlight(m)' <=> InFlight(m)
    BY DEF slotVars, OrderInv, SlotsInOrder, InFlight, Slots
  <1>3. OrdersShaped'
    BY <1>1 DEF OrderInv, OrdersShaped
  <1>4. WorkersHold'
    BY <1>1, <1>2 DEF OrderInv, WorkersHold, Works, InFlight, Slots, slotVars
  <1>5. slotHolders' = slotHolders
    BY <1>1 DEF slotHolders, Works
  <1> QED
    BY <1>2, <1>3, <1>4, <1>5

LEMMA AcquireHolds ==
  ASSUME OrderInv, NEW t \in Threads, NEW m \in Markets, NEW leg \in Orders, NEW live \in BOOLEAN,
         Acquire(t, m, leg, live)
  PROVE  OrderInv' /\ Lock!Next
  <1> DEFINE pc == IF leg.venue \in Keyed THEN "sign" ELSE "release"
             o  == [IdleOrder EXCEPT !.pc = pc, !.market = m, !.leg = leg,
                                     !.request = Request(leg, live)]
  <1>1. {"pc", "market"} \subseteq DOMAIN o /\ o.pc = pc /\ o.market = m /\ o.leg = leg
    BY DEF IdleOrder
  <1>2. order[t].pc = "idle" /\ order' = [order EXCEPT ![t] = o]
    BY DEF Acquire, Goes, Goto
  <1> HIDE DEF o
  <1>3. /\ DOMAIN order' = Threads
        /\ order'[t] = o
        /\ \A u \in Threads \ {t} : order'[u] = order[u]
    BY <1>2 DEF OrderInv, OrdersShaped
  <1>4. /\ SlotsInOrder'
        /\ ~InFlight(m) /\ InFlight(m)'
        /\ \A n \in Markets : InFlight(n) => InFlight(n)'
    BY AcquireTakesFlag DEF Acquire, OrderInv
  <1>5. OrdersShaped'
    BY <1>1, <1>3, OrdersAssumption DEF OrderInv, OrdersShaped
  <1>6. \A u \in Threads \ {t} : Works(u) => order[u].market # m
    BY <1>4 DEF OrderInv, WorkersHold
  <1>7. \A n \in Markets : InFlight(n)' <=> \E i \in Slots : ids'[i] = n /\ on'[i]
    BY DEF InFlight, Slots
  <1>8. WorkersHold'
    <2>1. ASSUME NEW u \in Threads, order'[u].pc # "idle"
          PROVE  order'[u].market \in Markets /\ \E i \in Slots : ids'[i] = order'[u].market /\ on'[i]
      BY <1>1, <1>3, <1>4, <1>7, <2>1 DEF OrderInv, WorkersHold, Works
    <2>2. ASSUME NEW u \in Threads, NEW v \in Threads,
                 order'[u].pc # "idle", order'[v].pc # "idle", order'[u].market = order'[v].market
          PROVE  u = v
      BY <1>1, <1>3, <1>6, <2>2 DEF OrderInv, WorkersHold, Works
    <2> QED
      BY <2>1, <2>2 DEF WorkersHold, Works, InFlight, Slots
  <1>9. ClockTypeOK'
    BY DEF Acquire, OrderInv, ClockTypeOK, clockVars
  <1>10. Lock!Take(m, t)
    <2>1. slotHolders[m] = {}
      BY <1>4 DEF slotHolders, OrderInv, WorkersHold, Works
    <2>2. ~Lock!Holding(t)
      BY <1>2 DEF Lock!Holding, slotHolders
    <2>3. pc # "idle"
      OBVIOUS
    <2>4. \A n \in Markets : {u \in Threads : order'[u].pc # "idle" /\ order'[u].market = n}
                               = IF n = m THEN {t} ELSE slotHolders[n]
      BY <1>1, <1>2, <1>3, <1>6, <2>3 DEF slotHolders, Works
    <2>5. slotHolders' = [slotHolders EXCEPT ![m] = {t}]
      BY <2>4 DEF slotHolders
    <2> QED
      BY <2>1, <2>2, <2>5 DEF Lock!Take
  <1> QED
    BY <1>4, <1>5, <1>8, <1>9, <1>10 DEF OrderInv, Lock!Next

LEMMA FinishHolds ==
  ASSUME OrderInv, NEW t \in Threads, Finish(t)
  PROVE  OrderInv' /\ Lock!Next
  <1> DEFINE m == order[t].market
  <1>1. Works(t) /\ m \in Markets
    BY DEF Finish, Goes, Works, OrderInv, WorkersHold
  <1>2. order' = [order EXCEPT ![t] = IdleOrder]
    BY DEF Finish, Goto
  <1>3. {"pc", "market"} \subseteq DOMAIN IdleOrder /\ IdleOrder.pc = "idle"
    BY DEF IdleOrder
  <1>4. /\ DOMAIN order' = Threads
        /\ order'[t] = IdleOrder
        /\ \A u \in Threads \ {t} : order'[u] = order[u]
    BY <1>2 DEF OrderInv, OrdersShaped
  <1>5. SlotsInOrder' /\ \A n \in Markets \ {m} : InFlight(n) => InFlight(n)'
    BY <1>1, ReleaseClearsFlag DEF Finish, OrderInv
  <1>6. \A u \in Threads \ {t} : Works(u) => order[u].market # m
    BY <1>1 DEF OrderInv, WorkersHold
  <1> HIDE DEF m
  <1>7. \A n \in Markets : InFlight(n)' <=> \E i \in Slots : ids'[i] = n /\ on'[i]
    BY DEF InFlight, Slots
  <1>8. WorkersHold'
    <2>1. ASSUME NEW u \in Threads, order'[u].pc # "idle"
          PROVE  order'[u].market \in Markets /\ \E i \in Slots : ids'[i] = order'[u].market /\ on'[i]
      BY <1>3, <1>4, <1>5, <1>6, <1>7, <2>1 DEF OrderInv, WorkersHold, Works
    <2>2. ASSUME NEW u \in Threads, NEW v \in Threads,
                 order'[u].pc # "idle", order'[v].pc # "idle", order'[u].market = order'[v].market
          PROVE  u = v
      BY <1>3, <1>4, <2>2 DEF OrderInv, WorkersHold, Works
    <2> QED
      BY <2>1, <2>2 DEF WorkersHold, Works, InFlight, Slots
  <1>9. OrdersShaped' /\ ClockTypeOK'
    BY <1>3, <1>4 DEF Finish, OrderInv, OrdersShaped, ClockTypeOK, clockVars
  <1>10. Lock!Release(m, t)
    <2>1. slotHolders[m] = {t}
      BY <1>1, <1>6 DEF slotHolders, Works, m
    <2>2. \A n \in Markets : {u \in Threads : order'[u].pc # "idle" /\ order'[u].market = n}
                               = IF n = m THEN {} ELSE slotHolders[n]
      BY <1>1, <1>3, <1>4, <1>6 DEF slotHolders, Works, m
    <2>3. slotHolders' = [slotHolders EXCEPT ![m] = {}]
      BY <2>2 DEF slotHolders
    <2> QED
      BY <2>1, <2>3 DEF Lock!Release
  <1> QED
    BY <1>1, <1>5, <1>8, <1>9, <1>10 DEF OrderInv, Lock!Next

\* Signing, sending and booking move no market.
LEMMA SignHolds ==
  ASSUME OrderInv, NEW t \in Threads, Sign(t)
  PROVE  SlotsInOrder' /\ OrdersShaped' /\ WorkersHold' /\ slotHolders' = slotHolders
  BY DEF Sign, slotVars, OrderInv, SlotsInOrder, OrdersShaped, WorkersHold, Works, InFlight,
         Slots, slotHolders

LEMMA MiddleHolds ==
  ASSUME OrderInv, NEW t \in Threads,
         Signed(t) \/ Executes(t) \/ NotReported(t) \/ Book(t)
  PROVE  SlotsInOrder' /\ OrdersShaped' /\ WorkersHold' /\ slotHolders' = slotHolders
  <1> DEFINE o == order[t]
     <1>0. {"pc", "market"} \subseteq DOMAIN o
    BY DEF OrderInv, OrdersShaped
  <1>1. CASE Signed(t)
    <2> DEFINE n == [o EXCEPT !.pc = "send"]
    <2>1. {"pc", "market"} \subseteq DOMAIN n /\ n.pc = "send" /\ n.market = o.market
      BY <1>0
    <2>2. Works(t) /\ Goto(t, n) /\ UNCHANGED slotVars
      BY <1>1 DEF Signed, Goes, Works
    <2> QED
      BY <2>1, <2>2, KeepsMarkets
  <1>2. CASE Executes(t)
    <2>1. PICK reply, trade : Goto(t, [o EXCEPT !.pc = "reply", !.reply = reply, !.trade = trade])
      BY <1>2 DEF Executes
    <2> DEFINE n == [o EXCEPT !.pc = "reply", !.reply = reply, !.trade = trade]
    <2>2. {"pc", "market"} \subseteq DOMAIN n /\ n.pc = "reply" /\ n.market = o.market
      BY <1>0
    <2>3. Works(t) /\ UNCHANGED slotVars
      BY <1>2 DEF Executes, Goes, Works
    <2> HIDE DEF n
    <2> QED
      BY <2>1, <2>2, <2>3, KeepsMarkets DEF n
  <1>3. CASE NotReported(t)
    <2> DEFINE n == [o EXCEPT !.pc = "reply", !.reply = [NoReply EXCEPT !.venue = o.leg.venue]]
    <2>1. {"pc", "market"} \subseteq DOMAIN n /\ n.pc = "reply" /\ n.market = o.market
      BY <1>0
    <2>2. Works(t) /\ Goto(t, n) /\ UNCHANGED slotVars
      BY <1>3 DEF NotReported, Goes, Works
    <2> QED
      BY <2>1, <2>2, KeepsMarkets
  <1>4. CASE Book(t)
    <2>1. PICK fill : \/ Goto(t, [o EXCEPT !.pc = "release", !.fill = fill])
                      \/ Goto(t, [o EXCEPT !.pc = "release"])
      BY <1>4 DEF Book
    <2>2. Works(t) /\ UNCHANGED slotVars
      BY <1>4 DEF Book, Goes, Works
    <2>3. CASE Goto(t, [o EXCEPT !.pc = "release", !.fill = fill])
      <3> DEFINE n == [o EXCEPT !.pc = "release", !.fill = fill]
      <3>1. {"pc", "market"} \subseteq DOMAIN n /\ n.pc = "release" /\ n.market = o.market
        BY <1>0
      <3> QED
        BY <2>2, <2>3, <3>1, KeepsMarkets
    <2>4. CASE Goto(t, [o EXCEPT !.pc = "release"])
      <3> DEFINE n == [o EXCEPT !.pc = "release"]
      <3>1. {"pc", "market"} \subseteq DOMAIN n /\ n.pc = "release" /\ n.market = o.market
        BY <1>0
      <3> QED
        BY <2>2, <2>4, <3>1, KeepsMarkets
    <2> QED
      BY <2>1, <2>3, <2>4
  <1> QED
    BY <1>1, <1>2, <1>3, <1>4

-----------------------------------------------------------------------------
(* The clocks *)

LEMMA CandidateIsLater ==
  ASSUME NEW s \in Signing
  PROVE  candidate(s) \in Nat /\ candidate(s) > s.prev
  BY DEF candidate, Signing

\* A step of nextMonotonicMs other than the swap gives out no stamp.
LEMMA ClockWaits ==
  ASSUME ClockTypeOK, NEW t \in Threads, NEW v \in Venues,
         ReadWall(t, v) \/ LoadLast(t) \/ SwapFails(t)
  PROVE  ClockTypeOK' /\ UNCHANGED <<last, stamp>>
  <1>1. CASE ReadWall(t, v)
    BY <1>1, MaxWallAssumption DEF ReadWall, ClockTypeOK, Signing
  <1>2. CASE LoadLast(t)
    BY <1>2 DEF LoadLast, ClockTypeOK, Signing
  <1>3. CASE SwapFails(t)
    BY <1>3 DEF SwapFails, ClockTypeOK, Signing
  <1> QED
    BY <1>1, <1>2, <1>3

\* The swap gives out one higher than the clock's last: no other swap came
\* between, or it would have failed.
LEMMA SwapIssues ==
  ASSUME ClockTypeOK, NEW t \in Threads, Swap(t)
  PROVE  ClockTypeOK' /\ Dispenser!Next
  <1> DEFINE c == signing[t].venue
             s == candidate(signing[t])
  <1>1. signing[t] \in Signing /\ c \in Venues
    BY DEF ClockTypeOK, Signing
  <1>2. s \in Nat /\ s > last[c]
    BY <1>1, CandidateIsLater DEF Swap
  <1>3. last' = [last EXCEPT ![c] = s] /\ stamp' = [stamp EXCEPT ![t] = s]
    BY DEF Swap
  <1>4. signing' = [signing EXCEPT ![t] = NotSigning] /\ NotSigning \in Signing
    BY DEF Swap, NotSigning, Signing, Venues
  <1> HIDE DEF s, c
  <1>5. ClockTypeOK'
    BY <1>1, <1>2, <1>3, <1>4 DEF ClockTypeOK
  <1>6. stamp'[t] = s
    BY <1>3 DEF ClockTypeOK
  <1>7. Dispenser!Issue(c, t)
    BY <1>2, <1>3, <1>6 DEF Dispenser!Issue
  <1> QED
    BY <1>1, <1>5, <1>7 DEF Dispenser!Next

-----------------------------------------------------------------------------
(* Executions *)

LEMMA DivBounds ==
  ASSUME NEW a \in Nat, NEW n \in Nat \ {0}
  PROVE  a \div n \in Nat /\ n * (a \div n) <= a /\ a < n * (a \div n) + n
  <1>1. a = n * (a \div n) + (a % n) /\ a % n \in 0..(n - 1) /\ a \div n \in Int
    OBVIOUS
  <1> DEFINE d == a \div n
             m == n * d
  <1>2. m \in Int
    BY <1>1
  <1>3. d >= 0
    OBVIOUS
  <1> QED
    BY <1>1, <1>2, <1>3

\* The average of prices is one, within half a cent a contract, and on the same
\* side of a limit as the prices.
LEMMA AverageRounds ==
  ASSUME NEW n \in Nat \ {0}, NEW total \in Nat, n <= total, total <= n * 99
  PROVE  LET px == parseAverage(total, n)
         IN  /\ px \in Prices
             /\ 2 * (n * px) <= 2 * total + n /\ 2 * total <= 2 * (n * px) + n
             /\ \A limit \in Nat : total <= n * limit => px <= limit
  <1> DEFINE tenths == (10 * total) \div n
             px == (tenths + 5) \div 10
  <1>1. 10 * total \in Nat
    OBVIOUS
  <1>2. tenths \in Nat /\ n * tenths <= 10 * total /\ 10 * total < n * tenths + n
    BY <1>1, DivBounds
  <1> HIDE DEF tenths
  <1>3. px \in Nat /\ 10 * px <= tenths + 5 /\ tenths + 5 < 10 * px + 10
    BY <1>2
  <1>4. parseAverage(total, n) = px
    BY DEF parseAverage, tenths
  <1> HIDE DEF px
  <1>5. /\ n * (10 * px) <= n * (tenths + 5)
        /\ n * (tenths - 4) <= n * (10 * px)
    <2>1. \A x, y \in Int : x <= y => n * x <= n * y
      <3> SUFFICES ASSUME NEW x \in Int, NEW y \in Int, x <= y PROVE n * x <= n * y
        OBVIOUS
      <3>1. n * (y - x) \in Nat
        BY ProductNat
      <3> QED
        BY <3>1
    <2> QED
      BY <1>2, <1>3, <2>1
  <1>6. n * px \in Nat /\ n * tenths \in Nat
    BY <1>2, <1>3
  <1>7. n * (10 * px) = 10 * (n * px) /\ n * (tenths + 5) = n * tenths + 5 * n
        /\ n * (tenths - 4) = n * tenths - 4 * n
    BY <1>2, <1>3
  <1>8. 2 * (n * px) <= 2 * total + n /\ 2 * total <= 2 * (n * px) + n
    BY <1>2, <1>5, <1>6, <1>7
  <1>9. ASSUME NEW limit \in Nat, total <= n * limit PROVE px <= limit
    <2>1. n * tenths <= n * (10 * limit)
      BY <1>2, <1>6, <1>9
    <2>2. tenths <= 10 * limit
      <3> SUFFICES ASSUME tenths >= 10 * limit + 1 PROVE FALSE
        BY <1>2
      <3>1. n * (tenths - (10 * limit + 1)) \in Nat
        BY <1>2, ProductNat
      <3> QED
        BY <1>2, <2>1, <3>1
    <2> QED
      BY <1>2, <1>3, <2>2
  <1>10. px >= 1
    <2>1. tenths >= 10
      <3> SUFFICES ASSUME tenths <= 9 PROVE FALSE
        BY <1>2
      <3>1. n * (9 - tenths) \in Nat
        BY <1>2, ProductNat
      <3> QED
        BY <1>2, <1>6, <3>1
    <2> QED
      BY <1>2, <1>3, <2>1
  <1> QED
    BY <1>3, <1>4, <1>8, <1>9, <1>10 DEF Prices

LEMMA SumOfOne ==
  ASSUME NEW f, DOMAIN f = {1}, f[1] \in Int
  PROVE  SumFunction(f) = f[1]
  BY SumOverOne DEF SumFunction

LEMMA SumOfTwo ==
  ASSUME NEW f, DOMAIN f = {1, 2}, f[1] \in Int, f[2] \in Int
  PROVE  SumFunction(f) = f[1] + f[2]
  <1>1. {1, 2} = {1} \cup {2} /\ 2 \notin {1} /\ \A x \in {1} \cup {2} : f[x] \in Int
    OBVIOUS
  <1>2. SumFunctionOnSet(f, {1} \cup {2}) = f[2] + SumFunctionOnSet(f, {1})
    BY <1>1, FS_Singleton, SumOneMore
  <1> QED
    BY <1>1, <1>2, SumOverOne DEF SumFunction

\* What is known of the executions of a request: contracts, cents, and the
\* price of the last.
Fair(request, n, total, px) ==
  /\ n \in 1..request.count
  /\ request.tif = "fill_or_kill" => n = request.count
  /\ px \in Prices /\ total \in Nat /\ n <= total /\ total <= n * 99
  /\ Buys(request) => px <= request.price /\ total <= n * request.price /\ total <= n * px
  /\ ~Buys(request) => px >= request.price /\ total >= n * request.price /\ n * px <= total

LEMMA Scale ==
  ASSUME NEW n \in Nat, NEW x \in Int, NEW y \in Int, x <= y
  PROVE  n * x <= n * y
  <1>1. n * (y - x) \in Nat
    BY ProductNat
  <1> QED
    BY <1>1

\* One execution, or two: the sums and the last price.
LEMMA OneExecution ==
  ASSUME NEW n \in Nat, NEW p \in Nat
  PROVE  LET ex == <<[shares |-> n, price |-> p]>>
         IN  Shares(ex) = n /\ Total(ex) = n * p /\ Last(ex).price = p
  <1> DEFINE ex == <<[shares |-> n, price |-> p]>>
             f == [i \in DOMAIN ex |-> ex[i].shares]
             g == [i \in DOMAIN ex |-> ex[i].shares * ex[i].price]
  <1>1. DOMAIN f = {1} /\ f[1] = n /\ DOMAIN g = {1} /\ g[1] = n * p
    OBVIOUS
  <1>2. Shares(ex) = SumFunction(f) /\ Total(ex) = SumFunction(g)
    BY DEF Shares, Total
  <1>3. Last(ex).price = p
    BY DEF Last
  <1> HIDE DEF f, g
  <1>4. SumFunction(f) = n /\ SumFunction(g) = n * p
    BY <1>1, ProductNat, SumOfOne
  <1> QED
    BY <1>2, <1>3, <1>4

LEMMA TwoExecutions ==
  ASSUME NEW n \in Nat, NEW p \in Nat, NEW m \in Nat, NEW q \in Nat
  PROVE  LET ex == <<[shares |-> n, price |-> p], [shares |-> m, price |-> q]>>
         IN  Shares(ex) = n + m /\ Total(ex) = n * p + m * q /\ Last(ex).price = q
  <1> DEFINE ex == <<[shares |-> n, price |-> p], [shares |-> m, price |-> q]>>
             f == [i \in DOMAIN ex |-> ex[i].shares]
             g == [i \in DOMAIN ex |-> ex[i].shares * ex[i].price]
  <1>1. DOMAIN f = {1, 2} /\ f[1] = n /\ f[2] = m
        /\ DOMAIN g = {1, 2} /\ g[1] = n * p /\ g[2] = m * q
    OBVIOUS
  <1>2. Shares(ex) = SumFunction(f) /\ Total(ex) = SumFunction(g)
    BY DEF Shares, Total
  <1>3. Last(ex).price = q
    BY DEF Last
  <1> HIDE DEF f, g
  <1>4. SumFunction(f) = n + m
    BY <1>1, SumOfTwo
  <1>5. SumFunction(g) = n * p + m * q
    BY <1>1, ProductNat, SumOfTwo
  <1> QED
    BY <1>2, <1>3, <1>4, <1>5

\* The orders ask for at least one contract at a price a contract can have.
LEMMA OrderIs ==
  ASSUME NEW leg \in Orders
  PROVE  /\ leg \in Leg /\ leg.venue \in Venues /\ leg.price \in Prices
         /\ leg.size \in Nat \ {0} /\ leg.buy \in BOOLEAN /\ leg.side \in Sides
  BY OrdersAssumption DEF Leg

\* On Kalshi a no leg is sent to the other side of the yes book, at the complement.
Mirrored(leg) == leg.venue = Kalshi /\ leg.side = NoSided

LEMMA RequestIs ==
  ASSUME NEW leg \in Orders, NEW live \in BOOLEAN
  PROVE  LET request == Request(leg, live)
         IN  /\ request.count = leg.size
             /\ request.tif = timeInForce(live)
             /\ request.price = IF Mirrored(leg) THEN 100 - leg.price ELSE leg.price
             /\ request.price \in Prices
             /\ IF Mirrored(leg) THEN Buys(request) <=> ~leg.buy ELSE Buys(request) <=> leg.buy
             /\ request.word = "ask" <=> leg.venue = Kalshi /\ ~Buys(request)
  <1> DEFINE request == Request(leg, live)
  <1>0. /\ leg.price \in Prices /\ 100 - leg.price \in Prices /\ leg.price > 0
        /\ leg.side = YesSided \/ leg.side = NoSided
        /\ leg.buy = TRUE \/ leg.buy = FALSE
    BY OrderIs DEF Prices, Sides
  <1>1. CASE leg.venue = Kalshi
    <2>1. request = kalshiRequest(leg, live)
      BY <1>1 DEF Request, Kalshi, Polymarket, Gemini
    <2>2. /\ request.count = leg.size /\ request.tif = timeInForce(live)
          /\ request.word = IF leg.buy = (leg.side = YesSided) THEN "bid" ELSE "ask"
          /\ request.price = IF leg.side = YesSided THEN leg.price ELSE complementCents(leg.price)
      BY <2>1 DEF kalshiRequest
    <2>3. complementCents(leg.price) = 100 - leg.price
      BY <1>0 DEF complementCents, kDollarCents, Prices
    <2>4. YesSided # NoSided
      BY DEF YesSided, NoSided
    <2>5. request.word = "bid" <=> (leg.buy <=> leg.side = YesSided)
      BY <1>0, <2>2
    <2>6. request.word \in {"bid", "ask"} /\ (Buys(request) <=> request.word = "bid")
      BY <2>2 DEF Buys
    <2> HIDE DEF request
    <2>7. request.price = IF Mirrored(leg) THEN 100 - leg.price ELSE leg.price
      BY <1>0, <1>1, <2>2, <2>3, <2>4 DEF Mirrored
    <2>8. IF Mirrored(leg) THEN Buys(request) <=> ~leg.buy ELSE Buys(request) <=> leg.buy
      BY <1>0, <1>1, <2>4, <2>5, <2>6 DEF Mirrored
    <2> QED
      BY <1>0, <1>1, <2>2, <2>6, <2>7, <2>8 DEF request
  <1>2. ASSUME NEW word, NEW venue, ~(leg.venue = Kalshi),
               request = [venue |-> venue, word |-> word, price |-> leg.price,
                          count |-> leg.size, tif |-> timeInForce(live)],
               word # "ask", Buys(request) <=> leg.buy
        PROVE  /\ request.count = leg.size
               /\ request.tif = timeInForce(live)
               /\ request.price = IF Mirrored(leg) THEN 100 - leg.price ELSE leg.price
               /\ request.price \in Prices
               /\ IF Mirrored(leg) THEN Buys(request) <=> ~leg.buy ELSE Buys(request) <=> leg.buy
               /\ request.word = "ask" <=> leg.venue = Kalshi /\ ~Buys(request)
    <2>1. request.count = leg.size /\ request.tif = timeInForce(live)
          /\ request.price = leg.price /\ request.word = word
      BY <1>2
    <2> HIDE DEF request
    <2> QED
      BY <1>0, <1>2, <2>1 DEF Mirrored
  <1>3. CASE leg.venue = Polymarket
    <2> DEFINE word == FourWords(leg, "BUY_LONG", "BUY_SHORT", "SELL_LONG", "SELL_SHORT")
    <2>1. leg.venue # Kalshi /\ request = polymarketRequest(leg, live)
      BY <1>3 DEF Request, Kalshi, Polymarket, Gemini
    <2>2. request = [venue |-> Polymarket, word |-> word, price |-> leg.price,
                     count |-> leg.size, tif |-> timeInForce(live)]
      BY <2>1 DEF polymarketRequest
    <2>3. word \in IF leg.buy THEN {"BUY_LONG", "BUY_SHORT"} ELSE {"SELL_LONG", "SELL_SHORT"}
      BY <1>0 DEF FourWords
    <2> HIDE DEF word
    <2>4. request.word = word
      BY <2>2
    <2>5. word # "ask" /\ (Buys(request) <=> leg.buy)
      BY <1>0, <2>3, <2>4 DEF Buys
    <2> HIDE DEF request
    <2> QED
      BY <1>2, <2>1, <2>2, <2>5 DEF request
  <1>4. CASE leg.venue = Gemini
    <2> DEFINE word == FourWords(leg, "buy_yes", "buy_no", "sell_yes", "sell_no")
    <2>1. leg.venue # Kalshi /\ request = geminiRequest(leg, live)
      BY <1>4 DEF Request, Kalshi, Polymarket, Gemini
    <2>2. request = [venue |-> Gemini, word |-> word, price |-> leg.price,
                     count |-> leg.size, tif |-> timeInForce(live)]
      BY <2>1 DEF geminiRequest
    <2>3. word \in IF leg.buy THEN {"buy_yes", "buy_no"} ELSE {"sell_yes", "sell_no"}
      BY <1>0 DEF FourWords
    <2> HIDE DEF word
    <2>4. request.word = word
      BY <2>2
    <2>5. word # "ask" /\ (Buys(request) <=> leg.buy)
      BY <1>0, <2>3, <2>4 DEF Buys
    <2> HIDE DEF request
    <2> QED
      BY <1>2, <2>1, <2>2, <2>5 DEF request
  <1> HIDE DEF request
  <1>5. leg.venue \in {Kalshi, Polymarket, Gemini}
    BY OrderIs DEF Venues
  <1> QED
    BY <1>1, <1>3, <1>4, <1>5 DEF request

Execution(n, p) == [shares |-> n, price |-> p]

(* A venue keeps to the request: the limit, the count, and whether the order may
   be filled in part. *)
LEMMA ExecutionsAreFair ==
  ASSUME NEW request, request.count \in Nat \ {0}, request.price \in Prices,
         NEW ex \in Executions(request)
  PROVE  /\ Fair(request, Shares(ex), Total(ex), Last(ex).price)
         /\ \E k \in {1, 2} : ex \in [1..k -> [shares : Nat, price : Nat]]
  <1> DEFINE c == request.count
  <1>0. Within(request) \subseteq Prices /\ Prices \subseteq Nat
    <2>1. BookPrices \subseteq Prices /\ Prices \subseteq Nat
      BY OrdersAssumption DEF Prices
    <2> QED
      BY <2>1 DEF Within
  <1>1. \/ \E n \in 1..c, p \in Within(request) :
             ex = <<Execution(n, p)>> /\ (request.tif = "fill_or_kill" => n = c)
        \/ \E n \in 1..(c - 1), p \in Within(request), q \in Within(request) :
             ex = <<Execution(n, p), Execution(c - n, q)>> /\ BestFirst(request, p, q)
    <2> DEFINE whole == {<<Execution(c, p)>> : p \in Within(request)}
               split == {<<Execution(n, p), Execution(c - n, q)>> :
                           n \in 1..(c - 1), p \in Within(request), q \in Within(request)}
               part  == {<<Execution(n, p)>> : n \in 1..(c - 1), p \in Within(request)}
    <2>1. \/ ex \in whole
          \/ ex \in split /\ BestFirst(request, ex[1].price, ex[2].price)
          \/ request.tif # "fill_or_kill" /\ ex \in part
      BY DEF Executions, Execution
    <2>2. CASE ex \in whole
      BY <2>2
    <2>3. CASE ex \in split /\ BestFirst(request, ex[1].price, ex[2].price)
      <3>1. PICK n \in 1..(c - 1), p \in Within(request), q \in Within(request) :
              ex = <<Execution(n, p), Execution(c - n, q)>>
        BY <2>3
      <3>2. ex[1].price = p /\ ex[2].price = q
        BY <3>1 DEF Execution
      <3> QED
        BY <2>3, <3>1, <3>2
    <2>4. CASE request.tif # "fill_or_kill" /\ ex \in part
      BY <2>4
    <2> QED
      BY <2>1, <2>2, <2>3, <2>4
  <1>2. ASSUME NEW n \in 1..c, NEW p \in Within(request), ex = <<Execution(n, p)>>,
               request.tif = "fill_or_kill" => n = c
        PROVE  /\ Fair(request, Shares(ex), Total(ex), Last(ex).price)
               /\ ex \in [1..1 -> [shares : Nat, price : Nat]]
    <2>1. n \in Nat /\ p \in Nat /\ p \in Prices /\ 1 <= p /\ p <= 99
      BY <1>0 DEF Prices
    <2>2. Shares(ex) = n /\ Total(ex) = n * p /\ Last(ex).price = p
      BY <1>2, <2>1, OneExecution DEF Execution
    <2>3. n * 1 <= n * p /\ n * p <= n * 99 /\ n * p \in Nat
      BY <2>1, Scale, ProductNat
    <2>4. /\ Buys(request) => p <= request.price /\ n * p <= n * request.price
          /\ ~Buys(request) => p >= request.price /\ n * request.price <= n * p
      BY <2>1, Scale DEF Within, Prices
    <2>5. ex \in [1..1 -> [shares : Nat, price : Nat]]
      BY <1>2, <2>1 DEF Execution
    <2> HIDE DEF c
    <2> QED
      BY <1>2, <2>1, <2>2, <2>3, <2>4, <2>5 DEF Fair, c
  <1>3. ASSUME NEW n \in 1..(c - 1), NEW p \in Within(request), NEW q \in Within(request),
               ex = <<Execution(n, p), Execution(c - n, q)>>, BestFirst(request, p, q)
        PROVE  /\ Fair(request, Shares(ex), Total(ex), Last(ex).price)
               /\ ex \in [1..2 -> [shares : Nat, price : Nat]]
    <2> DEFINE m == c - n
    <2>1. /\ n \in Nat /\ m \in Nat /\ n + m = c
          /\ p \in Nat /\ p \in Prices /\ 1 <= p /\ p <= 99
          /\ q \in Nat /\ q \in Prices /\ 1 <= q /\ q <= 99
      BY <1>0 DEF Prices
    <2>2. ex = <<Execution(n, p), Execution(m, q)>>
      BY <1>3
    <2> HIDE DEF m
    <2>3. Shares(ex) = c /\ Total(ex) = n * p + m * q /\ Last(ex).price = q
      BY <2>1, <2>2, TwoExecutions DEF Execution
    <2>4. /\ n * 1 <= n * p /\ n * p <= n * 99 /\ n * p \in Nat
          /\ m * 1 <= m * q /\ m * q <= m * 99 /\ m * q \in Nat
      BY <2>1, Scale, ProductNat
    <2>5. /\ c \in Nat \ {0} /\ c = request.count /\ request.price \in Nat
          /\ c * 99 = n * 99 + m * 99 /\ c * q = n * q + m * q
          /\ c * request.price = n * request.price + m * request.price
      <3>1. \A x \in Nat : c * x = n * x + m * x
        BY <2>1
      <3>2. request.price \in Nat
        BY <1>0
      <3> QED
        BY <2>1, <3>1, <3>2
    <2> HIDE DEF c
    <2>6. ex \in [1..2 -> [shares : Nat, price : Nat]]
      BY <2>1, <2>2 DEF Execution
    <2>7. n * p + m * q \in Nat /\ c <= n * p + m * q /\ n * p + m * q <= c * 99
      BY <2>1, <2>4, <2>5
    <2>8. CASE Buys(request)
      <3>1. p <= request.price /\ q <= request.price /\ p <= q
        BY <1>3, <2>8 DEF Within, BestFirst
      <3>2. n * p <= n * request.price /\ m * q <= m * request.price /\ n * p <= n * q
        BY <2>1, <3>1, Scale DEF Prices
      <3>3. n * p + m * q <= c * request.price /\ n * p + m * q <= c * q
        BY <2>1, <2>4, <2>5, <3>2, ProductNat
      <3> QED
        BY <2>1, <2>3, <2>5, <2>6, <2>7, <2>8, <3>1, <3>3 DEF Fair
    <2>9. CASE ~Buys(request)
      <3>1. p >= request.price /\ q >= request.price /\ p >= q
        BY <1>3, <2>9 DEF Within, BestFirst
      <3>2. n * request.price <= n * p /\ m * request.price <= m * q /\ n * q <= n * p
        BY <2>1, <3>1, Scale DEF Prices
      <3>3. c * request.price <= n * p + m * q /\ c * q <= n * p + m * q
        BY <2>1, <2>4, <2>5, <3>2, ProductNat
      <3> QED
        BY <2>1, <2>3, <2>5, <2>6, <2>7, <2>9, <3>1, <3>3 DEF Fair
    <2> QED
      BY <2>8, <2>9
  <1> QED
    BY <1>1, <1>2, <1>3

-----------------------------------------------------------------------------
(* Replies *)

\* What the executions of a request cost or earn.
LEMMA EarnedIs ==
  ASSUME NEW leg \in Orders, NEW live \in BOOLEAN, NEW ex
  PROVE  Earned(leg, Request(leg, live), ex)
           = IF Mirrored(leg) /\ leg.buy THEN Total(ex) - 100 * Shares(ex)
             ELSE IF leg.buy \/ Mirrored(leg) THEN -Total(ex) ELSE Total(ex)
  <1> DEFINE request == Request(leg, live)
             shorts == request.word = "ask" /\ leg.side = NoSided
  <1>1. /\ IF Mirrored(leg) THEN Buys(request) <=> ~leg.buy ELSE Buys(request) <=> leg.buy
        /\ request.word = "ask" <=> leg.venue = Kalshi /\ ~Buys(request)
    BY RequestIs
  <1>2. shorts <=> Mirrored(leg) /\ leg.buy
    BY <1>1 DEF Mirrored
  <1>3. Earned(leg, request, ex)
          = IF shorts THEN Total(ex) - 100 * Shares(ex)
            ELSE IF Buys(request) THEN -Total(ex) ELSE Total(ex)
    BY DEF Earned, kDollarCents, Buys
  <1> HIDE DEF shorts, request
  <1> QED
    BY <1>1, <1>2, <1>3 DEF request

\* No execution is worse than the leg agrees to.
LEMMA NothingWorse ==
  ASSUME NEW leg \in Orders, NEW live \in BOOLEAN, NEW ex \in Executions(Request(leg, live))
  PROVE  /\ Shares(ex) \in Nat /\ Earned(leg, Request(leg, live), ex) \in Int
         /\ Earned(leg, Request(leg, live), ex) >= Shares(ex) * Agreed(leg)
  <1> DEFINE request == Request(leg, live)
             n == Shares(ex)
             total == Total(ex)
             earned == Earned(leg, request, ex)
  <1>1. /\ request.count \in Nat \ {0} /\ request.price \in Prices
        /\ request.price = IF Mirrored(leg) THEN 100 - leg.price ELSE leg.price
        /\ IF Mirrored(leg) THEN Buys(request) <=> ~leg.buy ELSE Buys(request) <=> leg.buy
    BY RequestIs, OrderIs
  <1>2. Fair(request, n, total, Last(ex).price)
    BY <1>1, ExecutionsAreFair
  <1>3. earned = IF Mirrored(leg) /\ leg.buy THEN total - 100 * n
                 ELSE IF leg.buy \/ Mirrored(leg) THEN -total ELSE total
    BY EarnedIs
  <1>4. leg.price \in 1..99 /\ leg.buy \in BOOLEAN
    BY OrderIs DEF Prices
  <1>5. Agreed(leg) = IF leg.buy THEN -leg.price
                      ELSE IF Mirrored(leg) THEN -(100 - leg.price) ELSE leg.price
    BY <1>4 DEF Agreed, Mirrored, complementCents, kDollarCents
  <1> HIDE DEF request, n, total, earned
  <1>6. n \in Nat /\ total \in Nat
    BY <1>1, <1>2 DEF Fair
  <1>7. n * (100 - leg.price) = 100 * n - n * leg.price /\ n * leg.price \in Int
        /\ n * (-leg.price) = -(n * leg.price) /\ n * (-(100 - leg.price)) = n * leg.price - 100 * n
    BY <1>4, <1>6
  <1>8. CASE Mirrored(leg) /\ leg.buy
    <2>1. total >= n * (100 - leg.price)
      BY <1>1, <1>2, <1>8 DEF Fair
    <2>2. earned = total - 100 * n /\ Agreed(leg) = -leg.price
      BY <1>3, <1>5, <1>8
    <2> QED
      BY <1>6, <1>7, <2>1, <2>2 DEF earned, n, request
  <1>9. CASE Mirrored(leg) /\ ~leg.buy
    <2>1. total <= n * (100 - leg.price)
      BY <1>1, <1>2, <1>9 DEF Fair
    <2>2. earned = -total /\ Agreed(leg) = -(100 - leg.price)
      BY <1>3, <1>5, <1>9
    <2> QED
      BY <1>6, <1>7, <2>1, <2>2 DEF earned, n, request
  <1>10. CASE ~Mirrored(leg) /\ leg.buy
    <2>1. total <= n * leg.price
      BY <1>1, <1>2, <1>10 DEF Fair
    <2>2. earned = -total /\ Agreed(leg) = -leg.price
      BY <1>3, <1>5, <1>10
    <2> QED
      BY <1>6, <1>7, <2>1, <2>2 DEF earned, n, request
  <1>11. CASE ~Mirrored(leg) /\ ~leg.buy
    <2>1. total >= n * leg.price
      BY <1>1, <1>2, <1>11 DEF Fair
    <2>2. earned = total /\ Agreed(leg) = leg.price
      BY <1>3, <1>5, <1>11
    <2> QED
      BY <1>6, <1>7, <2>1, <2>2 DEF earned, n, request
  <1> QED
    BY <1>8, <1>9, <1>10, <1>11

\* The price that is read out of a reply, 0 when it has none.
ReadPrice(leg, ex, priced) ==
  IF ~priced THEN 0
  ELSE IF leg.venue = Polymarket THEN Last(ex).price
  ELSE parseAverage(ReportedTotal(leg, ex), Shares(ex))

LEMMA ResultIs ==
  ASSUME NEW leg \in Orders, NEW live \in BOOLEAN, NEW priced \in BOOLEAN,
         NEW ex \in Executions(Request(leg, live))
  PROVE  Result(Reply(leg, ex, priced))
           = [ok |-> TRUE, count |-> Shares(ex), price |-> ReadPrice(leg, ex, priced)]
  <1> DEFINE request == Request(leg, live)
             reply == Reply(leg, ex, priced)
             list == [i \in DOMAIN ex |-> [ex[i] EXCEPT !.price = IF priced THEN @ ELSE 0]]
             n == Shares(ex)
  <1>1. request.count \in Nat \ {0} /\ request.price \in Prices /\ leg.venue \in Venues
    BY RequestIs, OrderIs
  <1>2. n \in Nat \ {0}
    BY <1>1, ExecutionsAreFair DEF Fair
  <1>3. PICK k \in {1, 2} : ex \in [1..k -> [shares : Nat, price : Nat]]
    BY <1>1, ExecutionsAreFair
  <1>4. Shares(list) = n /\ Last(list).price = IF priced THEN Last(ex).price ELSE 0
    <2>1. DOMAIN list = DOMAIN ex /\ \A i \in DOMAIN ex : list[i].shares = ex[i].shares
      BY <1>3
    <2>2. [i \in DOMAIN list |-> list[i].shares] = [i \in DOMAIN ex |-> ex[i].shares]
      BY <2>1
    <2>3. Len(ex) = k /\ Len(list) = k
      BY <1>3
    <2>4. list[k].price = IF priced THEN ex[k].price ELSE 0
      BY <1>3
    <2> HIDE DEF list
    <2> QED
      BY <2>2, <2>3, <2>4 DEF Shares, Last
  <1>5. /\ reply.venue = leg.venue /\ reply.status = 201 /\ reply.count = n
        /\ reply.total = IF priced THEN ReportedTotal(leg, ex) ELSE 0
        /\ reply.executions = list
    BY DEF Reply
  <1>6. reply.status \in Accepted(reply.venue)
    BY <1>5 DEF Accepted
  <1> HIDE DEF reply, list
  <1>7. CASE leg.venue = Polymarket
    <2>1. Result(reply) = executionsResult(reply)
      BY <1>5, <1>7 DEF Result
    <2>2. executionsResult(reply) = [ok |-> TRUE, count |-> n, price |-> Last(list).price]
      <3>1. Shares(reply.executions) = n /\ ~(n <= 0)
        BY <1>2, <1>4, <1>5
      <3> HIDE DEF n
      <3> QED
        BY <1>5, <1>6, <3>1 DEF executionsResult
    <2> QED
      BY <1>4, <1>7, <2>1, <2>2 DEF ReadPrice, reply
  <1>8. CASE leg.venue # Polymarket
    <2>1. Result(reply) = averageResult(reply)
      BY <1>5, <1>8 DEF Result
    <2>2. averageResult(reply) = [ok |-> TRUE, count |-> n, price |-> parseAverage(reply.total, n)]
      BY <1>2, <1>5, <1>6 DEF averageResult
    <2>3. parseAverage(0, n) = 0
      <3>1. (10 * 0) \div n = 0
        BY <1>2
      <3> QED
        BY <3>1 DEF parseAverage
    <2>4. ReadPrice(leg, ex, priced) = parseAverage(reply.total, n)
      BY <1>5, <1>8, <2>3 DEF ReadPrice
    <2> QED
      BY <2>1, <2>2, <2>4 DEF reply
  <1> QED
    BY <1>7, <1>8

\* The cents a reply adds up: what the executions cost or earned, unless they
\* are counted on the other side.
LEMMA ReportedTotalIs ==
  ASSUME inYesCents \in BOOLEAN,
         NEW leg \in Orders, NEW live \in BOOLEAN, NEW ex \in Executions(Request(leg, live))
  PROVE  LET n == Shares(ex)
             R == ReportedTotal(leg, ex)
             cash == Earned(leg, Request(leg, live), ex)
         IN  /\ n \in Nat \ {0} /\ R \in Nat /\ n <= R /\ R <= n * 99
             /\ ~ReadAsOtherSide(leg) => cash = IF leg.buy \/ Mirrored(leg) THEN -R ELSE R
             /\ leg.buy /\ ~ReadAsOtherSide(leg) => R <= n * leg.price
  <1> DEFINE request == Request(leg, live)
             n == Shares(ex)
             total == Total(ex)
             R == ReportedTotal(leg, ex)
             cash == Earned(leg, request, ex)
  <1>1. /\ request.count \in Nat \ {0} /\ request.price \in Prices
        /\ request.price = IF Mirrored(leg) THEN 100 - leg.price ELSE leg.price
        /\ IF Mirrored(leg) THEN Buys(request) <=> ~leg.buy ELSE Buys(request) <=> leg.buy
    BY RequestIs, OrderIs
  <1>2. Fair(request, n, total, Last(ex).price)
    BY <1>1, ExecutionsAreFair
  <1>3. cash = IF Mirrored(leg) /\ leg.buy THEN total - 100 * n
               ELSE IF leg.buy \/ Mirrored(leg) THEN -total ELSE total
    BY EarnedIs
  <1>4. leg.price \in 1..99 /\ leg.buy \in BOOLEAN
    BY OrderIs DEF Prices
  <1>5. R = IF Mirrored(leg) /\ ~inYesCents THEN 100 * n - total ELSE total
    BY DEF ReportedTotal, Mirrored, kDollarCents
  <1>6. ReadAsOtherSide(leg) <=> Mirrored(leg) /\ (leg.buy <=> inYesCents)
    BY <1>4 DEF ReadAsOtherSide, Mirrored
  <1> SUFFICES /\ n \in Nat \ {0} /\ R \in Nat /\ n <= R /\ R <= n * 99
               /\ ~ReadAsOtherSide(leg) => cash = IF leg.buy \/ Mirrored(leg) THEN -R ELSE R
               /\ leg.buy /\ ~ReadAsOtherSide(leg) => R <= n * leg.price
    OBVIOUS
  <1> HIDE DEF request, n, total, R, cash
  <1>7. n \in Nat \ {0} /\ total \in Nat /\ n <= total /\ total <= n * 99
    BY <1>1, <1>2 DEF Fair
  <1>8. R \in Nat /\ n <= R /\ R <= n * 99
    BY <1>5, <1>7
  <1>9. ~ReadAsOtherSide(leg) => cash = IF leg.buy \/ Mirrored(leg) THEN -R ELSE R
    BY <1>3, <1>4, <1>5, <1>6, <1>7
  <1>10. ASSUME leg.buy, ~ReadAsOtherSide(leg) PROVE R <= n * leg.price
    <2>1. CASE Mirrored(leg)
      <3>1. total >= n * (100 - leg.price)
        BY <1>1, <1>2, <1>10, <2>1 DEF Fair
      <3>2. R = 100 * n - total
        BY <1>5, <1>6, <1>10, <2>1
      <3>3. n * (100 - leg.price) = 100 * n - n * leg.price /\ n * leg.price \in Int
        BY <1>4, <1>7
      <3> QED
        BY <1>7, <3>1, <3>2, <3>3
    <2>2. CASE ~Mirrored(leg)
      BY <1>1, <1>2, <1>5, <1>10, <2>2 DEF Fair
    <2> QED
      BY <2>1, <2>2
  <1> QED
    BY <1>7, <1>8, <1>9, <1>10

\* A fill as the book takes it.
GoodFill(leg, live, fill, n, cash) ==
  /\ fill.size = n /\ fill.price \in Prices
  /\ live => n = leg.size
  /\ ~ReadAsOtherSide(leg) => 2 * bookedCash(fill) <= 2 * cash + n
  /\ leg.buy /\ ~ReadAsOtherSide(leg) => fill.price <= leg.price

(* What is booked of a reply: the contracts that were executed, at a price a
   contract can have, and for no better than they went. *)
LEMMA FillIsGood ==
  ASSUME inYesCents \in BOOLEAN,
         NEW leg \in Orders, NEW live \in BOOLEAN, NEW priced \in BOOLEAN,
         NEW ex \in Executions(Request(leg, live))
  PROVE  LET result == Result(Reply(leg, ex, priced))
         IN  /\ result.ok
             /\ GoodFill(leg, live, takeReportedFill(result, leg),
                         Shares(ex), Earned(leg, Request(leg, live), ex))
  <1> DEFINE request == Request(leg, live)
             result == Result(Reply(leg, ex, priced))
             fill == takeReportedFill(result, leg)
             n == Shares(ex)
             R == ReportedTotal(leg, ex)
             total == Total(ex)
             cash == Earned(leg, request, ex)
             read == ReadPrice(leg, ex, priced)
             px == IF read > 0 THEN read ELSE fallbackPrice(leg)
  <1>1. /\ request.count = leg.size /\ request.count \in Nat \ {0} /\ request.price \in Prices
        /\ request.tif = timeInForce(live)
        /\ request.price = IF Mirrored(leg) THEN 100 - leg.price ELSE leg.price
        /\ IF Mirrored(leg) THEN Buys(request) <=> ~leg.buy ELSE Buys(request) <=> leg.buy
    BY RequestIs, OrderIs
  <1>2. Fair(request, n, total, Last(ex).price)
    BY <1>1, ExecutionsAreFair
  <1>3. result = [ok |-> TRUE, count |-> n, price |-> read]
    BY ResultIs
  <1>4. fill = [leg EXCEPT !.size = n, !.price = px]
    BY <1>3 DEF takeReportedFill
  <1>5. leg.price \in 1..99 /\ leg.buy \in BOOLEAN /\ leg \in Leg
    BY OrderIs DEF Prices
  <1>6. /\ n \in Nat \ {0} /\ R \in Nat /\ n <= R /\ R <= n * 99
        /\ ~ReadAsOtherSide(leg) => cash = IF leg.buy \/ Mirrored(leg) THEN -R ELSE R
        /\ leg.buy /\ ~ReadAsOtherSide(leg) => R <= n * leg.price
    BY ReportedTotalIs
  <1>7. cash \in Int /\ cash >= n * Agreed(leg)
    BY NothingWorse
  <1>8. Agreed(leg) = IF leg.buy THEN -leg.price
                      ELSE IF Mirrored(leg) THEN -(100 - leg.price) ELSE leg.price
    BY <1>5 DEF Agreed, Mirrored, complementCents, kDollarCents
  <1>9. fallbackPrice(leg) = IF ~leg.buy /\ Mirrored(leg) THEN 100 - leg.price ELSE leg.price
    BY <1>5 DEF fallbackPrice, Mirrored, complementCents, kDollarCents
  <1>10. cash = IF Mirrored(leg) /\ leg.buy THEN total - 100 * n
                ELSE IF leg.buy \/ Mirrored(leg) THEN -total ELSE total
    BY EarnedIs
  <1>11. live => n = leg.size
    BY <1>1, <1>2 DEF Fair, timeInForce
  <1>12. px \in Prices
    <2>1. CASE ~priced
      BY <1>5, <1>9, <2>1 DEF ReadPrice, Prices
    <2>2. CASE priced /\ leg.venue = Polymarket
      BY <1>2, <2>2 DEF ReadPrice, Fair, Prices
    <2>3. CASE priced /\ leg.venue # Polymarket
      <3>1. read = parseAverage(R, n)
        BY <2>3 DEF ReadPrice
      <3> HIDE DEF read, R, n
      <3>2. read \in Prices
        BY <1>6, <3>1, AverageRounds
      <3> QED
        BY <3>2 DEF Prices
    <2> QED
      BY <2>1, <2>2, <2>3
  <1>13. ASSUME ~ReadAsOtherSide(leg)
         PROVE  /\ IF leg.buy \/ Mirrored(leg) THEN -2 * (n * px) <= 2 * cash + n
                   ELSE 2 * (n * px) <= 2 * cash + n
                /\ leg.buy => px <= leg.price
    <2>1. CASE ~priced
      <3>1. px = fallbackPrice(leg)
        BY <2>1 DEF ReadPrice
      <3> HIDE DEF px, n, cash
      <3>2. /\ n * (-leg.price) = -(n * leg.price) /\ n * leg.price \in Int
            /\ n * (-(100 - leg.price)) = -(n * (100 - leg.price)) /\ n * (100 - leg.price) \in Int
        BY <1>5, <1>6
      <3> QED
        BY <1>5, <1>6, <1>7, <1>8, <1>9, <3>1, <3>2
    <2>2. CASE priced /\ leg.venue = Polymarket
      <3>1. read = Last(ex).price /\ ~Mirrored(leg)
        BY <2>2 DEF ReadPrice, Mirrored, Kalshi, Polymarket
      <3> HIDE DEF read, n, cash, total, request
      <3>2. px = Last(ex).price /\ px \in Nat
        BY <1>2, <3>1 DEF Fair, Prices
      <3>3. CASE leg.buy
        <4>1. px <= leg.price /\ total <= n * px
          BY <1>1, <1>2, <3>1, <3>2, <3>3 DEF Fair
        <4>2. cash = -total /\ total \in Nat /\ n * px \in Nat
          BY <1>2, <1>6, <1>10, <3>1, <3>2, <3>3, ProductNat DEF Fair
        <4> HIDE DEF px
        <4> QED
          BY <1>6, <3>3, <4>1, <4>2
      <3>4. CASE ~leg.buy
        <4>1. n * px <= total
          BY <1>1, <1>2, <3>1, <3>2, <3>4 DEF Fair
        <4>2. cash = total /\ total \in Nat /\ n * px \in Nat
          BY <1>2, <1>6, <1>10, <3>1, <3>2, <3>4, ProductNat DEF Fair
        <4> HIDE DEF px
        <4> QED
          BY <1>6, <3>1, <3>4, <4>1, <4>2
      <3> QED
        BY <3>3, <3>4
    <2>3. CASE priced /\ leg.venue # Polymarket
      <3>1. read = parseAverage(R, n)
        BY <2>3 DEF ReadPrice
      <3> HIDE DEF read, R, n, cash
      <3>2. /\ read \in Prices
            /\ 2 * (n * read) <= 2 * R + n /\ 2 * R <= 2 * (n * read) + n
            /\ \A limit \in Nat : R <= n * limit => read <= limit
        BY <1>6, <3>1, AverageRounds
      <3>3. px = read /\ n * px \in Nat
        BY <1>6, <3>2, ProductNat DEF Prices
      <3>4. leg.buy => px <= leg.price
        BY <1>5, <1>6, <1>13, <3>2, <3>3
      <3> HIDE DEF px
      <3> QED
        BY <1>6, <1>13, <3>2, <3>3, <3>4
    <2> QED
      BY <2>1, <2>2, <2>3
  <1>14. ~ReadAsOtherSide(leg) => 2 * bookedCash(fill) <= 2 * cash + n
    <2> HIDE DEF px, n, cash
    <2>1. /\ fill.size = n /\ fill.price = px /\ fill.buy = leg.buy
          /\ fill.venue = leg.venue /\ fill.side = leg.side
      BY <1>4, <1>5 DEF Leg
    <2>2. bookedCash(fill) = IF leg.buy \/ Mirrored(leg) THEN -(n * px) ELSE n * px
      BY <2>1 DEF bookedCash, Mirrored
    <2>3. n * px \in Nat
      BY <1>6, <1>12, ProductNat DEF Prices
    <2> QED
      BY <1>7, <1>13, <2>2, <2>3
  <1> HIDE DEF px, n, cash
  <1>15. fill.size = n /\ fill.price = px
    BY <1>4, <1>5 DEF Leg
  <1>16. GoodFill(leg, live, fill, n, cash)
    BY <1>11, <1>12, <1>13, <1>14, <1>15 DEF GoodFill
  <1> QED
    BY <1>3, <1>16 DEF n, cash

-----------------------------------------------------------------------------
(* Fills and contracts *)

\* What a thread's order has come to.
NothingYet(o) == o.trade = NoTrade /\ o.fill.size = 0

Missed(o) == NothingYet(o) /\ o.reply = [NoReply EXCEPT !.venue = o.leg.venue]

Replied(o) ==
  /\ o.fill.size = 0
  /\ \E executions \in Executions(o.request) : \E priced \in BOOLEAN :
       /\ o.reply = Reply(o.leg, executions, priced)
       /\ o.trade = Traded(o.leg, o.request, executions)

OrderFields == {"pc", "market", "leg", "request", "reply", "trade", "fill"}

\* Before the reply nothing is traded, the reply reports what is, and the book
\* takes what the reply reports.
OrderKnown(o) ==
  /\ DOMAIN o = OrderFields /\ o.leg \in Orders
  /\ \E live \in BOOLEAN :
       /\ o.request = Request(o.leg, live)
       /\ \/ o.pc \in {"idle", "sign", "send"} /\ NothingYet(o)
          \/ o.pc = "reply" /\ (Missed(o) \/ Replied(o))
          \/ o.pc = "release" /\ o.fill.size = 0
          \/ o.pc = "release" /\ GoodFill(o.leg, live, o.fill, o.trade.count, o.trade.cash)
  /\ o.trade.count \in Nat /\ o.trade.cash \in Int
  /\ o.trade.cash >= o.trade.count * Agreed(o.leg)

FillsInv ==
  /\ inYesCents \in BOOLEAN
  /\ DOMAIN order = Threads /\ \A t \in Threads : OrderKnown(order[t])
  /\ reported = arriving

LEMMA NoTradeAgrees ==
  ASSUME NEW leg \in Orders
  PROVE  /\ NoTrade.count \in Nat /\ NoTrade.cash \in Int
         /\ NoTrade.cash >= NoTrade.count * Agreed(leg)
  <1>1. Agreed(leg) \in Int
    BY OrderIs DEF Agreed, complementCents, kDollarCents, Prices
  <1>2. NoTrade.count = 0 /\ NoTrade.cash = 0
    BY DEF NoTrade
  <1> QED
    BY <1>1, <1>2

\* The contracts of the orders of some threads.
Contracts(orders, S) == SumFunctionOnSet([u \in Threads |-> orders[u].trade.count], S)

Replying(orders) == {u \in Threads : orders[u].pc = "reply"}

ArrivingOf(orders) == SumFunction([t \in Replying(orders) |-> orders[t].trade.count])

LEMMA ArrivingIs ==
  ASSUME NEW orders
  PROVE  ArrivingOf(orders) = Contracts(orders, Replying(orders))
  <1> DEFINE R == Replying(orders)
             f == [t \in R |-> orders[t].trade.count]
             g == [u \in Threads |-> orders[u].trade.count]
  <1>1. IsFiniteSet(R)
    BY ThreadsAssumption, FS_Subset DEF Replying
  <1>2. DOMAIN f = R /\ \A u \in R : f[u] = g[u]
    BY DEF Replying
  <1>3. ArrivingOf(orders) = SumFunctionOnSet(f, R)
    BY <1>2 DEF ArrivingOf, SumFunction
  <1> HIDE DEF f, g, R
  <1>4. SumFunctionOnSet(f, R) = SumFunctionOnSet(g, R)
    BY <1>1, <1>2, SumAgrees
  <1> QED
    BY <1>3, <1>4 DEF Contracts, R, g

\* A thread that starts or stops to read a reply adds or removes its contracts.
LEMMA ContractsMove ==
  ASSUME NEW old, NEW new, NEW t \in Threads,
         \A u \in Threads : old[u].trade.count \in Nat /\ new[u].trade.count \in Nat,
         \A u \in Threads \ {t} : new[u] = old[u]
  PROVE  /\ old[t].pc # "reply" /\ new[t].pc = "reply" =>
              Contracts(new, Replying(new)) = Contracts(old, Replying(old)) + new[t].trade.count
         /\ old[t].pc = "reply" /\ new[t].pc # "reply" =>
              Contracts(new, Replying(new)) = Contracts(old, Replying(old)) - old[t].trade.count
         /\ old[t].pc # "reply" /\ new[t].pc # "reply" =>
              Contracts(new, Replying(new)) = Contracts(old, Replying(old))
         /\ Contracts(old, Replying(old)) \in Int
  <1> DEFINE f == [u \in Threads |-> old[u].trade.count]
             g == [u \in Threads |-> new[u].trade.count]
             A == Replying(old) \ {t}
  <1>1. A \subseteq Threads /\ A = Replying(new) \ {t} /\ t \notin A
    BY DEF Replying
  <1>2. IsFiniteSet(A) /\ IsFiniteSet(Replying(old))
    BY <1>1, ThreadsAssumption, FS_Subset DEF Replying
  <1>3. /\ \A u \in A : f[u] = g[u]
        /\ \A u \in Threads : f[u] \in Int /\ g[u] \in Int
        /\ f[t] = old[t].trade.count /\ g[t] = new[t].trade.count
    BY <1>1
  <1>4. /\ IF old[t].pc = "reply" THEN Replying(old) = A \cup {t} ELSE Replying(old) = A
        /\ IF new[t].pc = "reply" THEN Replying(new) = A \cup {t} ELSE Replying(new) = A
    BY <1>1 DEF Replying
  <1>5. /\ Contracts(old, Replying(old)) = SumFunctionOnSet(f, Replying(old))
        /\ Contracts(new, Replying(new)) = SumFunctionOnSet(g, Replying(new))
    BY DEF Contracts
  <1> HIDE DEF f, g, A
  <1>6. SumFunctionOnSet(f, A) = SumFunctionOnSet(g, A)
    BY <1>2, <1>3, SumAgrees
  <1>7. /\ SumFunctionOnSet(f, A \cup {t}) = f[t] + SumFunctionOnSet(f, A)
        /\ SumFunctionOnSet(g, A \cup {t}) = g[t] + SumFunctionOnSet(g, A)
    <2>1. \A x \in A \cup {t} : f[x] \in Int /\ g[x] \in Int
      BY <1>1, <1>3
    <2> QED
      BY <1>1, <1>2, <2>1, SumOneMore
  <1>8. SumFunctionOnSet(f, A) \in Int
    BY <1>1, <1>2, <1>3, SumType
  <1>9. old[t].trade.count \in Int /\ new[t].trade.count \in Int
    OBVIOUS
  <1> DEFINE a == SumFunctionOnSet(f, A)
  <1> HIDE DEF a
  <1>10. /\ IF old[t].pc = "reply"
            THEN Contracts(old, Replying(old)) = old[t].trade.count + a
            ELSE Contracts(old, Replying(old)) = a
         /\ IF new[t].pc = "reply"
            THEN Contracts(new, Replying(new)) = new[t].trade.count + a
            ELSE Contracts(new, Replying(new)) = a
    BY <1>3, <1>4, <1>5, <1>6, <1>7 DEF a
  <1>11. a \in Int
    BY <1>8 DEF a
  <1> QED
    BY <1>9, <1>10, <1>11

\* Nothing of what is known of an order depends on the state, but the way
\* Kalshi reports, which no step changes.
LEMMA KnownStays ==
  ASSUME UNCHANGED inYesCents, NEW u \in Threads, OrderKnown(order'[u])
  PROVE  OrderKnown(order[u])'
  <1>1. Missed(order[u])' = Missed(order'[u]) /\ NothingYet(order[u])' = NothingYet(order'[u])
    BY DEF Missed, NothingYet
  <1>2. ASSUME NEW leg, NEW ex, NEW p PROVE Reply(leg, ex, p)' = Reply(leg, ex, p)
    BY DEF Reply, ReportedTotal, Shares, Total
  <1>3. Replied(order[u])' = Replied(order'[u])
    BY <1>2 DEF Replied, Traded
  <1>4. ASSUME NEW live
        PROVE  GoodFill(order[u].leg, live, order[u].fill, order[u].trade.count, order[u].trade.cash)'
                 = GoodFill(order'[u].leg, live, order'[u].fill, order'[u].trade.count, order'[u].trade.cash)
    BY DEF GoodFill, ReadAsOtherSide, bookedCash
  <1> QED
    BY <1>1, <1>3, <1>4 DEF OrderKnown

(* A step of one thread keeps the invariant when its own order is known after
   it and the contracts that come or go are counted. *)
LEMMA FillsMove ==
  ASSUME FillsInv, NEW t \in Threads, NEW o, OrderKnown(o), UNCHANGED inYesCents, Goto(t, o),
         reported' = reported + (IF o.pc = "reply" THEN o.trade.count ELSE 0)
                              - (IF order[t].pc = "reply" THEN order[t].trade.count ELSE 0),
         o.pc # "reply" \/ order[t].pc # "reply"
  PROVE  FillsInv'
  <1>1. order' = [order EXCEPT ![t] = o]
    BY DEF Goto
  <1>2. /\ DOMAIN order' = Threads /\ order'[t] = o
        /\ \A u \in Threads \ {t} : order'[u] = order[u]
    BY <1>1 DEF FillsInv
  <1>3. \A u \in Threads : OrderKnown(order'[u])
    BY <1>2 DEF FillsInv
  <1>4. \A u \in Threads : order[u].trade.count \in Nat /\ order'[u].trade.count \in Nat
    BY <1>3 DEF FillsInv, OrderKnown
  <1>5. arriving = Contracts(order, Replying(order)) /\ arriving' = Contracts(order', Replying(order'))
    <2>1. arriving = ArrivingOf(order) /\ arriving' = ArrivingOf(order')
      BY DEF arriving, ArrivingOf, Replying
    <2> QED
      BY <2>1, ArrivingIs
  <1>6. /\ order[t].pc # "reply" /\ o.pc = "reply" => arriving' = arriving + o.trade.count
        /\ order[t].pc = "reply" /\ o.pc # "reply" => arriving' = arriving - order[t].trade.count
        /\ order[t].pc # "reply" /\ o.pc # "reply" => arriving' = arriving
        /\ arriving \in Int
    BY <1>2, <1>4, <1>5, ContractsMove
  <1>7. reported' = arriving'
    BY <1>2, <1>4, <1>6 DEF FillsInv
  <1>8. \A u \in Threads : OrderKnown(order[u])'
    BY <1>3, KnownStays
  <1> QED
    BY <1>2, <1>7, <1>8 DEF FillsInv

LEMMA ReportedInt == FillsInv => reported \in Int
  <1> SUFFICES ASSUME FillsInv PROVE reported \in Int
    OBVIOUS
  <1>1. arriving = Contracts(order, Replying(order))
    <2>1. arriving = ArrivingOf(order)
      BY DEF arriving, ArrivingOf, Replying
    <2> QED
      BY <2>1, ArrivingIs
  <1>2. \A u \in Threads : order[u].trade.count \in Nat
    BY DEF FillsInv, OrderKnown
  <1>3. IsFiniteSet(Replying(order))
    BY ThreadsAssumption, FS_Subset DEF Replying
  <1> DEFINE f == [u \in Threads |-> order[u].trade.count]
  <1>4. \A u \in Replying(order) : f[u] \in Int
    BY <1>2 DEF Replying
  <1>5. arriving = SumFunctionOnSet(f, Replying(order))
    BY <1>1 DEF Contracts
  <1> HIDE DEF f
  <1>6. arriving \in Int
    BY <1>3, <1>4, <1>5, SumType
  <1> QED
    BY <1>6 DEF FillsInv

LEMMA IdleKnown == OrderKnown(IdleOrder) /\ IdleOrder.pc = "idle"
  <1>1. AnyLeg \in Orders
    BY OrdersAssumption DEF AnyLeg
  <1>2. AnyLeg \in Leg
    BY <1>1, OrderIs
  <1>3. /\ DOMAIN IdleOrder = OrderFields /\ IdleOrder.leg = AnyLeg /\ IdleOrder.pc = "idle"
        /\ IdleOrder.request = Request(AnyLeg, TRUE)
        /\ IdleOrder.trade = NoTrade /\ IdleOrder.fill.size = 0
    BY <1>2 DEF IdleOrder, OrderFields, Leg
  <1> QED
    BY <1>1, <1>3, NoTradeAgrees DEF OrderKnown, NothingYet

LEMMA FillsInit == Init => FillsInv
  <1> SUFFICES ASSUME Init PROVE FillsInv
    OBVIOUS
  <1>1. \A t \in Threads : order[t] = IdleOrder
    BY DEF Init
  <1>2. \A t \in Threads : OrderKnown(order[t])
    BY <1>1, IdleKnown
  <1>3. arriving = 0
    <2> DEFINE f == [t \in {u \in Threads : order[u].pc = "reply"} |-> order[t].trade.count]
    <2>1. DOMAIN f = {}
      BY <1>1, IdleKnown
    <2>2. arriving = SumFunctionOnSet(f, {})
      BY <2>1 DEF arriving, SumFunction
    <2> QED
      BY <2>2, SumOverNone
  <1> QED
    BY <1>2, <1>3 DEF Init, FillsInv

LEMMA AcquireFills ==
  ASSUME FillsInv, NEW t \in Threads, NEW m, NEW leg \in Orders, NEW live \in BOOLEAN,
         Acquire(t, m, leg, live)
  PROVE  FillsInv'
  <1> DEFINE pc == IF leg.venue \in Keyed THEN "sign" ELSE "release"
             o == [IdleOrder EXCEPT !.pc = pc, !.market = m, !.leg = leg,
                                    !.request = Request(leg, live)]
  <1>1. /\ DOMAIN o = OrderFields /\ o.leg = leg /\ o.pc \in {"sign", "release"}
        /\ o.request = Request(leg, live) /\ o.trade = NoTrade /\ o.fill.size = 0
    <2>1. DOMAIN IdleOrder = OrderFields /\ IdleOrder.trade = NoTrade /\ IdleOrder.fill.size = 0
      BY IdleKnown DEF OrderKnown, NothingYet, OrderFields
    <2> QED
      BY <2>1 DEF OrderFields
  <1>2. UNCHANGED <<inYesCents, reported>> /\ Goto(t, o) /\ order[t].pc = "idle"
    BY DEF Acquire, Goes
  <1> HIDE DEF o
  <1>3. OrderKnown(o)
    BY <1>1, NoTradeAgrees DEF OrderKnown, NothingYet
  <1>4. reported \in Int
    BY ReportedInt
  <1> QED
    BY <1>1, <1>2, <1>3, <1>4, FillsMove

LEMMA SignedFills ==
  ASSUME FillsInv, NEW t \in Threads, Signed(t)
  PROVE  FillsInv'
  <1> DEFINE o == [order[t] EXCEPT !.pc = "send"]
  <1>1. OrderKnown(order[t]) /\ order[t].pc = "sign"
    BY DEF FillsInv, Signed, Goes
  <1>2. /\ DOMAIN o = OrderFields /\ o.pc = "send" /\ o.leg = order[t].leg
        /\ o.request = order[t].request /\ o.trade = order[t].trade /\ o.fill = order[t].fill
    BY <1>1 DEF OrderKnown, OrderFields
  <1>3. UNCHANGED <<inYesCents, reported>> /\ Goto(t, o)
    BY DEF Signed
  <1> HIDE DEF o
  <1>4. OrderKnown(o)
    BY <1>1, <1>2 DEF OrderKnown, NothingYet
  <1>5. reported \in Int
    BY ReportedInt
  <1> QED
    BY <1>1, <1>2, <1>3, <1>4, <1>5, FillsMove

LEMMA ExecutesFills ==
  ASSUME FillsInv, NEW t \in Threads, Executes(t)
  PROVE  FillsInv'
  <1>1. OrderKnown(order[t]) /\ order[t].pc = "send" /\ inYesCents \in BOOLEAN
    BY DEF FillsInv, Executes, Goes
  <1>2. PICK live \in BOOLEAN : order[t].request = Request(order[t].leg, live)
    BY <1>1 DEF OrderKnown
  <1>3. order[t].leg \in Orders /\ order[t].fill.size = 0 /\ DOMAIN order[t] = OrderFields
    BY <1>1 DEF OrderKnown, NothingYet
  <1> DEFINE leg == order[t].leg
             request == order[t].request
             After(ex, priced) ==
               [order[t] EXCEPT !.pc = "reply", !.reply = Reply(leg, ex, priced),
                                !.trade = Traded(leg, request, ex)]
  <1>4. PICK ex \in Executions(request), priced \in BOOLEAN :
          Goto(t, After(ex, priced)) /\ reported' = reported + Shares(ex)
    BY DEF Executes
  <1> DEFINE o == After(ex, priced)
  <1>5. /\ DOMAIN o = OrderFields /\ o.pc = "reply" /\ o.leg = leg /\ o.request = request
        /\ o.reply = Reply(leg, ex, priced) /\ o.trade = Traded(leg, request, ex)
        /\ o.fill = order[t].fill
    BY <1>3 DEF OrderFields
  <1>6. o.trade.count = Shares(ex) /\ o.trade.cash = Earned(leg, request, ex)
    BY <1>5 DEF Traded
  <1> HIDE DEF o
  <1>7. Shares(ex) \in Nat /\ Earned(leg, request, ex) \in Int
        /\ Earned(leg, request, ex) >= Shares(ex) * Agreed(leg)
    <2>1. ex \in Executions(Request(leg, live))
      BY <1>2
    <2>2. Shares(ex) \in Nat
      BY <1>1, <1>3, <2>1, ReportedTotalIs
    <2> QED
      BY <1>2, <1>3, <2>1, <2>2, NothingWorse
  <1>8. OrderKnown(o)
    <2>1. Replied(o)
      BY <1>3, <1>5 DEF Replied
    <2> QED
      BY <1>2, <1>3, <1>5, <1>6, <1>7, <2>1 DEF OrderKnown
  <1>9. reported \in Int
    BY ReportedInt
  <1>10. UNCHANGED inYesCents /\ Goto(t, o)
    BY <1>4 DEF Executes, o
  <1>11. reported' = reported + o.trade.count - 0
    BY <1>4, <1>6, <1>7, <1>9
  <1> QED
    BY <1>1, <1>5, <1>8, <1>10, <1>11, FillsMove

LEMMA NotReportedFills ==
  ASSUME FillsInv, NEW t \in Threads, NotReported(t)
  PROVE  FillsInv'
  <1> DEFINE o == [order[t] EXCEPT !.pc = "reply",
                                   !.reply = [NoReply EXCEPT !.venue = order[t].leg.venue]]
  <1>1. OrderKnown(order[t]) /\ order[t].pc = "send"
    BY DEF FillsInv, NotReported, Goes
  <1>2. /\ DOMAIN o = OrderFields /\ o.pc = "reply" /\ o.leg = order[t].leg
        /\ o.request = order[t].request /\ o.trade = order[t].trade /\ o.fill = order[t].fill
        /\ o.reply = [NoReply EXCEPT !.venue = order[t].leg.venue]
    BY <1>1 DEF OrderKnown, OrderFields
  <1>3. UNCHANGED <<inYesCents, reported>> /\ Goto(t, o)
    BY DEF NotReported
  <1> HIDE DEF o
  <1>4. Missed(o)
    BY <1>1, <1>2 DEF OrderKnown, Missed, NothingYet
  <1>5. OrderKnown(o)
    BY <1>1, <1>2, <1>4 DEF OrderKnown
  <1>6. o.trade.count = 0
    BY <1>4 DEF Missed, NothingYet, NoTrade
  <1>7. reported \in Int
    BY ReportedInt
  <1> QED
    BY <1>1, <1>2, <1>3, <1>5, <1>6, <1>7, FillsMove

\* A reply that reports no fill is not taken for one.
LEMMA MissIsNoFill ==
  ASSUME NEW leg \in Orders
  PROVE  ~Result([NoReply EXCEPT !.venue = leg.venue]).ok
  <1> DEFINE reply == [NoReply EXCEPT !.venue = leg.venue]
  <1>1. reply.venue = leg.venue /\ reply.status = 0
    BY DEF NoReply
  <1>2. reply.status \notin Accepted(reply.venue)
    BY <1>1 DEF Accepted
  <1> HIDE DEF reply
  <1>3. Result(reply) = NoOrder
    BY <1>2 DEF Result, executionsResult, averageResult
  <1> QED
    BY <1>3 DEF NoOrder, reply

LEMMA BookFills ==
  ASSUME FillsInv, NEW t \in Threads, Book(t)
  PROVE  FillsInv'
  <1>1. OrderKnown(order[t]) /\ order[t].pc = "reply" /\ inYesCents \in BOOLEAN
    BY DEF FillsInv, Book, Goes
  <1>2. PICK live \in BOOLEAN : order[t].request = Request(order[t].leg, live)
                                /\ (Missed(order[t]) \/ Replied(order[t]))
    BY <1>1 DEF OrderKnown
  <1> DEFINE leg == order[t].leg
             result == Result(order[t].reply)
             fill == takeReportedFill(result, leg)
  <1>3. leg \in Orders /\ DOMAIN order[t] = OrderFields /\ order[t].fill.size = 0
    BY <1>1, <1>2 DEF OrderKnown, Missed, NothingYet, Replied
  <1>4. reported \in Int
    BY ReportedInt
  <1>5. CASE Missed(order[t])
    <2> DEFINE o == [order[t] EXCEPT !.pc = "release"]
    <2>1. ~result.ok
      BY <1>3, <1>5, MissIsNoFill DEF Missed
    <2>2. UNCHANGED <<inYesCents, reported>> /\ Goto(t, o)
      BY <2>1 DEF Book
    <2>3. /\ DOMAIN o = OrderFields /\ o.pc = "release" /\ o.leg = leg
          /\ o.request = order[t].request /\ o.trade = order[t].trade /\ o.fill = order[t].fill
      BY <1>3 DEF OrderFields
    <2> HIDE DEF o
    <2>4. OrderKnown(o)
      BY <1>1, <1>2, <1>3, <2>3 DEF OrderKnown
    <2>5. order[t].trade.count = 0
      BY <1>5 DEF Missed, NothingYet, NoTrade
    <2> QED
      BY <1>1, <1>4, <2>2, <2>3, <2>4, <2>5, FillsMove
  <1>6. CASE Replied(order[t])
    <2> DEFINE o == [order[t] EXCEPT !.pc = "release", !.fill = fill]
    <2>1. PICK ex \in Executions(order[t].request), priced \in BOOLEAN :
            /\ order[t].reply = Reply(leg, ex, priced)
            /\ order[t].trade = Traded(leg, order[t].request, ex)
      BY <1>6 DEF Replied
    <2>2. /\ result.ok
          /\ GoodFill(leg, live, fill, Shares(ex), Earned(leg, Request(leg, live), ex))
      BY <1>1, <1>2, <1>3, <2>1, FillIsGood
    <2>3. order[t].trade.count = Shares(ex)
          /\ order[t].trade.cash = Earned(leg, Request(leg, live), ex)
      BY <1>2, <2>1 DEF Traded
    <2>4. /\ DOMAIN o = OrderFields /\ o.pc = "release" /\ o.leg = leg
          /\ o.request = order[t].request /\ o.trade = order[t].trade /\ o.fill = fill
      BY <1>3 DEF OrderFields
    <2>5. UNCHANGED inYesCents /\ Goto(t, o) /\ reported' = reported - fill.size
      BY <2>2 DEF Book
    <2>6. fill.size = order[t].trade.count
      BY <2>2, <2>3 DEF GoodFill
    <2> HIDE DEF o, fill
    <2>7. OrderKnown(o)
      BY <1>1, <1>2, <1>3, <2>2, <2>3, <2>4 DEF OrderKnown
    <2>8. reported' = reported + 0 - order[t].trade.count
      <3>1. order[t].trade.count \in Nat
        BY <1>1 DEF OrderKnown
      <3> QED
        BY <1>4, <2>5, <2>6, <3>1
    <2> QED
      BY <1>1, <2>4, <2>5, <2>7, <2>8, FillsMove
  <1> QED
    BY <1>2, <1>5, <1>6

LEMMA FinishFills ==
  ASSUME FillsInv, NEW t \in Threads, Finish(t)
  PROVE  FillsInv'
  <1>1. UNCHANGED <<inYesCents, reported>> /\ Goto(t, IdleOrder) /\ order[t].pc = "release"
    BY DEF Finish, Goes
  <1>2. reported \in Int
    BY ReportedInt
  <1> QED
    BY <1>1, <1>2, IdleKnown, FillsMove

LEMMA FillsStay ==
  ASSUME FillsInv, UNCHANGED <<inYesCents, order, reported>>
  PROVE  FillsInv'
  <1>1. \A u \in Threads : OrderKnown(order'[u])
    BY DEF FillsInv
  <1>2. \A u \in Threads : OrderKnown(order[u])'
    BY <1>1, KnownStays
  <1>3. arriving' = arriving
    BY DEF arriving
  <1> QED
    BY <1>2, <1>3 DEF FillsInv

LEMMA FillsNext == FillsInv /\ [Next]_vars => FillsInv'
  <1> SUFFICES ASSUME FillsInv, [Next]_vars PROVE FillsInv'
    OBVIOUS
  <1>1. CASE UNCHANGED vars
    BY <1>1, FillsStay DEF vars
  <1>2. ASSUME NEW t \in Threads, Job(t) PROVE FillsInv'
    <2>1. ASSUME NEW m \in Markets, TryBusyInFlight(t, m) PROVE FillsInv'
      BY <2>1, FillsStay DEF TryBusyInFlight, vars
    <2>2. CASE Sign(t)
      BY <2>2, FillsStay DEF Sign
    <2> QED
      BY <1>2, <2>1, <2>2, AcquireFills, SignedFills, ExecutesFills, NotReportedFills,
         BookFills, FinishFills DEF Job
  <1> QED
    BY <1>1, <1>2 DEF Next

LEMMA FillsAreGood ==
  FillsInv => RequestMeansLeg /\ BookNeverFlatters /\ FillIsWholeWithinLimit /\ ReportedIsBooked
  <1> SUFFICES ASSUME FillsInv
               PROVE  RequestMeansLeg /\ BookNeverFlatters /\ FillIsWholeWithinLimit
                      /\ ReportedIsBooked
    OBVIOUS
  <1>1. RequestMeansLeg
    BY DEF FillsInv, OrderKnown, RequestMeansLeg
  <1>2. ASSUME NEW t \in Threads, Booked(t)
        PROVE  \E live \in BOOLEAN :
                 /\ order[t].request = Request(order[t].leg, live)
                 /\ GoodFill(order[t].leg, live, order[t].fill,
                             order[t].trade.count, order[t].trade.cash)
    <2>1. OrderKnown(order[t]) /\ order[t].pc = "release" /\ order[t].fill.size # 0
      BY <1>2 DEF FillsInv, Booked
    <2> QED
      BY <2>1 DEF OrderKnown
  <1>3. BookNeverFlatters
    BY <1>2 DEF BookNeverFlatters, GoodFill
  <1>4. FillIsWholeWithinLimit
    <2> SUFFICES ASSUME NEW t \in Threads, Booked(t), order[t].request.tif = timeInForce(TRUE)
                 PROVE  /\ order[t].fill.size = order[t].leg.size
                        /\ order[t].fill.price \in Prices
                        /\ order[t].leg.buy /\ ~ReadAsOtherSide(order[t].leg)
                             => order[t].fill.price <= order[t].leg.price
      BY DEF FillIsWholeWithinLimit
    <2>1. PICK live \in BOOLEAN :
            /\ order[t].request = Request(order[t].leg, live)
            /\ GoodFill(order[t].leg, live, order[t].fill,
                        order[t].trade.count, order[t].trade.cash)
      BY <1>2
    <2>2. order[t].leg \in Orders
      BY DEF FillsInv, OrderKnown
    <2>3. order[t].request.tif = timeInForce(live)
      BY <2>1, <2>2, RequestIs
    <2>4. live
      BY <2>3 DEF timeInForce
    <2> QED
      BY <2>1, <2>4 DEF GoodFill
  <1>5. ReportedIsBooked
    BY DEF FillsInv, ReportedIsBooked
  <1> QED
    BY <1>1, <1>3, <1>4, <1>5

-----------------------------------------------------------------------------
(* The order path *)

Refines ==
  /\ Lock!Next \/ UNCHANGED slotHolders
  /\ Dispenser!Next \/ UNCHANGED <<last, stamp>>

LEMMA OrderInvNext == OrderInv /\ [Next]_vars => OrderInv' /\ Refines
  <1> SUFFICES ASSUME OrderInv, [Next]_vars PROVE OrderInv' /\ Refines
    OBVIOUS
  <1>1. CASE UNCHANGED vars
    BY <1>1 DEF vars, slotVars, clockVars, OrderInv, SlotsInOrder, OrdersShaped, WorkersHold,
                Works, InFlight, Slots, ClockTypeOK, slotHolders, Refines
  <1>2. ASSUME NEW t \in Threads, Job(t) PROVE OrderInv' /\ Refines
    <2>1. ASSUME NEW m \in Markets, NEW leg \in Orders, NEW live \in BOOLEAN,
                 Acquire(t, m, leg, live)
          PROVE  OrderInv' /\ Refines
      BY <2>1, AcquireHolds DEF Acquire, clockVars, Refines
    <2>2. ASSUME NEW m \in Markets, TryBusyInFlight(t, m) PROVE UNCHANGED vars
      BY <2>2 DEF TryBusyInFlight
    <2>3. CASE Sign(t)
      <3>1. order[t].leg.venue \in Venues
        BY <2>3 DEF Sign, Goes, OrderInv, OrdersShaped
      <3>2. ClockTypeOK' /\ UNCHANGED <<last, stamp>>
        BY <2>3, <3>1, ClockWaits DEF Sign, OrderInv
      <3> QED
        BY <2>3, <3>2, SignHolds DEF OrderInv, Refines
    <2>4. CASE Signed(t)
      BY <2>4, MiddleHolds, SwapIssues DEF Signed, OrderInv, Refines
    <2>5. CASE Executes(t) \/ NotReported(t) \/ Book(t)
      <3>1. UNCHANGED clockVars
        BY <2>5 DEF Executes, NotReported, Book
      <3> QED
        BY <2>5, <3>1, MiddleHolds DEF OrderInv, ClockTypeOK, clockVars, Refines
    <2>6. CASE Finish(t)
      BY <2>6, FinishHolds DEF Finish, clockVars, Refines
    <2> QED
      BY <1>1, <1>2, <2>1, <2>2, <2>3, <2>4, <2>5, <2>6 DEF Job
  <1> QED
    BY <1>1, <1>2 DEF Next

(* A market that is not in flight can always be taken, for any number of
   markets there are slots for: a slot is never given back
   (live_busy.hpp:8, 22; market_data.hpp:156). *)
THEOREM SlotForEveryMarketHolds == Spec => []SlotForEveryMarket
  <1> QED
    BY OrderInvInit, OrderInvNext, EveryMarketHasSlot, PTL DEF Spec, OrderInv

(* The slot array implements the abstract lock, whatever order markets are
   first seen in and however many threads ask (live_busy.hpp:5-39). *)
THEOREM SlotsRefineLock == Spec => LocksRefined
  <1>1. Init => Lock!Init
    BY DEF Init, IdleOrder, slotHolders, Lock!Init
  <1>2. OrderInv /\ [Next]_vars => [Lock!Next]_slotHolders
    BY OrderInvNext DEF Refines
  <1> QED
    BY <1>1, <1>2, OrderInvInit, OrderInvNext, PTL DEF Spec, LocksRefined, Lock!Spec

(* No two requests to a venue carry the same stamp and stamps only grow, for any
   number of threads, any wall clock, and swaps that fail at will
   (kalshi_env.hpp:36-49). *)
THEOREM StampsRefinedHolds == Spec => StampsRefined
  <1>1. Init => Dispenser!Init
    BY DEF Init, ClocksAtZero, Dispenser!Init
  <1>2. OrderInv /\ [Next]_vars => [Dispenser!Next]_<<last, stamp>>
    BY OrderInvNext DEF Refines
  <1> QED
    BY <1>1, <1>2, OrderInvInit, OrderInvNext, PTL DEF Spec, StampsRefined, Dispenser!Spec

(* In the words of any venue, whole or in parts, at the limit or better, an
   execution of a request costs no more and earns no less than the leg allows:
   for any leg, of any size, at any price (kalshi_order.cpp:18-34,
   polymarket_order.cpp:17-26, gemini_order.cpp:15-20). *)
THEOREM RequestMeansLegHolds == Spec => []RequestMeansLeg
  <1> QED
    BY FillsInit, FillsNext, FillsAreGood, PTL DEF Spec

(* Whatever the reply carries, an average, the last of several prices or none,
   the book takes a fill for no better than it went, half a cent a contract
   apart: for any fill that is read on the side it is reported on
   (polymarket_order.cpp:51-60, money.hpp:22, main.cpp:113). *)
THEOREM BookNeverFlattersHolds == Spec => []BookNeverFlatters
  <1> QED
    BY FillsInit, FillsNext, FillsAreGood, PTL DEF Spec

(* An order sent fill-or-kill is booked whole, at a price a contract can have,
   and a purchase at its limit or better, rounding included: a mean of prices
   within the limit does not round above it (main.cpp:113-127, money.hpp:22). *)
THEOREM FillIsWholeWithinLimitHolds == Spec => []FillIsWholeWithinLimit
  <1> QED
    BY FillsInit, FillsNext, FillsAreGood, PTL DEF Spec

(* Each contract a venue reports is booked once, for any number of threads whose
   replies are on their way at the same time (execution.hpp:19). *)
THEOREM ReportedIsBookedHolds == Spec => []ReportedIsBooked
  <1> QED
    BY FillsInit, FillsNext, FillsAreGood, PTL DEF Spec
=============================================================================
