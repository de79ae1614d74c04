------------------------- MODULE PortfolioProofs ----------------------------
(***************************************************************************)
(* The portfolio under the live path, for any number of feeds, workers and *)
(* markets: what is reserved is what the running jobs hold, a leftover is  *)
(* sold for what it is, and the book holds what the venues hold for us,    *)
(* also when the process dies and the next one asks the venues.            *)
(*                                                                         *)
(* All of it rests on one job having its market to itself: what it read of *)
(* a position is still so when its fill is booked, and nobody else gives   *)
(* back what it set aside.                                                 *)
(***************************************************************************)
EXTENDS LiveTradingProofs, Restart

-----------------------------------------------------------------------------
(* Reservations.  A worker holds the cost of its pair from the reservation to
   release_pair and nothing otherwise, and it is given back at the prices of
   the copy made with the reservation.  Counting the held cents as a set makes
   each reservation a disjoint union and each release a difference. *)

(* Counting cents *)

\* h[u] cents for every u, each tagged with its u.
Cents(h) == UNION {{u} \X (1..h[u]) : u \in DOMAIN h}

LEMMA CentsMember ==
  ASSUME NEW h, NEW x
  PROVE  x \in Cents(h) <=> \E u \in DOMAIN h : \E c \in 1..h[u] : x = <<u, c>>
  BY DEF Cents

LEMMA CentsOfOne ==
  ASSUME NEW u, NEW n \in Int
  PROVE  /\ IsFiniteSet({u} \X (1..n))
         /\ Cardinality({u} \X (1..n)) = IF n > 0 THEN n ELSE 0
  <1>1. IsFiniteSet({u}) /\ Cardinality({u}) = 1
    BY FS_Singleton
  <1>2. IsFiniteSet(1..n) /\ Cardinality(1..n) = IF n > 0 THEN n ELSE 0
    BY FS_Interval
  <1>3. /\ IsFiniteSet({u} \X (1..n))
        /\ Cardinality({u} \X (1..n)) = Cardinality({u}) * Cardinality(1..n)
    BY <1>1, <1>2, FS_Product, Zenon
  <1> QED
    BY <1>1, <1>2, <1>3

\* Giving cents to a worker that has none adds that many.
LEMMA CentsAdded ==
  ASSUME NEW W, NEW h \in [W -> Int], NEW g \in [W -> Int], NEW w \in W,
         h[w] <= 0, \A u \in W : u # w => g[u] = h[u], IsFiniteSet(Cents(h))
  PROVE  /\ IsFiniteSet(Cents(g))
         /\ Cardinality(Cents(g)) = Cardinality(Cents(h)) + (IF g[w] > 0 THEN g[w] ELSE 0)
  <1> DEFINE new == {w} \X (1..g[w])
  <1>1. Cents(g) = Cents(h) \cup new
    <2>1. \A x : x \in Cents(g) => x \in Cents(h) \cup new
      BY CentsMember
    <2>2. \A x : x \in Cents(h) => x \in Cents(g)
      <3> SUFFICES ASSUME NEW x \in Cents(h) PROVE x \in Cents(g)
        OBVIOUS
      <3>1. PICK u \in W : \E c \in 1..h[u] : x = <<u, c>>
        BY CentsMember
      <3>2. u # w
        BY <3>1
      <3> QED
        BY <3>1, <3>2, CentsMember
    <2>3. \A x : x \in new => x \in Cents(g)
      BY CentsMember
    <2> QED
      BY <2>1, <2>2, <2>3
  <1>2. Cents(h) \cap new = {}
    <2> SUFFICES ASSUME NEW x \in Cents(h), x \in new PROVE FALSE
      OBVIOUS
    <2>1. PICK u \in W : \E c \in 1..h[u] : x = <<u, c>>
      BY CentsMember
    <2>2. u = w
      BY <2>1
    <2> QED
      BY <2>1, <2>2
  <1>3. /\ IsFiniteSet(new)
        /\ Cardinality(new) = IF g[w] > 0 THEN g[w] ELSE 0
    BY CentsOfOne
  <1> HIDE DEF new
  <1>4. /\ IsFiniteSet(Cents(h) \cup new)
        /\ Cardinality(Cents(h) \cup new)
             = Cardinality(Cents(h)) + Cardinality(new) - Cardinality({})
    BY <1>2, <1>3, FS_Union
  <1>5. Cardinality({}) = 0 /\ Cardinality(Cents(h)) \in Nat
    BY FS_EmptySet, FS_CardinalityType
  <1>6. Cardinality(new) \in Nat
    BY <1>3, FS_CardinalityType
  <1> QED
    BY <1>1, <1>3, <1>4, <1>5, <1>6

\* Taking all the cents of a worker leaves the others.
LEMMA CentsRemoved ==
  ASSUME NEW W, NEW h \in [W -> Int], NEW g \in [W -> Int], NEW w \in W,
         g[w] <= 0, \A u \in W : u # w => g[u] = h[u], IsFiniteSet(Cents(h))
  PROVE  /\ IsFiniteSet(Cents(g))
         /\ Cardinality(Cents(g)) + (IF h[w] > 0 THEN h[w] ELSE 0) = Cardinality(Cents(h))
         /\ Cardinality(Cents(g)) \in Nat
  <1>1. Cents(g) \subseteq Cents(h)
    <2> SUFFICES ASSUME NEW x \in Cents(g) PROVE x \in Cents(h)
      OBVIOUS
    <2>1. PICK u \in W : \E c \in 1..g[u] : x = <<u, c>>
      BY CentsMember
    <2>2. u # w
      BY <2>1
    <2> QED
      BY <2>1, <2>2, CentsMember
  <1>2. IsFiniteSet(Cents(g)) /\ Cardinality(Cents(g)) \in Nat
    BY <1>1, FS_Subset, FS_CardinalityType
  <1>3. Cardinality(Cents(h)) = Cardinality(Cents(g)) + (IF h[w] > 0 THEN h[w] ELSE 0)
    BY <1>2, CentsAdded
  <1> QED
    BY <1>2, <1>3
-----------------------------------------------------------------------------
(* What a pair sets aside at a venue, and what reserve_pair and release_pair
   do to the reservations. *)

legHeld(leg, v)  == IF leg.venue = v THEN legCost(leg, leg.size) ELSE 0
pairHeld(leg, v) == legHeld(leg[YesSided], v) + legHeld(leg[NoSided], v)
atLeast0(n) == IF n > 0 THEN n ELSE 0

LEMMA PairHeldType ==
  ASSUME NEW leg \in [Sides -> Leg], NEW v
  PROVE  pairHeld(leg, v) \in Int
  <1>1. leg[YesSided] \in Leg /\ leg[NoSided] \in Leg
    BY DEF Sides
  <1>2. \A l \in Leg : legHeld(l, v) \in Int
    BY LegCostType DEF legHeld, Leg
  <1> QED
    BY <1>1, <1>2 DEF pairHeld

LEMMA SetAsideAt ==
  ASSUME NEW res \in [Venues -> Nat], NEW v, NEW amount \in Int, NEW u \in Venues
  PROVE  setAside(res, v, amount)[u] = IF u = v THEN res[u] + atLeast0(amount) ELSE res[u]
  BY DEF setAside, atLeast0

LEMMA GiveBackAt ==
  ASSUME NEW res \in [Venues -> Nat], NEW v, NEW amount \in Int, NEW u \in Venues
  PROVE  giveBack(res, v, amount)[u]
           = IF u = v THEN atLeast0(res[u] - atLeast0(amount)) ELSE res[u]
  BY DEF giveBack, atLeast0

LEMMA ReservePairAt ==
  ASSUME reserved \in [Venues -> Nat], NEW leg \in [Sides -> Leg],
         reserve_pair(leg[YesSided], leg[NoSided]), NEW v \in Venues
  PROVE  reserved'[v] = reserved[v] + atLeast0(pairHeld(leg, v))
  <1> DEFINE yes == leg[YesSided]
             no  == leg[NoSided]
             a   == legCost(yes, yes.size)
             b   == legCost(no, no.size)
  <1>1. yes \in Leg /\ no \in Leg
    BY DEF Sides
  <1>2. a \in Int /\ b \in Int
    BY <1>1, LegCostType DEF Leg
  <1>3. reserveTwo(yes.venue, a, no.venue, b)
    BY DEF reserve_pair
  <1>4. pairHeld(leg, v) = (IF yes.venue = v THEN a ELSE 0) + (IF no.venue = v THEN b ELSE 0)
    BY DEF pairHeld, legHeld
  <1> HIDE DEF a, b, yes, no
  <1>5. CASE yes.venue = no.venue
    <2>1. reserved' = setAside(reserved, yes.venue, a + b) /\ a + b \in Int
      BY <1>2, <1>3, <1>5 DEF reserveTwo
    <2>2. reserved'[v] = IF v = yes.venue THEN reserved[v] + atLeast0(a + b) ELSE reserved[v]
      BY <2>1, SetAsideAt
    <2> QED
      BY <1>2, <1>4, <1>5, <2>2 DEF atLeast0
  <1>6. CASE yes.venue # no.venue
    <2> DEFINE half == setAside(reserved, yes.venue, a)
    <2>1. half \in [Venues -> Nat]
      BY <1>2, ReservedType
    <2>2. half[v] = IF v = yes.venue THEN reserved[v] + atLeast0(a) ELSE reserved[v]
      BY <1>2, SetAsideAt
    <2>3. reserved' = setAside(half, no.venue, b)
      BY <1>3, <1>6 DEF reserveTwo
    <2> HIDE DEF half
    <2>4. reserved'[v] = IF v = no.venue THEN half[v] + atLeast0(b) ELSE half[v]
      BY <1>2, <2>1, <2>3, SetAsideAt
    <2> QED
      BY <1>2, <1>4, <1>6, <2>2, <2>4 DEF atLeast0
  <1> QED
    BY <1>5, <1>6

LEMMA ReleasePairAt ==
  ASSUME reserved \in [Venues -> Nat], NEW leg \in [Sides -> Leg],
         release_pair(leg[YesSided], leg[NoSided]), NEW v \in Venues,
         reserved[v] >= atLeast0(pairHeld(leg, v))
  PROVE  reserved'[v] = reserved[v] - atLeast0(pairHeld(leg, v))
  <1> DEFINE yes == leg[YesSided]
             no  == leg[NoSided]
             a   == legCost(yes, yes.size)
             b   == legCost(no, no.size)
  <1>1. yes \in Leg /\ no \in Leg
    BY DEF Sides
  <1>2. a \in Int /\ b \in Int
    BY <1>1, LegCostType DEF Leg
  <1>3. releaseReserveTwo(yes.venue, a, no.venue, b)
    BY DEF release_pair
  <1>4. pairHeld(leg, v) = (IF yes.venue = v THEN a ELSE 0) + (IF no.venue = v THEN b ELSE 0)
    BY DEF pairHeld, legHeld
  <1> HIDE DEF a, b, yes, no
  <1>5. CASE yes.venue = no.venue
    <2>1. reserved' = giveBack(reserved, yes.venue, a + b) /\ a + b \in Int
      BY <1>2, <1>3, <1>5 DEF releaseReserveTwo
    <2>2. reserved'[v] = IF v = yes.venue THEN atLeast0(reserved[v] - atLeast0(a + b))
                         ELSE reserved[v]
      BY <2>1, GiveBackAt
    <2> QED
      BY <1>2, <1>4, <1>5, <2>2 DEF atLeast0
  <1>6. CASE yes.venue # no.venue
    <2> DEFINE half == giveBack(reserved, yes.venue, a)
    <2>1. half \in [Venues -> Nat]
      BY <1>2, ReservedType
    <2>2. half[v] = IF v = yes.venue THEN atLeast0(reserved[v] - atLeast0(a)) ELSE reserved[v]
      BY <1>2, GiveBackAt
    <2>3. reserved' = giveBack(half, no.venue, b)
      BY <1>3, <1>6 DEF releaseReserveTwo
    <2> HIDE DEF half
    <2>4. reserved'[v] = IF v = no.venue THEN atLeast0(half[v] - atLeast0(b)) ELSE half[v]
      BY <1>2, <2>1, <2>3, GiveBackAt
    <2> QED
      BY <1>2, <1>4, <1>6, <2>2, <2>4 DEF atLeast0
  <1> QED
    BY <1>5, <1>6

-----------------------------------------------------------------------------
(* When a job holds its cash: from the reservation to release_pair. *)

Spending(j) == j.pc \in {"send", "apply", "note", "halt", "release"} /\ j.stage # "flatten"

HoldOK(j) ==
  /\ Spending(j) => j.holding = TRUE
  /\ ~Spending(j) => j.holding = FALSE
  /\ j.pc = "release" => j.stage # "flatten"

\* k is a later state of j that holds what j holds.
SameHold(j, k) ==
  /\ HoldOK(k)
  /\ k.holding = j.holding
  /\ j.holding = TRUE => k.copy = j.copy

\* A fill and a miss leave the reservation alone.
LEMMA AfterFillHolds ==
  ASSUME NEW j \in JobState, PhaseOK(j), HoldOK(j), j.pc \in {"apply", "note", "halt"}
  PROVE  SameHold(j, AfterFill(j))
  <1>1. j.stage \in {"first", "second", "flatten"}
    BY DEF PhaseOK
  <1>2. CASE j.stage = "first"
    BY <1>2 DEF AfterFill, SameHold, HoldOK, Spending, JobState
  <1>3. CASE j.stage = "second"
    BY <1>3 DEF AfterFill, SameHold, HoldOK, Spending, JobState
  <1>4. CASE j.stage = "flatten"
    BY <1>4 DEF AfterFill, SameHold, HoldOK, Spending, JobState
  <1> QED
    BY <1>1, <1>2, <1>3, <1>4

LEMMA AfterNoFillHolds ==
  ASSUME NEW j \in JobState, PhaseOK(j), HoldOK(j), j.pc \in {"send", "apply"}
  PROVE  SameHold(j, AfterNoFill(j))
  BY DEF AfterNoFill, AfterMiss, SameHold, HoldOK, Spending, PhaseOK, JobState

LEMMA NextVenueHolds ==
  ASSUME NEW j \in JobState, HoldOK(j), j.pc \in {"get", "set"}
  PROVE  SameHold(j, NextVenue(j))
  BY DEF NextVenue, SameHold, HoldOK, Spending, JobState

\* Every step of a job but release_pair leaves the reservation alone.
LEMMA JobStepHolds ==
  ASSUME WellTyped, NEW w \in Workers, HoldOK(job[w]), JobStep(w), ~Release(w)
  PROVE  /\ \E k : SameHold(job[w], k) /\ Goto(w, k)
         /\ UNCHANGED reserved
  <1> DEFINE j == job[w]
  <1>0. j \in JobState /\ PhaseOK(j) /\ HoldOK(j)
    BY DEF WellTyped, TypeOK, Phases
  <1> HIDE DEF j
  <1>1. CASE SendGivesUp(w)
    <2>1. j.pc = "send" /\ Goto(w, AfterMiss(j)) /\ UNCHANGED reserved
      BY <1>1 DEF SendGivesUp, bookVars, j
    <2>2. SameHold(j, AfterMiss(j))
      BY <1>0, <2>1 DEF AfterMiss, SameHold, HoldOK, Spending, PhaseOK, JobState
    <2> QED
      BY <2>1, <2>2 DEF j
  <1>2. CASE SendMissed(w)
    <2>1. j.pc = "send" /\ Goto(w, AfterNoFill(j)) /\ UNCHANGED reserved
      BY <1>2 DEF SendMissed, bookVars, j
    <2> QED
      BY <1>0, <2>1, AfterNoFillHolds DEF j
  <1>3. CASE SendFilled(w)
    <2>1. /\ j.pc = "send" /\ UNCHANGED reserved
          /\ \E f : Goto(w, [j EXCEPT !.pc = "apply", !.fill = f])
      BY <1>3 DEF SendFilled, bookVars, j
    <2>2. ASSUME NEW f PROVE SameHold(j, [j EXCEPT !.pc = "apply", !.fill = f])
      BY <1>0, <2>1 DEF SameHold, HoldOK, Spending, JobState
    <2> QED
      BY <2>1, <2>2 DEF j
  <1>4. CASE SendLost(w)
    <2>1. j.pc = "send" /\ Goto(w, AfterNoFill(j)) /\ UNCHANGED reserved
      BY <1>4 DEF SendLost, bookVars, j
    <2> QED
      BY <1>0, <2>1, AfterNoFillHolds DEF j
  <1>5. CASE ApplyFill(w)
    <2> DEFINE priced == IF j.stage = "flatten" THEN j
                         ELSE [j EXCEPT !.leg[Turn(j)].price = j.fill.price]
    <2>1. /\ j.pc = "apply"
          /\ \/ Goto(w, AfterNoFill(priced))
             \/ Goto(w, AfterFill(priced))
             \/ Goto(w, [priced EXCEPT !.pc = "note"])
          /\ UNCHANGED reserved
      BY <1>5 DEF ApplyFill, updatePortfolio, j
    <2>2. /\ priced \in JobState /\ PhaseOK(priced) /\ HoldOK(priced)
          /\ priced.pc = "apply" /\ priced.holding = j.holding /\ priced.copy = j.copy
      <3>1. CASE j.stage = "flatten"
        BY <1>0, <2>1, <3>1
      <3>2. CASE j.stage # "flatten"
        <4>1. j.leg[Turn(j)] \in Leg /\ j.fill.price \in Int
          BY <1>0, TurnType DEF JobState, Leg
        <4>a. [j EXCEPT !.leg[Turn(j)].price = j.fill.price] \in JobState
          BY <1>0, <4>1, TurnType, PricedLegType
        <4>2. priced \in JobState
          BY <3>2, <4>a
        <4>3. /\ priced.pc = j.pc /\ priced.stage = j.stage
              /\ priced.holding = j.holding /\ priced.copy = j.copy
          BY <1>0, <3>2 DEF JobState
        <4> QED
          BY <1>0, <2>1, <4>2, <4>3 DEF PhaseOK, HoldOK, Spending
      <3> QED
        BY <3>1, <3>2
    <2> HIDE DEF priced
    <2>3. SameHold(priced, AfterNoFill(priced)) /\ SameHold(priced, AfterFill(priced))
      BY <2>2, AfterNoFillHolds, AfterFillHolds
    <2>4. SameHold(priced, [priced EXCEPT !.pc = "note"])
      BY <2>2 DEF SameHold, HoldOK, Spending, JobState
    <2>5. \A k : SameHold(priced, k) => SameHold(j, k)
      BY <2>2 DEF SameHold
    <2> QED
      BY <2>1, <2>3, <2>4, <2>5 DEF j
  <1>6. CASE NoteFill(w)
    <2>1. /\ j.pc = "note" /\ UNCHANGED reserved
          /\ \/ Goto(w, AfterFill(j))
             \/ Goto(w, [j EXCEPT !.pc = "halt"])
      BY <1>6 DEF NoteFill, AfterNote, bookVars, j
    <2>2. SameHold(j, [j EXCEPT !.pc = "halt"])
      BY <1>0, <2>1 DEF SameHold, HoldOK, Spending, JobState
    <2> QED
      BY <1>0, <2>1, <2>2, AfterFillHolds DEF j
  <1>7. CASE NoteFillTooLate(w) \/ KillSwitch(w)
    <2>1. j.pc \in {"note", "halt"} /\ Goto(w, AfterFill(j)) /\ UNCHANGED reserved
      BY <1>7 DEF NoteFillTooLate, KillSwitch, bookVars, j
    <2> QED
      BY <1>0, <2>1, AfterFillHolds DEF j
  <1>8. CASE Flatten(w)
    <2>1. /\ j.pc = "flatten" /\ UNCHANGED reserved
          /\ \/ Goto(w, [j EXCEPT !.pc = "get", !.sold = TRUE])
             \/ Goto(w, [j EXCEPT !.pc = "get"])
             \/ \E sell : Goto(w, [j EXCEPT !.pc = "send", !.sell = sell])
      BY <1>8 DEF Flatten, bookVars, j
    <2>2. j.stage = "flatten" /\ j.holding = FALSE
      BY <1>0, <2>1 DEF PhaseOK, HoldOK, Spending
    <2>3. /\ SameHold(j, [j EXCEPT !.pc = "get", !.sold = TRUE])
          /\ SameHold(j, [j EXCEPT !.pc = "get"])
          /\ \A sell : SameHold(j, [j EXCEPT !.pc = "send", !.sell = sell])
      BY <1>0, <2>2 DEF SameHold, HoldOK, Spending, JobState
    <2> QED
      BY <2>1, <2>3 DEF j
  <1>9. CASE GetBalance(w)
    <2>1. /\ j.pc = "get" /\ UNCHANGED reserved
          /\ \E b : Goto(w, [j EXCEPT !.pc = "set", !.balance = b])
      BY <1>9 DEF GetBalance, bookVars, j
    <2>2. \A b : SameHold(j, [j EXCEPT !.pc = "set", !.balance = b])
      BY <1>0, <2>1 DEF SameHold, HoldOK, Spending, JobState
    <2> QED
      BY <2>1, <2>2 DEF j
  <1>10. CASE GetBalanceFails(w) \/ SetBalance(w)
    <2>1. j.pc \in {"get", "set"} /\ Goto(w, NextVenue(j)) /\ UNCHANGED reserved
      BY <1>10 DEF GetBalanceFails, SetBalance, AfterRefusal, bookVars, j
    <2> QED
      BY <1>0, <2>1, NextVenueHolds DEF j
  <1>11. CASE ClearBusy(w) \/ WorkingEnd(w)
    <2>1. /\ j.pc \in {"clear", "end"} /\ UNCHANGED reserved
          /\ Goto(w, [IdleJob EXCEPT !.pc = "end"]) \/ Goto(w, IdleJob)
      BY <1>11 DEF ClearBusy, WorkingEnd, bookVars, j
    <2>2. j.holding = FALSE
      BY <1>0, <2>1 DEF HoldOK, Spending
    <2>3. SameHold(j, IdleJob) /\ SameHold(j, [IdleJob EXCEPT !.pc = "end"])
      BY <2>2 DEF SameHold, HoldOK, Spending, IdleJob, NewJob
    <2> QED
      BY <2>1, <2>3 DEF j
  <1> QED
    BY <1>1, <1>2, <1>3, <1>4, <1>5, <1>6, <1>7, <1>8, <1>9, <1>10, <1>11 DEF JobStep

-----------------------------------------------------------------------------
(* The invariant: every venue's reservation is the number of cents the
   workers hold there. *)

held(j, v) == IF j.holding = TRUE THEN pairHeld(j.copy, v) ELSE 0

\* What each worker of a thread table holds at a venue.
Holding(jobs, v) == [w \in Workers |-> held(jobs[w], v)]

Holds == \A w \in Workers : HoldOK(job[w])

Accounted ==
  \A v \in Venues : /\ IsFiniteSet(Cents(Holding(job, v)))
                    /\ reserved[v] = Cardinality(Cents(Holding(job, v)))

HeldInv == WellTyped /\ Holds /\ Accounted

LEMMA HoldingType ==
  ASSUME NEW jobs \in [Workers -> JobState], NEW v
  PROVE  Holding(jobs, v) \in [Workers -> Int]
  <1>1. ASSUME NEW w \in Workers PROVE held(jobs[w], v) \in Int
    <2>1. jobs[w].copy \in [Sides -> Leg]
      BY DEF JobState
    <2> QED
      BY <2>1, PairHeldType DEF held
  <1> QED
    BY <1>1 DEF Holding

\* A worker moves on without touching its reservation.
LEMMA HoldingKept ==
  ASSUME WellTyped, Holds, Accounted, NEW w \in Workers, NEW k,
         SameHold(job[w], k), job' = [job EXCEPT ![w] = k], UNCHANGED reserved
  PROVE  Holds' /\ Accounted'
  <1>1. \A u \in Workers : job'[u] = IF u = w THEN k ELSE job[u]
    BY DEF WellTyped, TypeOK
  <1>2. Holds'
    BY <1>1 DEF Holds, SameHold
  <1>3. ASSUME NEW v \in Venues PROVE Holding(job', v) = Holding(job, v)
    <2>1. held(k, v) = held(job[w], v)
      BY DEF held, SameHold
    <2>2. \A u \in Workers : held(job'[u], v) = held(job[u], v)
      BY <1>1, <2>1
    <2> QED
      BY <2>2 DEF Holding
  <1>4. Accounted'
    BY <1>3 DEF Accounted
  <1> QED
    BY <1>2, <1>4

\* An idle worker starts a job that holds nothing.
LEMMA HoldingOfIdle ==
  ASSUME WellTyped, Holds, NEW w \in Workers, job[w].pc = "idle"
  PROVE  job[w].holding = FALSE
  BY DEF Holds, HoldOK, Spending

\* reserve_pair: a worker that held nothing holds the cost of its pair.
LEMMA ReserveAccounted ==
  ASSUME HeldInv, NEW t \in Feeds, NEW w \in Workers, Reserve(t, w), WellTyped'
  PROVE  Holds' /\ Accounted'
  <1> DEFINE leg == feed[t].leg
             k   == PairJob(feed[t].market, leg)
  <1>1. /\ reserve_pair(leg[YesSided], leg[NoSided])
        /\ job[w].pc = "idle" /\ job' = [job EXCEPT ![w] = k]
    BY DEF Reserve, Spawn
  <1>2. /\ leg \in [Sides -> Leg] /\ reserved \in [Venues -> Nat]
        /\ job \in [Workers -> JobState] /\ job' \in [Workers -> JobState]
    BY DEF HeldInv, WellTyped, TypeOK, PortfolioTypeOK, FeedState
  <1>3. k.copy = leg /\ k.holding = TRUE /\ HoldOK(k)
    BY DEF PairJob, NewJob, HoldOK, Spending
  <1> HIDE DEF leg, k
  <1>4. \A u \in Workers : job'[u] = IF u = w THEN k ELSE job[u]
    BY <1>1, <1>2
  <1>5. Holds'
    BY <1>3, <1>4 DEF HeldInv, Holds
  <1>6. job[w].holding = FALSE
    BY <1>1, HoldingOfIdle DEF HeldInv
  <1>7. ASSUME NEW v \in Venues
        PROVE  /\ IsFiniteSet(Cents(Holding(job', v)))
               /\ reserved'[v] = Cardinality(Cents(Holding(job', v)))
    <2>1. Holding(job, v) \in [Workers -> Int] /\ Holding(job', v) \in [Workers -> Int]
      BY <1>2, HoldingType
    <2>2. Holding(job, v)[w] = 0
      BY <1>6 DEF Holding, held
    <2>3. Holding(job', v)[w] = pairHeld(leg, v)
      BY <1>3, <1>4 DEF Holding, held
    <2>4. \A u \in Workers : u # w => Holding(job', v)[u] = Holding(job, v)[u]
      BY <1>4 DEF Holding
    <2>5. IsFiniteSet(Cents(Holding(job, v))) /\ reserved[v] = Cardinality(Cents(Holding(job, v)))
      BY DEF HeldInv, Accounted
    <2>6. /\ IsFiniteSet(Cents(Holding(job', v)))
          /\ Cardinality(Cents(Holding(job', v)))
               = Cardinality(Cents(Holding(job, v))) + atLeast0(pairHeld(leg, v))
      <3>1. Holding(job, v)[w] <= 0
        BY <2>2
      <3> QED
        BY <2>1, <2>3, <2>4, <2>5, <3>1, CentsAdded DEF atLeast0
    <2>7. reserved'[v] = reserved[v] + atLeast0(pairHeld(leg, v))
      BY <1>1, <1>2, ReservePairAt
    <2> QED
      BY <2>5, <2>6, <2>7
  <1> QED
    BY <1>5, <1>7 DEF Accounted

\* release_pair: a worker gives back what it held, at the prices of the copy.
LEMMA ReleaseAccounted ==
  ASSUME HeldInv, NEW w \in Workers, Release(w), WellTyped'
  PROVE  Holds' /\ Accounted'
  <1> DEFINE j   == job[w]
             leg == j.copy
             k   == IF j.stage = "first"
                    THEN [j EXCEPT !.pc = "get", !.holding = FALSE]
                    ELSE [j EXCEPT !.pc = "flatten", !.stage = "flatten", !.holding = FALSE]
  <1>1. /\ j.pc = "release" /\ release_pair(leg[YesSided], leg[NoSided])
        /\ job' = [job EXCEPT ![w] = k]
    BY DEF Release, ReleasedLegs, Goto
  <1>2. /\ j \in JobState /\ leg \in [Sides -> Leg] /\ reserved \in [Venues -> Nat]
        /\ job \in [Workers -> JobState] /\ job' \in [Workers -> JobState]
    BY DEF HeldInv, WellTyped, TypeOK, PortfolioTypeOK, JobState
  <1>3. j.holding = TRUE
    BY <1>1 DEF HeldInv, Holds, HoldOK, Spending
  <1>4. k.holding = FALSE /\ HoldOK(k)
    BY <1>2 DEF JobState, HoldOK, Spending
  <1> HIDE DEF k
  <1>5. \A u \in Workers : job'[u] = IF u = w THEN k ELSE job[u]
    BY <1>1, <1>2
  <1>6. Holds'
    BY <1>4, <1>5 DEF HeldInv, Holds
  <1>7. ASSUME NEW v \in Venues
        PROVE  /\ IsFiniteSet(Cents(Holding(job', v)))
               /\ reserved'[v] = Cardinality(Cents(Holding(job', v)))
    <2>1. Holding(job, v) \in [Workers -> Int] /\ Holding(job', v) \in [Workers -> Int]
      BY <1>2, HoldingType
    <2>2. Holding(job, v)[w] = pairHeld(leg, v)
      BY <1>3 DEF Holding, held
    <2>3. Holding(job', v)[w] = 0
      BY <1>4, <1>5 DEF Holding, held
    <2>4. \A u \in Workers : u # w => Holding(job', v)[u] = Holding(job, v)[u]
      BY <1>5 DEF Holding
    <2>5. IsFiniteSet(Cents(Holding(job, v))) /\ reserved[v] = Cardinality(Cents(Holding(job, v)))
      BY DEF HeldInv, Accounted
    <2>6. /\ IsFiniteSet(Cents(Holding(job', v)))
          /\ Cardinality(Cents(Holding(job', v))) + atLeast0(pairHeld(leg, v))
               = Cardinality(Cents(Holding(job, v)))
          /\ Cardinality(Cents(Holding(job', v))) \in Nat
      <3>1. Holding(job', v)[w] <= 0
        BY <2>3
      <3> QED
        BY <2>1, <2>2, <2>4, <2>5, <3>1, CentsRemoved DEF atLeast0
    <2>7. pairHeld(leg, v) \in Int
      BY <1>2, PairHeldType
    <2>8. reserved[v] >= atLeast0(pairHeld(leg, v))
      BY <2>5, <2>6, <2>7 DEF atLeast0
    <2>9. reserved'[v] = reserved[v] - atLeast0(pairHeld(leg, v))
      BY <1>1, <1>2, <2>8, ReleasePairAt
    <2> QED
      BY <2>5, <2>6, <2>7, <2>9 DEF atLeast0
  <1> QED
    BY <1>6, <1>7 DEF Accounted

\* Where nobody works and nothing is set aside.
LEMMA HeldAtRest ==
  ASSUME WellTyped, \A w \in Workers : job[w] = IdleJob, \A v \in Venues : reserved[v] = 0
  PROVE  HeldInv
  <1>1. IdleJob.holding = FALSE /\ HoldOK(IdleJob)
    BY DEF IdleJob, NewJob, HoldOK, Spending
  <1>2. ASSUME NEW v \in Venues
        PROVE  /\ IsFiniteSet(Cents(Holding(job, v)))
               /\ reserved[v] = Cardinality(Cents(Holding(job, v)))
    <2>1. /\ DOMAIN Holding(job, v) = Workers
          /\ \A w \in Workers : Holding(job, v)[w] = 0
      BY <1>1 DEF Holding, held
    <2>2. \A x : x \notin Cents(Holding(job, v))
      BY <2>1, CentsMember
    <2>3. Cents(Holding(job, v)) = {}
      BY <2>2
    <2> QED
      BY <2>3, FS_EmptySet
  <1> QED
    BY <1>1, <1>2 DEF HeldInv, Holds, Accounted

LEMMA HeldNext ==
  ASSUME HeldInv, [Next]_vars
  PROVE  HeldInv'
  <1>1. WellTyped'
    BY NextTyped DEF HeldInv
  <1>2. CASE UNCHANGED <<job, reserved>>
    BY <1>1, <1>2 DEF HeldInv, Holds, Accounted
  <1>3. ASSUME NEW t \in Feeds, Tick(t) PROVE HeldInv'
    <2>1. UNCHANGED <<job, reserved>>
      BY <1>3 DEF Tick, FlattenTick, PairTick, Attempt, bookVars
    <2> QED
      BY <1>2, <2>1
  <1>4. ASSUME NEW t \in Feeds, NEW w \in Workers, TryBusyFlatten(t, w) PROVE HeldInv'
    <2> DEFINE k == FlattenJob(feed[t].market)
    <2>1. job[w].pc = "idle" /\ job' = [job EXCEPT ![w] = k] /\ UNCHANGED reserved
      BY <1>4 DEF TryBusyFlatten, Spawn, bookVars
    <2>2. k.holding = FALSE /\ HoldOK(k)
      BY DEF FlattenJob, NewJob, HoldOK, Spending
    <2> HIDE DEF k
    <2>3. SameHold(job[w], k)
      BY <2>1, <2>2, HoldingOfIdle DEF SameHold, HeldInv
    <2> QED
      BY <1>1, <2>1, <2>3, HoldingKept DEF HeldInv
  <1>5. ASSUME NEW t \in Feeds, NEW w \in Workers, Reserve(t, w) PROVE HeldInv'
    BY <1>1, <1>5, ReserveAccounted DEF HeldInv
  <1>6. ASSUME NEW t \in Feeds, Dispatch(t) PROVE HeldInv'
    <2>1. CASE TryBusyInFlight(t) \/ TryBusyPair(t) \/ ReserveFails(t)
      <3>1. UNCHANGED <<job, reserved>>
        BY <2>1 DEF TryBusyInFlight, TryBusyPair, ReserveFails, bookVars
      <3> QED
        BY <1>2, <3>1
    <2> QED
      BY <1>4, <1>5, <1>6, <2>1 DEF Dispatch
  <1>7. ASSUME NEW w \in Workers, JobStep(w) PROVE HeldInv'
    <2>1. CASE Release(w)
      BY <1>1, <2>1, ReleaseAccounted DEF HeldInv
    <2>2. CASE ~Release(w)
      <3>1. PICK k : SameHold(job[w], k) /\ Goto(w, k) /\ UNCHANGED reserved
        BY <1>7, <2>2, JobStepHolds DEF HeldInv, Holds
      <3> QED
        BY <1>1, <3>1, HoldingKept DEF HeldInv, Goto
    <2> QED
      BY <2>1, <2>2
  <1>8. CASE (\E t \in Feeds : QuietTick(t)) \/ Stop \/ UNCHANGED vars \/ \E m \in Markets : Expire(m)
    <2>1. UNCHANGED <<job, reserved>>
      BY <1>8 DEF QuietTick, Stop, Expire, vars, bookVars
    <2> QED
      BY <1>2, <2>1
  <1> QED
    BY <1>3, <1>6, <1>7, <1>8 DEF Next

LEMMA HeldIsReserved == HeldInv => ReservedIsHeld
  <1> SUFFICES ASSUME HeldInv, NEW v \in Venues
               PROVE  reserved[v] = Cardinality(HeldCents(v))
    BY DEF ReservedIsHeld
  <1>1. ASSUME NEW w \in Workers PROVE heldBy(w, v) = Holding(job, v)[w]
    <2>1. job[w].holding = TRUE \/ job[w].holding = FALSE
      BY DEF HeldInv, Holds, HoldOK
    <2> QED
      BY <2>1 DEF heldBy, Holding, held, pairHeld, legHeld
  <1>2. DOMAIN Holding(job, v) = Workers
    BY DEF Holding
  <1>3. HeldCents(v) = Cents(Holding(job, v))
    BY <1>1, <1>2 DEF HeldCents, Cents
  <1> QED
    BY <1>3 DEF HeldInv, Accounted

(* The cash set aside at a venue is exactly what the running jobs reserved
   there: reserve_pair before a job and release_pair on both ways out of
   liveSendPair balance to the cent, whatever was chased, missed, lost or
   filled at another price in between, and the floor at zero of
   releaseReserveUnlocked is never what makes them balance. *)
THEOREM ReservedIsHeldHolds == Spec => []ReservedIsHeld
  <1>1. Init => HeldInv
    BY InitTyped, HeldAtRest DEF Init
  <1>2. HeldInv /\ [Next]_vars => HeldInv'
    BY HeldNext
  <1> QED
    BY <1>1, <1>2, HeldIsReserved, PTL DEF Spec

-----------------------------------------------------------------------------
(* Leftovers, and the kill switch *)

(* What a job that flattens knows of the position p of its market: the sale
   it sends or books is of the whole leftover, and after the sale nothing
   is left. *)
SellsLeftoverOf(j, p) ==
  /\ j.stage = "flatten" /\ j.pc \in {"send", "apply"} =>
       ~Balanced(p) /\ j.sell = surplusSellIntent(p)
  /\ j.stage = "flatten" /\ j.pc = "apply" =>
       ~j.fill.buy /\ j.fill.side = j.sell.side /\ j.fill.size = j.sell.size
  /\ j.stage = "flatten" /\ j.pc \in {"note", "halt"} => Balanced(p)
  /\ j.sold => Balanced(p) /\ j.pc \in {"get", "set", "clear"}

LeftoverInv == \A w \in Workers : SellsLeftoverOf(job[w], pos[job[w].market])

VenuesKnown ==
  /\ \A m \in Markets : HeldSomewhere(pos[m])
  /\ \A w \in Workers : job[w].pc = "apply" => job[w].fill.venue # NoVenue

-----------------------------------------------------------------------------
(* Venues *)

LEMMA BookKeepsVenues ==
  ASSUME WellTyped, NEW market \in Markets, NEW f \in Leg, f.venue # NoVenue,
         HeldSomewhere(pos[market]), updatePortfolio(market, f)
  PROVE  /\ HeldSomewhere(pos'[market])
         /\ \A m \in Markets \ {market} : pos'[m] = pos[m]
  <1>0. pos[market] \in Position /\ DOMAIN pos = Markets /\ f.side \in Sides /\ f.size \in Nat
    BY DEF WellTyped, TypeOK, PortfolioTypeOK, Leg
  <1>1. CASE ~fillApplies(market, f)
    BY <1>1 DEF updatePortfolio
  <1>2. CASE fillApplies(market, f) /\ f.buy
    <2>1. pos' = [pos EXCEPT ![market] =
                    blendLot(pos[market], f.side, f.venue, f.size, f.price)]
      BY <1>2 DEF updatePortfolio, applyBuy
    <2> QED
      BY <1>0, <2>1, BoughtSomewhere
  <1>3. CASE fillApplies(market, f) /\ ~f.buy
    <2> DEFINE n == soldSize(pos[market], f)
    <2>1. pos' = [pos EXCEPT ![market] = sellLot(pos[market], f.side, n)]
      BY <1>3 DEF updatePortfolio, applySell
    <2>2. n \in 0..pos[market].count[f.side]
      BY <1>0 DEF soldSize, Position
    <2> HIDE DEF n
    <2> QED
      BY <1>0, <2>1, <2>2, SoldSomewhere
  <1> QED
    BY <1>1, <1>2, <1>3

\* Only an executed order leaves a job with a fill to book.
LEMMA ElsewhereThanApply ==
  ASSUME LockInv, NEW w \in Workers, JobStep(w), ~SendFilled(w)
  PROVE  job'[w].pc # "apply" /\ \A u \in Workers \ {w} : job'[u] = job[u]
  <1> DEFINE j == job[w]
  <1>0. j \in JobState /\ PhaseOK(j) /\ DOMAIN job = Workers
    BY DEF LockInv, Shape, WellTyped, TypeOK, Phases
  <1>1. ASSUME NEW k \in JobState, k.stage # "done", PhaseOK(k)
        PROVE  AfterFill(k).pc # "apply" /\ AfterNoFill(k).pc # "apply"
    <2>1. AfterNoFill(k).pc # "apply"
      BY <1>1 DEF AfterNoFill, AfterMiss, JobState
    <2>2. k.stage \in {"first", "second", "flatten"}
      BY <1>1 DEF PhaseOK
    <2>3. CASE k.stage = "first"
      BY <1>1, <2>1, <2>3 DEF AfterFill, JobState
    <2>4. CASE k.stage = "second"
      BY <1>1, <2>1, <2>4 DEF AfterFill, JobState
    <2>5. CASE k.stage = "flatten"
      BY <1>1, <2>1, <2>5 DEF AfterFill, JobState
    <2> QED
      BY <2>1, <2>2, <2>3, <2>4, <2>5
  <1>2. ASSUME NEW k, Goto(w, k), k.pc # "apply"
        PROVE  job'[w].pc # "apply" /\ \A u \in Workers \ {w} : job'[u] = job[u]
    BY <1>0, <1>2 DEF Goto
  <1>3. CASE ApplyFill(w)
    <2> DEFINE priced == IF j.stage = "flatten" THEN j
                         ELSE [j EXCEPT !.leg[Turn(j)].price = j.fill.price]
    <2>1. /\ j.pc = "apply"
          /\ \/ Goto(w, AfterNoFill(priced))
             \/ Goto(w, AfterFill(priced))
             \/ Goto(w, [priced EXCEPT !.pc = "note"])
      BY <1>3 DEF ApplyFill
    <2>2. j.stage # "done" /\ j.fill.price \in Int
      BY <1>0, <2>1 DEF PhaseOK, JobState, Leg
    <2> DEFINE side == Turn(j)
               price == j.fill.price
    <2>3. side \in Sides
      BY TurnType
    <2> HIDE DEF side, price
    <2>4. [j EXCEPT !.leg[side].price = price] \in JobState
      BY <1>0, <2>2, <2>3, PricedLegType DEF price
    <2>5. priced \in JobState /\ priced.stage = j.stage /\ PhaseOK(priced)
      <3>1. CASE j.stage = "flatten"
        BY <1>0, <3>1
      <3>2. CASE j.stage # "flatten"
        BY <1>0, <2>4, <3>2 DEF side, price, JobState, PhaseOK
      <3> QED
        BY <3>1, <3>2
    <2> HIDE DEF priced, j
    <2>6. [priced EXCEPT !.pc = "note"].pc # "apply"
      BY <2>5 DEF JobState
    <2> QED
      BY <1>1, <1>2, <2>1, <2>2, <2>5, <2>6
  <1>4. CASE SendMissed(w) \/ SendLost(w)
    <2>1. j.pc = "send" /\ Goto(w, AfterNoFill(j))
      BY <1>4 DEF SendMissed, SendLost
    <2> QED
      BY <1>0, <1>1, <1>2, <2>1 DEF PhaseOK
  <1>5. CASE NoteFill(w) \/ NoteFillTooLate(w) \/ KillSwitch(w)
    <2>1. /\ j.pc \in {"note", "halt"}
          /\ Goto(w, AfterFill(j)) \/ Goto(w, [j EXCEPT !.pc = "halt"])
      BY <1>5 DEF NoteFill, AfterNote, NoteFillTooLate, KillSwitch
    <2>2. [j EXCEPT !.pc = "halt"].pc # "apply"
      BY <1>0 DEF JobState
    <2> QED
      BY <1>0, <1>1, <1>2, <2>1, <2>2 DEF PhaseOK
  <1>6. CASE SendGivesUp(w)
    BY <1>0, <1>6 DEF SendGivesUp, AfterMiss, JobState, Goto
  <1>7. CASE Release(w) \/ Flatten(w)
    BY <1>0, <1>7 DEF Release, Flatten, JobState, Goto
  <1>8. CASE GetBalance(w) \/ GetBalanceFails(w) \/ SetBalance(w)
    BY <1>0, <1>8 DEF GetBalance, GetBalanceFails, AfterRefusal, SetBalance, NextVenue,
                      JobState, Goto
  <1>9. CASE ClearBusy(w) \/ WorkingEnd(w)
    BY <1>0, <1>9 DEF ClearBusy, WorkingEnd, IdleJob, NewJob, Goto
  <1> QED
    BY <1>3, <1>4, <1>5, <1>6, <1>7, <1>8, <1>9 DEF JobStep

LEMMA VenuesKnownInit == Init => VenuesKnown
  BY DEF Init, VenuesKnown, HeldSomewhere, EmptyPosition, IdleJob, NewJob

LEMMA VenuesKnownNext == LockInv /\ VenuesKnown /\ [Next]_vars => VenuesKnown'
  <1> SUFFICES ASSUME LockInv, VenuesKnown, [Next]_vars PROVE VenuesKnown'
    OBVIOUS
  <1>0. DOMAIN job = Workers
    BY DEF LockInv, Shape
  <1>1. CASE UNCHANGED <<job, pos>>
    BY <1>1 DEF VenuesKnown
  <1>2. ASSUME NEW w \in Workers, JobStep(w) PROVE VenuesKnown'
    <2>1. CASE SendFilled(w)
      <3> DEFINE j == job[w]
      <3>0. j \in JobState
        BY DEF LockInv, WellTyped, TypeOK
      <3>1. PICK f \in VenueFills(j.market, Order(j)) : \E reported \in ReportedPrices(f) :
              Goto(w, [j EXCEPT !.pc = "apply", !.fill = takeReportedFill(f, reported, Order(j))])
        BY <2>1 DEF SendFilled
      <3>a. PICK reported \in ReportedPrices(f) :
              Goto(w, [j EXCEPT !.pc = "apply", !.fill = takeReportedFill(f, reported, Order(j))])
        BY <3>1
      <3> DEFINE fill == takeReportedFill(f, reported, Order(j))
      <3>b. fill.venue = f.venue
        BY DEF takeReportedFill, VenueFills
      <3> HIDE DEF fill
      <3>2. Goto(w, [j EXCEPT !.pc = "apply", !.fill = fill]) /\ fill.venue = f.venue
        BY <3>a, <3>b DEF fill
      <3>3. f.venue # NoVenue
        BY ConfiguredAssumption DEF VenueFills, Venues, Kalshi, Polymarket, Gemini, NoVenue
      <3>4. job'[w].fill = fill /\ \A u \in Workers \ {w} : job'[u] = job[u]
        BY <1>0, <3>0, <3>2 DEF Goto, JobState
      <3>5. UNCHANGED pos
        BY <2>1 DEF SendFilled, bookVars
      <3> QED
        BY <3>2, <3>3, <3>4, <3>5 DEF VenuesKnown
    <2>2. CASE ApplyFill(w)
      <3>1. /\ job[w].pc = "apply" /\ job[w].market \in Markets /\ job[w].fill \in Leg
            /\ job[w].fill.venue # NoVenue
        BY <2>2 DEF ApplyFill, LockInv, WellTyped, TypeOK, JobState, Ready, JobReady, VenuesKnown
      <3>2. /\ HeldSomewhere(pos'[job[w].market])
            /\ \A m \in Markets \ {job[w].market} : pos'[m] = pos[m]
        BY <2>2, <3>1, BookKeepsVenues DEF ApplyFill, LockInv, VenuesKnown
      <3>3. ~SendFilled(w)
        BY <3>1 DEF SendFilled
      <3>4. job'[w].pc # "apply" /\ \A u \in Workers \ {w} : job'[u] = job[u]
        BY <1>2, <3>3, ElsewhereThanApply
      <3> QED
        BY <3>2, <3>4 DEF VenuesKnown
    <2>3. CASE ~SendFilled(w) /\ ~ApplyFill(w)
      <3>1. UNCHANGED pos
        BY <1>2, <2>3 DEF JobStep, SendGivesUp, SendMissed, SendLost, NoteFill, NoteFillTooLate,
             KillSwitch, Release, Flatten, GetBalance, GetBalanceFails, SetBalance, ClearBusy,
             WorkingEnd, bookVars
      <3>2. job'[w].pc # "apply" /\ \A u \in Workers \ {w} : job'[u] = job[u]
        BY <1>2, <2>3, ElsewhereThanApply
      <3> QED
        BY <3>1, <3>2 DEF VenuesKnown
    <2> QED
      BY <2>1, <2>2, <2>3
  <1>3. ASSUME NEW t \in Feeds, Dispatch(t) PROVE VenuesKnown'
    <2>1. CASE TryBusyInFlight(t) \/ TryBusyPair(t) \/ ReserveFails(t)
      BY <1>1, <2>1 DEF TryBusyInFlight, TryBusyPair, ReserveFails, bookVars
    <2>2. ASSUME NEW w \in Workers, NEW k, job' = [job EXCEPT ![w] = k], k.pc # "apply",
                 UNCHANGED pos
          PROVE  VenuesKnown'
      BY <1>0, <2>2 DEF VenuesKnown
    <2>3. ASSUME NEW w \in Workers, TryBusyFlatten(t, w) PROVE VenuesKnown'
      BY <2>2, <2>3, NewJobs DEF TryBusyFlatten, Spawn, bookVars
    <2>4. ASSUME NEW w \in Workers, Reserve(t, w) PROVE VenuesKnown'
      BY <2>2, <2>4, NewJobs DEF Reserve, Spawn
    <2> QED
      BY <1>3, <2>1, <2>3, <2>4 DEF Dispatch
  <1>4. ASSUME NEW t \in Feeds, Tick(t) PROVE UNCHANGED <<job, pos>>
    BY <1>4 DEF Tick, FlattenTick, PairTick, Attempt, bookVars
  <1> QED
    BY <1>1, <1>2, <1>3, <1>4 DEF Next, QuietTick, Stop, Expire, vars, bookVars

-----------------------------------------------------------------------------
(* Steps *)

\* A job that does not flatten has sold nothing.
LEMMA NotFlattening ==
  ASSUME NEW j, NEW p, j.stage # "flatten", ~j.sold
  PROVE  SellsLeftoverOf(j, p)
  BY DEF SellsLeftoverOf

\* The other jobs do not see what one job does: it books on its own market.
LEMMA OthersKeepLeftover ==
  ASSUME LockInv, LeftoverInv, NEW w \in Workers, Active(w), NEW k, Goto(w, k),
         \A m \in Markets \ {job[w].market} : pos'[m] = pos[m],
         SellsLeftoverOf(k, pos'[k.market])
  PROVE  LeftoverInv'
  <1>1. job'[w] = k /\ \A u \in Workers \ {w} : job'[u] = job[u]
    BY DEF Goto, LockInv, Shape
  <1>2. ASSUME NEW u \in Workers \ {w}, Active(u)
        PROVE  SellsLeftoverOf(job'[u], pos'[job'[u].market])
    <2>1. job[u].market \in Markets \ {job[w].market}
      BY <1>2 DEF LockInv, OneOwner, OneJobPerMarket, WellTyped, Ready, JobReady, Active
    <2> QED
      BY <1>1, <2>1 DEF LeftoverInv
  <1>3. ASSUME NEW u \in Workers \ {w}, ~Active(u)
        PROVE  SellsLeftoverOf(job'[u], pos'[job'[u].market])
    BY <1>1, <1>3 DEF LeftoverInv, SellsLeftoverOf, Active
  <1> QED
    BY <1>1, <1>2, <1>3 DEF LeftoverInv

LEMMA AfterNoFillLeftover ==
  ASSUME NEW j, TypedJob(j), j.stage # "done", ~j.sold, NEW p
  PROVE  SellsLeftoverOf(AfterNoFill(j), p)
  <1>1. j \in JobState
    BY DEF TypedJob
  <1>2. CASE j.stage = "flatten"
    BY <1>1, <1>2 DEF AfterNoFill, AfterMiss, SellsLeftoverOf, JobState
  <1>3. CASE j.stage # "flatten"
    <2>1. AfterNoFill(j).stage = j.stage /\ AfterNoFill(j).sold = j.sold
      BY <1>1 DEF AfterNoFill, AfterMiss, JobState
    <2> QED
      BY <1>3, <2>1, NotFlattening
  <1> QED
    BY <1>2, <1>3

LEMMA AfterFillLeftover ==
  ASSUME NEW j, TypedJob(j), j.stage # "done", ~j.sold, NEW p, j.stage = "flatten" => Balanced(p)
  PROVE  SellsLeftoverOf(AfterFill(j), p)
  <1>1. j \in JobState /\ j.stage \in {"first", "second", "flatten"}
    BY DEF TypedJob, PhaseOK
  <1>2. CASE j.stage = "first"
    BY <1>1, <1>2 DEF AfterFill, SellsLeftoverOf, JobState
  <1>3. CASE j.stage = "second"
    BY <1>1, <1>3 DEF AfterFill, SellsLeftoverOf, JobState
  <1>4. CASE j.stage = "flatten"
    BY <1>1, <1>4 DEF AfterFill, SellsLeftoverOf, JobState
  <1> QED
    BY <1>1, <1>2, <1>3, <1>4

LEMMA ApplyFillLeftover ==
  ASSUME LockInv, LeftoverInv, NEW w \in Workers, ApplyFill(w)
  PROVE  LeftoverInv'
  <1> DEFINE j == job[w]
             p == pos[j.market]
             priced == IF j.stage = "flatten" THEN j
                       ELSE [j EXCEPT !.leg[Turn(j)].price = j.fill.price]
  <1>1. /\ j.pc = "apply" /\ updatePortfolio(j.market, j.fill)
        /\ \/ Goto(w, AfterNoFill(priced)) /\ ~fillApplies(j.market, j.fill)
           \/ Goto(w, AfterFill(priced)) /\ fillApplies(j.market, j.fill)
           \/ Goto(w, [priced EXCEPT !.pc = "note"]) /\ fillApplies(j.market, j.fill)
    BY DEF ApplyFill
  <1>2. TypedJob(j) /\ j.market \in Markets /\ j.stage # "done" /\ ~j.sold /\ Active(w)
    BY <1>1 DEF LockInv, WellTyped, TypeOK, Phases, PhaseOK, Ready, JobReady, TypedJob,
                LeftoverInv, SellsLeftoverOf, Active
  <1>3. p \in Position /\ DOMAIN pos = Markets
    BY <1>2 DEF LockInv, WellTyped, TypeOK, PortfolioTypeOK
  <1>4. SellsLeftoverOf(j, p)
    BY DEF LeftoverInv
  <1>5. /\ TypedJob(priced) /\ priced.stage = j.stage /\ priced.sold = j.sold
        /\ priced.market = j.market
    <2>1. CASE j.stage = "flatten"
      BY <1>2, <2>1
    <2>2. CASE j.stage # "flatten"
      <3> DEFINE side == Turn(j)
                 price == j.fill.price
                 bumped == [j EXCEPT !.leg[side].price = price]
      <3>1. side \in Sides /\ price \in Int /\ j \in JobState
        BY <1>2, TurnType DEF TypedJob, JobState, Leg
      <3> HIDE DEF side, price
      <3>2. bumped \in JobState
        BY <3>1, PricedLegType
      <3>3. /\ bumped.stage = j.stage /\ bumped.pc = j.pc /\ bumped.market = j.market
            /\ bumped.sell = j.sell /\ bumped.fill = j.fill /\ bumped.sold = j.sold
        BY <3>1 DEF JobState
      <3>4. j.stage \in {"first", "second"} => PairOfBuys(bumped.leg)
        BY <1>2, <3>1, PricedLegBuys DEF TypedJob, JobReady
      <3>5. priced = bumped
        BY <2>2 DEF side, price
      <3> HIDE DEF bumped, priced
      <3> QED
        BY <1>2, <3>2, <3>3, <3>4, <3>5 DEF TypedJob, PhaseOK, JobReady
    <2> QED
      BY <2>1, <2>2
  <1>6. j.stage = "flatten" => fillApplies(j.market, j.fill) /\ Balanced(pos'[j.market])
    <2> SUFFICES ASSUME j.stage = "flatten"
                 PROVE  fillApplies(j.market, j.fill) /\ Balanced(pos'[j.market])
      OBVIOUS
    <2>1. /\ ~Balanced(p) /\ ~j.fill.buy /\ j.fill.side = surplusSellIntent(p).side
          /\ j.fill.size = surplusSellIntent(p).size
      BY <1>1, <1>4 DEF SellsLeftoverOf
    <2>2. /\ fillApplies(j.market, j.fill)
          /\ Balanced(sellLot(p, j.fill.side, soldSize(p, j.fill)))
      BY <1>3, <2>1, SaleBalances DEF fillApplies
    <2>3. pos'[j.market] = sellLot(p, j.fill.side, soldSize(p, j.fill))
      BY <1>1, <1>2, <1>3, <2>1, <2>2 DEF updatePortfolio, applySell
    <2> QED
      BY <2>2, <2>3
  <1>7. \A m \in Markets \ {j.market} : pos'[m] = pos[m]
    BY <1>1, <1>3 DEF updatePortfolio, applyBuy, applySell
  <1> HIDE DEF priced
  <1>8. CASE Goto(w, AfterNoFill(priced)) /\ ~fillApplies(j.market, j.fill)
    BY <1>2, <1>5, <1>7, <1>8, AfterNoFillLeftover, OthersKeepLeftover
  <1>9. CASE Goto(w, AfterFill(priced))
    <2>1. AfterFill(priced).market = j.market
      <3>1. JobFields \subseteq DOMAIN priced
        BY <1>5 DEF TypedJob, JobState, JobFields
      <3> QED
        BY <1>2, <1>5, <3>1, AfterFillStillRunning DEF TypedJob, StillRunning
    <2> QED
      BY <1>2, <1>5, <1>6, <1>7, <1>9, <2>1, AfterFillLeftover, OthersKeepLeftover
  <1>10. CASE Goto(w, [priced EXCEPT !.pc = "note"])
    <2> DEFINE k == [priced EXCEPT !.pc = "note"]
    <2>1. k.pc = "note" /\ k.stage = j.stage /\ k.sold = j.sold /\ k.market = j.market
      BY <1>5 DEF TypedJob, JobState
    <2> HIDE DEF k
    <2>2. SellsLeftoverOf(k, pos'[k.market])
      BY <1>2, <1>6, <2>1 DEF SellsLeftoverOf
    <2> QED
      BY <1>2, <1>7, <1>10, <2>2, OthersKeepLeftover DEF k
  <1> QED
    BY <1>1, <1>8, <1>9, <1>10

\* A step that books nothing.
LEMMA PositionStays ==
  ASSUME LockInv, LeftoverInv, NEW w \in Workers, Active(w), NEW k, Goto(w, k),
         k.market = job[w].market, SellsLeftoverOf(k, pos[job[w].market]), UNCHANGED pos
  PROVE  LeftoverInv'
  BY OthersKeepLeftover

LEMMA JobStepLeftover ==
  ASSUME LockInv, VenuesKnown, LeftoverInv, NEW w \in Workers, JobStep(w)
  PROVE  LeftoverInv'
  <1> DEFINE j == job[w]
             p == pos[j.market]
  <1>0. TypedJob(j) /\ j \in JobState /\ JobFields \subseteq DOMAIN j /\ SellsLeftoverOf(j, p)
    BY DEF LockInv, Shape, WellTyped, TypeOK, Phases, Ready, TypedJob, LeftoverInv
  <1>a. ASSUME NEW k, Active(w), Goto(w, k), k.market = j.market, SellsLeftoverOf(k, p),
               UNCHANGED pos
        PROVE  LeftoverInv'
    BY <1>a, PositionStays
  <1>b. ASSUME j.stage # "done"
        PROVE  /\ AfterNoFill(j).market = j.market /\ AfterFill(j).market = j.market
    BY <1>0, <1>b, AfterFillStillRunning, AfterNoFillStillRunning DEF TypedJob, StillRunning
  <1>s. j.pc \in {"send", "apply", "note", "halt"} => j.stage # "done" /\ ~j.sold /\ Active(w)
    BY <1>0 DEF TypedJob, PhaseOK, SellsLeftoverOf, Active
  <1> HIDE DEF j, p
  <1>1. CASE SendGivesUp(w)
    <2>1. /\ j.pc = "send" /\ j.stage # "flatten" /\ Goto(w, [j EXCEPT !.pc = "release"])
          /\ UNCHANGED pos
      BY <1>1 DEF SendGivesUp, MaySend, AfterMiss, bookVars, j
    <2> DEFINE k == [j EXCEPT !.pc = "release"]
    <2>2. k.market = j.market /\ k.stage = j.stage /\ k.sold = j.sold
      BY <1>0 DEF JobState
    <2> HIDE DEF k
    <2> QED
      BY <1>a, <1>s, <2>1, <2>2, NotFlattening DEF k
  <1>2. CASE SendMissed(w) \/ SendLost(w)
    <2>1. j.pc = "send" /\ Goto(w, AfterNoFill(j)) /\ UNCHANGED pos
      BY <1>2 DEF SendMissed, SendLost, bookVars, j
    <2> QED
      BY <1>0, <1>a, <1>b, <1>s, <2>1, AfterNoFillLeftover
  <1>3. CASE SendFilled(w)
    <2>1. PICK f \in VenueFills(j.market, Order(j)) : \E reported \in ReportedPrices(f) :
            Goto(w, [j EXCEPT !.pc = "apply", !.fill = takeReportedFill(f, reported, Order(j))])
      BY <1>3 DEF SendFilled, j
    <2>0. PICK reported \in ReportedPrices(f) :
            Goto(w, [j EXCEPT !.pc = "apply", !.fill = takeReportedFill(f, reported, Order(j))])
      BY <2>1
    <2>2. j.pc = "send" /\ UNCHANGED pos
      BY <1>3 DEF SendFilled, bookVars, j
    <2> DEFINE fill == takeReportedFill(f, reported, Order(j))
               k == [j EXCEPT !.pc = "apply", !.fill = fill]
    <2>3. /\ k.pc = "apply" /\ k.market = j.market /\ k.stage = j.stage /\ k.sell = j.sell
          /\ k.sold = j.sold /\ k.fill = fill
      BY <1>0 DEF JobState
    <2>4. fill.side = Order(j).side /\ fill.size = Order(j).size /\ fill.buy = Order(j).buy
      BY DEF takeReportedFill, VenueFills
    <2>5. j.stage = "flatten" => Order(j) = surplusSellIntent(p) /\ j.sell = surplusSellIntent(p)
                                 /\ ~Balanced(p)
      BY <1>0, <2>2 DEF SellsLeftoverOf, Order
    <2>6. ~surplusSellIntent(p).buy
      BY DEF surplusSellIntent
    <2> HIDE DEF fill, k
    <2>7. SellsLeftoverOf(k, p)
      BY <1>s, <2>2, <2>3, <2>4, <2>5, <2>6 DEF SellsLeftoverOf
    <2> QED
      BY <1>a, <1>s, <2>0, <2>2, <2>3, <2>7 DEF k, fill
  <1>4. CASE ApplyFill(w)
    BY <1>4, ApplyFillLeftover
  <1>5. CASE NoteFill(w) \/ NoteFillTooLate(w) \/ KillSwitch(w)
    <2>1. /\ j.pc \in {"note", "halt"} /\ UNCHANGED pos
          /\ Goto(w, AfterFill(j)) \/ Goto(w, [j EXCEPT !.pc = "halt"])
      BY <1>5 DEF NoteFill, AfterNote, NoteFillTooLate, KillSwitch, bookVars, j
    <2>2. SellsLeftoverOf(AfterFill(j), p)
      BY <1>0, <1>s, <2>1, AfterFillLeftover DEF SellsLeftoverOf
    <2> DEFINE k == [j EXCEPT !.pc = "halt"]
    <2>3. k.pc = "halt" /\ k.market = j.market /\ k.stage = j.stage /\ k.sold = j.sold
      BY <1>0 DEF JobState
    <2> HIDE DEF k
    <2>4. SellsLeftoverOf(k, p)
      BY <1>0, <1>s, <2>1, <2>3 DEF SellsLeftoverOf
    <2> QED
      BY <1>a, <1>b, <1>s, <2>1, <2>2, <2>3, <2>4 DEF k
  <1>6. CASE Release(w)
    <2>1. /\ j.pc = "release" /\ UNCHANGED pos
          /\ \/ Goto(w, [j EXCEPT !.pc = "get", !.holding = FALSE])
             \/ Goto(w, [j EXCEPT !.pc = "flatten", !.stage = "flatten", !.holding = FALSE])
      BY <1>6 DEF Release, j
    <2>2. Active(w) /\ ~j.sold
      BY <1>0, <2>1 DEF SellsLeftoverOf, Active, j
    <2>3. ASSUME NEW k, Goto(w, k), k.pc \in {"get", "flatten"}, k.market = j.market, ~k.sold
          PROVE  LeftoverInv'
      BY <1>a, <2>1, <2>2, <2>3 DEF SellsLeftoverOf
    <2> DEFINE k1 == [j EXCEPT !.pc = "get", !.holding = FALSE]
               k2 == [j EXCEPT !.pc = "flatten", !.stage = "flatten", !.holding = FALSE]
    <2>4. k1.pc = "get" /\ k1.market = j.market /\ k1.sold = j.sold
      BY <1>0 DEF JobState
    <2>5. k2.pc = "flatten" /\ k2.market = j.market /\ k2.sold = j.sold
      BY <1>0 DEF JobState
    <2> QED
      BY <2>1, <2>2, <2>3, <2>4, <2>5
  <1>7. CASE Flatten(w)
    <2>1. /\ j.pc = "flatten" /\ UNCHANGED pos
          /\ \/ Balanced(p) /\ Goto(w, [j EXCEPT !.pc = "get", !.sold = TRUE])
             \/ ~Balanced(p) /\ Goto(w, [j EXCEPT !.pc = "send", !.sell = surplusSellIntent(p)])
      <3>1. /\ job[w].market \in Markets /\ pos[job[w].market] \in Position
            /\ HeldSomewhere(pos[job[w].market])
        BY <1>7 DEF Flatten, LockInv, WellTyped, TypeOK, PortfolioTypeOK, Ready, JobReady,
                    VenuesKnown
      <3>2. Balanced(p) \/ surplusSellIntent(p).venue # NoVenue
        BY <3>1, LeftoverHasVenue DEF p, j
      <3> QED
        BY <1>7, <3>2 DEF Flatten, bookVars, j, p
    <2>2. Active(w) /\ ~j.sold
      BY <1>0, <2>1 DEF SellsLeftoverOf, Active, j
    <2> DEFINE sell == surplusSellIntent(p)
               k1 == [j EXCEPT !.pc = "get", !.sold = TRUE]
               k2 == [j EXCEPT !.pc = "send", !.sell = sell]
    <2> HIDE DEF sell
    <2>3. k1.market = j.market /\ (Balanced(p) => SellsLeftoverOf(k1, p))
      BY <1>0 DEF SellsLeftoverOf, JobState
    <2>4. k2.market = j.market /\ (~Balanced(p) => SellsLeftoverOf(k2, p))
      BY <1>0, <2>2 DEF SellsLeftoverOf, JobState, sell
    <2> QED
      BY <1>a, <2>1, <2>2, <2>3, <2>4 DEF sell
  <1>8. CASE GetBalance(w) \/ GetBalanceFails(w) \/ SetBalance(w)
    <2>1. PICK balance : /\ j.pc \in {"get", "set"} /\ UNCHANGED pos
                         /\ \/ Goto(w, [j EXCEPT !.pc = "set", !.balance = balance])
                            \/ Goto(w, NextVenue(j))
      BY <1>8 DEF GetBalance, GetBalanceFails, AfterRefusal, SetBalance, bookVars, j
    <2>2. Active(w)
      BY <2>1 DEF Active, j
    <2>3. ASSUME NEW k, Goto(w, k), k.pc \in {"get", "set", "clear"}, k.market = j.market,
                 k.sold = j.sold
          PROVE  LeftoverInv'
      BY <1>0, <1>a, <2>1, <2>2, <2>3 DEF SellsLeftoverOf
    <2>4. /\ NextVenue(j).pc \in {"get", "clear"} /\ NextVenue(j).market = j.market
          /\ NextVenue(j).sold = j.sold
      BY <1>0 DEF NextVenue, JobState
    <2> DEFINE k == [j EXCEPT !.pc = "set", !.balance = balance]
    <2>5. k.pc = "set" /\ k.market = j.market /\ k.sold = j.sold
      BY <1>0 DEF JobState
    <2> QED
      BY <2>1, <2>3, <2>4, <2>5
  <1>9. CASE ClearBusy(w) \/ WorkingEnd(w)
    <2>1. PICK k \in {IdleJob, [IdleJob EXCEPT !.pc = "end"]} : Goto(w, k) /\ UNCHANGED pos
      BY <1>9 DEF ClearBusy, WorkingEnd, bookVars
    <2>2. k.stage = "done" /\ ~k.sold
      BY <2>1 DEF IdleJob, NewJob
    <2>3. job'[w] = k /\ \A u \in Workers \ {w} : job'[u] = job[u]
      BY <2>1 DEF Goto, LockInv, Shape
    <2> QED
      BY <2>1, <2>2, <2>3, NotFlattening DEF LeftoverInv
  <1> QED
    BY <1>1, <1>2, <1>3, <1>4, <1>5, <1>6, <1>7, <1>8, <1>9 DEF JobStep

\* A worker that starts has read no position yet.
LEMMA SpawnLeftover ==
  ASSUME LockInv, LeftoverInv, NEW w \in Workers, NEW k, Spawn(w, k), UNCHANGED pos,
         k.pc = "flatten" \/ k.stage = "first", ~k.sold
  PROVE  LeftoverInv'
  <1>1. job'[w] = k /\ \A u \in Workers \ {w} : job'[u] = job[u]
    BY DEF Spawn, LockInv, Shape
  <1>2. SellsLeftoverOf(k, pos[k.market])
    BY DEF SellsLeftoverOf
  <1> QED
    BY <1>1, <1>2 DEF LeftoverInv

LEMMA LeftoverInvInit == Init => LeftoverInv
  BY NotFlattening DEF Init, LeftoverInv, IdleJob, NewJob

LEMMA LeftoverInvNext == LockInv /\ VenuesKnown /\ LeftoverInv /\ [Next]_vars => LeftoverInv'
  <1> SUFFICES ASSUME LockInv, VenuesKnown, LeftoverInv, [Next]_vars PROVE LeftoverInv'
    OBVIOUS
  <1>1. CASE UNCHANGED <<job, pos>>
    BY <1>1 DEF LeftoverInv
  <1>2. ASSUME NEW t \in Feeds, Dispatch(t) PROVE LeftoverInv'
    <2>1. CASE TryBusyInFlight(t) \/ TryBusyPair(t) \/ ReserveFails(t)
      BY <1>1, <2>1 DEF TryBusyInFlight, TryBusyPair, ReserveFails, bookVars
    <2>2. ASSUME NEW w \in Workers, TryBusyFlatten(t, w) PROVE LeftoverInv'
      BY <2>2, SpawnLeftover DEF TryBusyFlatten, FlattenJob, NewJob, bookVars
    <2>3. ASSUME NEW w \in Workers, Reserve(t, w) PROVE LeftoverInv'
      BY <2>3, SpawnLeftover DEF Reserve, PairJob, NewJob
    <2> QED
      BY <1>2, <2>1, <2>2, <2>3 DEF Dispatch
  <1>3. ASSUME NEW t \in Feeds, Tick(t) PROVE UNCHANGED <<job, pos>>
    BY <1>3 DEF Tick, FlattenTick, PairTick, Attempt, bookVars
  <1> QED
    BY <1>1, <1>2, <1>3, JobStepLeftover DEF Next, QuietTick, Stop, Expire, vars, bookVars

(* The order that sells a leftover is for the leftover there is: nothing is
   booked on the market between the reading of the position and the sale
   (main.cpp:144-179). *)
THEOREM FlattenSellsSurplusHolds == Spec => []FlattenSellsSurplus
  <1>1. LeftoverInv => FlattenSellsSurplus
    BY DEF LeftoverInv, SellsLeftoverOf, FlattenSellsSurplus
  <1> QED
    BY <1>1, LockInvInit, LockInvNext, VenuesKnownInit, VenuesKnownNext, LeftoverInvInit,
       LeftoverInvNext, PTL DEF Spec

(* A job that was told its leftover is sold leaves a balanced market: no other
   job books on it before the flag is cleared (main.cpp:144-179, 187, 308). *)
THEOREM FlattenBalancesHolds == Spec => []FlattenBalances
  <1>1. LeftoverInv => FlattenBalances
    BY DEF LeftoverInv, SellsLeftoverOf, FlattenBalances
  <1> QED
    BY <1>1, LockInvInit, LockInvNext, VenuesKnownInit, VenuesKnownNext, LeftoverInvInit,
       LeftoverInvNext, PTL DEF Spec

-----------------------------------------------------------------------------
(* The kill switch *)

\* A fill that is noted costs a fee of zero or more, so the loss never falls.
LEMMA NotedLossGrows ==
  ASSUME WellTyped, NEW w \in Workers
  PROVE  loss + fillFee(job[w].fill) >= loss
  <1>1. job[w].fill \in Leg /\ loss \in Int
    BY DEF WellTyped, TypeOK, JobState
  <1>2. fillFee(job[w].fill) \in Nat
    BY <1>1, FillFeeType
  <1> HIDE DEF fillFee
  <1> QED
    BY <1>1, <1>2

LEMMA JobStepHalts ==
  ASSUME LockInv, KillSwitchHalts, NEW w \in Workers, JobStep(w)
  PROVE  KillSwitchHalts'
  <1>0. DOMAIN job = Workers /\ {"pc"} \subseteq DOMAIN job[w] /\ loss \in Int
        /\ Limits.max_drawdown \in Int
    BY LimitsAssumption DEF LockInv, Shape, JobFields, WellTyped, TypeOK, RiskLimits
  <1>1. CASE NoteFill(w)
    <2> DEFINE total == loss + fillFee(job[w].fill)
               trips == total >= Limits.max_drawdown /\ ~killed
    <2>1. /\ job[w].pc = "note" /\ loss' = total /\ killed' = (killed \/ trips)
          /\ Goto(w, AfterNote(job[w], trips)) /\ UNCHANGED stopped
      BY <1>1 DEF NoteFill
    <2>2. total >= loss /\ total \in Int
      <3>1. job[w].fill \in Leg
        BY DEF LockInv, WellTyped, TypeOK, JobState
      <3>2. fillFee(job[w].fill) \in Int
        BY <3>1, FillFeeType
      <3> QED
        BY <1>0, <3>2, NotedLossGrows DEF LockInv
    <2> HIDE DEF total
    <2>3. \A u \in Workers \ {w} : job'[u] = job[u]
      BY <1>0, <2>1 DEF Goto
    <2>4. trips => job'[w].pc = "halt"
      BY <1>0, <2>1 DEF AfterNote, Goto
    <2>5. CASE killed
      BY <1>0, <2>1, <2>2, <2>3, <2>5 DEF KillSwitchHalts
    <2>6. CASE ~killed
      BY <1>0, <2>1, <2>4, <2>6 DEF KillSwitchHalts
    <2> QED
      BY <2>5, <2>6
  <1>2. CASE KillSwitch(w)
    BY <1>2 DEF KillSwitch, KillSwitchHalts
  <1>3. CASE ~NoteFill(w) /\ ~KillSwitch(w)
    <2>1. job[w].pc # "halt" /\ UNCHANGED gateVars
      BY <1>3 DEF JobStep, SendGivesUp, SendMissed, SendFilled, SendLost, ApplyFill,
                  NoteFillTooLate, Release, Flatten, GetBalance, GetBalanceFails,
                  SetBalance, ClearBusy, WorkingEnd
    <2>2. PICK k : job' = [job EXCEPT ![w] = k]
      BY <1>3 DEF JobStep, SendGivesUp, SendMissed, SendFilled, SendLost, ApplyFill,
                  NoteFillTooLate, Release, Flatten, GetBalance, GetBalanceFails,
                  SetBalance, ClearBusy, WorkingEnd, Goto
    <2>3. \A u \in Workers \ {w} : job'[u] = job[u]
      BY <1>0, <2>2
    <2> QED
      BY <2>1, <2>3 DEF KillSwitchHalts, gateVars
  <1> QED
    BY <1>1, <1>2, <1>3

LEMMA SpawnHalts ==
  ASSUME LockInv, KillSwitchHalts, NEW w \in Workers, NEW k, Spawn(w, k), UNCHANGED gateVars
  PROVE  KillSwitchHalts'
  <1>1. job[w].pc = "idle" /\ \A u \in Workers \ {w} : job'[u] = job[u]
    BY DEF Spawn, LockInv, Shape
  <1> QED
    BY <1>1 DEF KillSwitchHalts, gateVars

LEMMA HaltsNext ==
  ASSUME LockInv, KillSwitchHalts, [Next]_vars
  PROVE  KillSwitchHalts'
  <1>1. CASE UNCHANGED <<killed, loss, stopped, job>>
    BY <1>1 DEF KillSwitchHalts
  <1>2. ASSUME NEW t \in Feeds, Dispatch(t) PROVE KillSwitchHalts'
    <2>1. CASE TryBusyInFlight(t) \/ TryBusyPair(t) \/ ReserveFails(t)
      BY <1>1, <2>1 DEF TryBusyInFlight, TryBusyPair, ReserveFails, gateVars
    <2>2. ASSUME NEW w \in Workers, TryBusyFlatten(t, w) \/ Reserve(t, w)
          PROVE  KillSwitchHalts'
      BY <2>2, SpawnHalts DEF TryBusyFlatten, Reserve
    <2> QED
      BY <1>2, <2>1, <2>2 DEF Dispatch
  <1>3. ASSUME NEW t \in Feeds, Tick(t) PROVE UNCHANGED <<killed, loss, stopped, job>>
    BY <1>3 DEF Tick, FlattenTick, PairTick, Attempt, gateVars
  <1>4. CASE Stop
    BY <1>4 DEF Stop, KillSwitchHalts
  <1> QED
    BY <1>1, <1>2, <1>3, <1>4, JobStepHalts DEF Next, QuietTick, Expire, vars, gateVars

(* However fills and feeds interleave, the gate is never left tripped with the
   monitor running and nobody about to halt it, and it trips only once the fees
   have reached max_drawdown (risk.hpp:77-90, main.cpp:64-76). *)
THEOREM KillSwitchHaltsHolds == Spec => []KillSwitchHalts
  <1>1. Init => KillSwitchHalts
    BY DEF Init, KillSwitchHalts
  <1>2. LockInv /\ KillSwitchHalts /\ [Next]_vars => KillSwitchHalts'
    BY HaltsNext
  <1> QED
    BY <1>1, <1>2, LockInvInit, LockInvNext, PTL DEF Spec

-----------------------------------------------------------------------------
(* Positions: what the book holds, what the venues hold, and the one fill
   between the two. *)

(* Contracts on their way.  At most one worker is active on a market, so at
   most one fill is on its way there. *)

\* The worker, in a table of jobs, that is booking a fill of this side.
Books(jobs, w, m, s) ==
  jobs[w].pc = "apply" /\ jobs[w].market = m /\ jobs[w].fill.side = s

\* onTheWay, for any table of jobs.
ComingIn(jobs, m, s) ==
  SumFunction([w \in {v \in Workers : Books(jobs, v, m, s)} |-> ownedDelta(jobs[w].fill)])

LEMMA NothingComesIn ==
  ASSUME NEW jobs, NEW m, NEW s, \A w \in Workers : ~Books(jobs, w, m, s)
  PROVE  ComingIn(jobs, m, s) = 0
  <1> DEFINE f == [w \in {v \in Workers : Books(jobs, v, m, s)} |-> ownedDelta(jobs[w].fill)]
  <1>1. DOMAIN f = {}
    OBVIOUS
  <1>2. ComingIn(jobs, m, s) = SumFunctionOnSet(f, DOMAIN f)
    BY DEF ComingIn, SumFunction
  <1> HIDE DEF f
  <1> QED
    BY <1>1, <1>2, SumOverNone

LEMMA OneComesIn ==
  ASSUME NEW jobs, NEW m, NEW s, NEW w \in Workers, Books(jobs, w, m, s),
         \A u \in Workers : Books(jobs, u, m, s) => u = w, ownedDelta(jobs[w].fill) \in Int
  PROVE  ComingIn(jobs, m, s) = ownedDelta(jobs[w].fill)
  <1> DEFINE f == [v \in {u \in Workers : Books(jobs, u, m, s)} |-> ownedDelta(jobs[v].fill)]
  <1>1. DOMAIN f = {w} /\ f[w] = ownedDelta(jobs[w].fill)
    OBVIOUS
  <1>2. ComingIn(jobs, m, s) = SumFunctionOnSet(f, DOMAIN f)
    BY DEF ComingIn, SumFunction
  <1> HIDE DEF f
  <1> QED
    BY <1>1, <1>2, SumOverOne

LEMMA SameComesIn ==
  ASSUME NEW jobs, NEW later, NEW m, NEW s,
         \A w \in Workers : Books(jobs, w, m, s) \/ Books(later, w, m, s) => later[w] = jobs[w]
  PROVE  ComingIn(later, m, s) = ComingIn(jobs, m, s)
  <1> DEFINE f(table) == [w \in {v \in Workers : Books(table, v, m, s)}
                            |-> ownedDelta(table[w].fill)]
  <1>1. {v \in Workers : Books(later, v, m, s)} = {v \in Workers : Books(jobs, v, m, s)}
    BY DEF Books
  <1>2. f(later) = f(jobs)
    BY <1>1
  <1> QED
    BY <1>2 DEF ComingIn

LEMMA OnTheWayComesIn ==
  /\ \A m, s : onTheWay(m, s) = ComingIn(job, m, s)
  /\ \A m, s : onTheWay(m, s)' = ComingIn(job', m, s)
  BY DEF onTheWay, Arriving, ComingIn, Books

\* A worker that runs is the only one that can be booking on its market.
LEMMA OnlyOneBooks ==
  ASSUME LockInv, NEW w \in Workers, Active(w)
  PROVE  \A u \in Workers, s \in Sides : Books(job, u, job[w].market, s) => u = w
  BY DEF LockInv, OneOwner, OneJobPerMarket, Active, Books

LEMMA OverVenuesType ==
  ASSUME NEW mine \in [Venues -> Int]
  PROVE  OverVenues(mine) \in Int
  BY DEF OverVenues, Venues, Kalshi, Polymarket, Gemini

LEMMA OverVenuesAdds ==
  ASSUME NEW mine \in [Venues -> Int], NEW v \in Venues, NEW n \in Int
  PROVE  OverVenues([mine EXCEPT ![v] = mine[v] + n]) = OverVenues(mine) + n
  BY DEF OverVenues, Venues, Kalshi, Polymarket, Gemini

-----------------------------------------------------------------------------
(* The book holds what the venues hold *)

(* A fill booked for a pair is a buy; the sales are of leftovers, and
   LeftoverInv says how much they sell. *)
PairsBuy ==
  \A w \in Workers : job[w].pc = "apply" /\ job[w].stage # "flatten" => job[w].fill.buy

\* The contracts of a side that the venues hold and the book was not told of.
lag(m, s) == OverVenues(owned[m][s]) - (pos[m].count[s] + onTheWay(m, s))

(* What every step of the live path preserves: a fill goes from on its way to
   booked, and only an executed order adds to what the venues hold. *)
LagStays == \A m \in Markets, s \in Sides : lag(m, s)' = lag(m, s)

LEMMA FillOnItsWay ==
  ASSUME LockInv, PairsBuy, NEW w \in Workers, SendFilled(w)
  PROVE  LagStays /\ PairsBuy'
  <1> DEFINE j == job[w]
             order == Order(j)
  <1>0. TypedJob(j) /\ j \in JobState /\ DOMAIN job = Workers
    BY DEF LockInv, Shape, WellTyped, TypeOK, Phases, Ready, TypedJob
  <1>1. /\ j.pc = "send" /\ j.market \in Markets /\ j.stage # "done" /\ Active(w)
        /\ UNCHANGED pos
    BY <1>0 DEF SendFilled, TypedJob, JobReady, PhaseOK, Active, bookVars
  <1>2. PICK f \in VenueFills(j.market, order) :
          /\ VenueExecutes(j.market, f)
          /\ \E reported \in ReportedPrices(f) :
               Goto(w, [j EXCEPT !.pc = "apply", !.fill = takeReportedFill(f, reported, order)])
    BY DEF SendFilled
  <1>3. PICK reported \in ReportedPrices(f) :
          Goto(w, [j EXCEPT !.pc = "apply", !.fill = takeReportedFill(f, reported, order)])
    BY <1>2
  <1> DEFINE fill == takeReportedFill(f, reported, order)
             n == ownedDelta(f)
  <1>4. order \in Leg /\ f \in Leg /\ f.buy = order.buy
    BY <1>0, <1>1, OrderType, VenueFillsType
  <1>5. f.venue \in Venues /\ f.side \in Sides /\ n \in Int
    <2>1. f.venue \in Configured /\ f.size \in Nat /\ f.side \in Sides
      BY <1>4 DEF VenueFills, Leg
    <2> QED
      BY <2>1, ConfiguredAssumption DEF ownedDelta
  <1>6. fill.side = f.side /\ fill.buy = f.buy /\ ownedDelta(fill) = n
    BY <1>4 DEF takeReportedFill, Leg, ownedDelta
  <1>7. j.stage # "flatten" => f.buy
    BY <1>0, <1>1, <1>4, TurnType DEF Order, TypedJob, JobReady, PairOfBuys, PhaseOK
  <1> HIDE DEF fill, n, order
  <1>8. /\ job'[w].pc = "apply" /\ job'[w].market = j.market /\ job'[w].fill = fill
        /\ job'[w].stage = j.stage /\ \A u \in Workers \ {w} : job'[u] = job[u]
    BY <1>0, <1>3 DEF Goto, JobState, fill
  <1>9. PairsBuy'
    BY <1>6, <1>7, <1>8 DEF PairsBuy
  <1>10. ASSUME NEW m \in Markets, NEW s \in Sides
         PROVE  lag(m, s)' = lag(m, s)
    <2>1. /\ lag(m, s) = OverVenues(owned[m][s]) - (pos[m].count[s] + ComingIn(job, m, s))
          /\ lag(m, s)' = OverVenues(owned'[m][s]) - (pos'[m].count[s] + ComingIn(job', m, s))
          /\ OverVenues(owned[m][s]) \in Int
      BY OnTheWayComesIn, OverVenuesType DEF lag, LockInv, WellTyped, TypeOK
    <2>2. /\ owned \in [Markets -> [Sides -> [Venues -> Int]]]
          /\ owned' = [owned EXCEPT ![j.market][f.side][f.venue] = @ + n]
          /\ pos[m].count[s] \in Int
      BY <1>2 DEF VenueExecutes, LockInv, WellTyped, TypeOK, PortfolioTypeOK, Position, n
    <2>3. CASE m = j.market /\ s = f.side
      <3>1. ComingIn(job, m, s) = 0
        BY <1>1, <2>3, NothingComesIn, OnlyOneBooks DEF Books
      <3>2. ComingIn(job', m, s) = n
        <4>1. Books(job', w, m, s)
          BY <1>6, <1>8, <2>3 DEF Books
        <4>2. \A u \in Workers : Books(job', u, m, s) => u = w
          BY <1>1, <1>8, <2>3, OnlyOneBooks DEF Books
        <4> QED
          BY <1>5, <1>6, <1>8, <4>1, <4>2, OneComesIn
      <3> DEFINE mine == owned[m][s]
      <3>3. owned'[m][s] = [mine EXCEPT ![f.venue] = mine[f.venue] + n]
        BY <2>2, <2>3
      <3>4. mine \in [Venues -> Int]
        BY <2>2
      <3>h. mine = owned[m][s]
        OBVIOUS
      <3> HIDE DEF mine
      <3>5. OverVenues(owned'[m][s]) = OverVenues(owned[m][s]) + n
        BY <1>5, <3>3, <3>4, <3>h, OverVenuesAdds
      <3> QED
        BY <1>1, <1>5, <2>1, <2>2, <3>1, <3>2, <3>5
    <2>4. CASE ~(m = j.market /\ s = f.side)
      <3>1. ComingIn(job', m, s) = ComingIn(job, m, s)
        BY <1>1, <1>6, <1>8, <2>4, SameComesIn DEF Books
      <3>2. owned'[m][s] = owned[m][s]
        BY <1>5, <2>2, <2>4
      <3> QED
        BY <1>1, <2>1, <3>1, <3>2
    <2> QED
      BY <2>3, <2>4
  <1> QED
    BY <1>9, <1>10 DEF LagStays

\* Booking a fill that the book can take whole changes it as the venue's
\* holding changed.
LEMMA BookedWhole ==
  ASSUME WellTyped, NEW market \in Markets, NEW f \in Leg, updatePortfolio(market, f),
         f.buy \/ f.size <= pos[market].count[f.side]
  PROVE  /\ pos'[market].count[f.side] = pos[market].count[f.side] + ownedDelta(f)
         /\ \A s \in Sides \ {f.side} : pos'[market].count[s] = pos[market].count[s]
         /\ \A m \in Markets \ {market} : pos'[m] = pos[m]
  <1> DEFINE p == pos[market]
  <1>0. /\ p \in Position /\ DOMAIN pos = Markets /\ f.side \in Sides /\ f.size \in Nat
        /\ p.count \in [Sides -> Nat] /\ p.count[f.side] \in Nat
    BY DEF WellTyped, TypeOK, PortfolioTypeOK, Leg, Position
  <1>1. CASE ~fillApplies(market, f)
    <2>1. f.size <= 0
      BY <1>0, <1>1 DEF fillApplies, soldSize
    <2>2. pos' = pos
      BY <1>1 DEF updatePortfolio
    <2>3. ownedDelta(f) \in Int /\ ownedDelta(f) <= 0 /\ ownedDelta(f) >= 0
      BY <1>0, <2>1 DEF ownedDelta
    <2> QED
      BY <1>0, <2>2, <2>3
  <1>2. CASE fillApplies(market, f) /\ f.buy
    <2> DEFINE q == blendLot(p, f.side, f.venue, f.size, f.price)
    <2>1. pos' = [pos EXCEPT ![market] = q]
      BY <1>2 DEF updatePortfolio, applyBuy
    <2>2. /\ q.count[f.side] = p.count[f.side] + f.size
          /\ \A s \in Sides \ {f.side} : q.count[s] = p.count[s]
      BY <1>0 DEF blendLot, Position
    <2> HIDE DEF q
    <2> QED
      BY <1>0, <1>2, <2>1, <2>2 DEF ownedDelta
  <1>3. CASE fillApplies(market, f) /\ ~f.buy
    <2> DEFINE n == soldSize(p, f)
               q == sellLot(p, f.side, n)
    <2>1. pos' = [pos EXCEPT ![market] = q] /\ n = f.size
      BY <1>0, <1>3 DEF updatePortfolio, applySell, soldSize
    <2> HIDE DEF n
    <2>2. /\ q.count[f.side] = p.count[f.side] - n
          /\ \A s \in Sides \ {f.side} : q.count[s] = p.count[s]
      BY <1>0 DEF sellLot, Position
    <2> HIDE DEF q
    <2> QED
      BY <1>0, <1>3, <2>1, <2>2 DEF ownedDelta
  <1> QED
    BY <1>1, <1>2, <1>3

LEMMA FillIsBooked ==
  ASSUME LockInv, LeftoverInv, PairsBuy, NEW w \in Workers, ApplyFill(w)
  PROVE  LagStays /\ PairsBuy'
  <1> DEFINE j == job[w]
             f == j.fill
  <1>0. TypedJob(j) /\ j \in JobState /\ DOMAIN job = Workers
    BY DEF LockInv, Shape, WellTyped, TypeOK, Phases, Ready, TypedJob
  <1>1. /\ j.pc = "apply" /\ j.market \in Markets /\ Active(w) /\ f \in Leg
        /\ updatePortfolio(j.market, f) /\ UNCHANGED owned
    BY <1>0 DEF ApplyFill, TypedJob, JobState, JobReady, Active, venueVars
  <1>2. f.buy \/ f.size <= pos[j.market].count[f.side]
    <2>1. CASE j.stage = "flatten"
      <3>1. pos[j.market] \in Position
        BY <1>1 DEF LockInv, WellTyped, TypeOK, PortfolioTypeOK
      <3>2. /\ ~Balanced(pos[j.market])
            /\ f.side = surplusSellIntent(pos[j.market]).side
            /\ f.size = surplusSellIntent(pos[j.market]).size
        BY <1>1, <2>1 DEF LeftoverInv, SellsLeftoverOf
      <3> QED
        BY <3>1, <3>2 DEF surplusSellIntent, surplusSide, surplus, Position, Sides
    <2>2. CASE j.stage # "flatten"
      BY <1>1, <2>2 DEF PairsBuy
    <2> QED
      BY <2>1, <2>2
  <1>3. job'[w].pc # "apply" /\ \A u \in Workers \ {w} : job'[u] = job[u]
    <2>1. JobStep(w) /\ ~SendFilled(w)
      BY <1>1 DEF JobStep, SendFilled
    <2> QED
      BY <2>1, ElsewhereThanApply
  <1>4. /\ pos'[j.market].count[f.side] = pos[j.market].count[f.side] + ownedDelta(f)
        /\ \A s \in Sides \ {f.side} : pos'[j.market].count[s] = pos[j.market].count[s]
        /\ \A m \in Markets \ {j.market} : pos'[m] = pos[m]
    BY <1>1, <1>2, BookedWhole DEF LockInv
  <1>5. ownedDelta(f) \in Int /\ f.side \in Sides
    BY <1>1 DEF ownedDelta, Leg
  <1>6. ASSUME NEW m \in Markets, NEW s \in Sides
        PROVE  lag(m, s)' = lag(m, s)
    <2>1. /\ lag(m, s) = OverVenues(owned[m][s]) - (pos[m].count[s] + ComingIn(job, m, s))
          /\ lag(m, s)' = OverVenues(owned'[m][s]) - (pos'[m].count[s] + ComingIn(job', m, s))
          /\ OverVenues(owned[m][s]) \in Int /\ pos[m].count[s] \in Int
      BY OnTheWayComesIn, OverVenuesType DEF lag, LockInv, WellTyped, TypeOK,
                                             PortfolioTypeOK, Position
    <2>2. CASE m = j.market /\ s = f.side
      <3>1. ComingIn(job, m, s) = ownedDelta(f)
        BY <1>1, <1>5, <2>2, OnlyOneBooks, OneComesIn DEF Books
      <3>2. ComingIn(job', m, s) = 0
        BY <1>1, <1>3, <2>2, OnlyOneBooks, NothingComesIn DEF Books
      <3> QED
        BY <1>1, <1>4, <1>5, <2>1, <2>2, <3>1, <3>2
    <2>3. CASE ~(m = j.market /\ s = f.side)
      <3>1. ComingIn(job', m, s) = ComingIn(job, m, s)
        BY <1>1, <1>3, <2>3, SameComesIn DEF Books
      <3>2. pos'[m].count[s] = pos[m].count[s]
        BY <1>4, <2>3
      <3> QED
        BY <1>1, <2>1, <3>1, <3>2
    <2> QED
      BY <2>2, <2>3
  <1>7. PairsBuy'
    BY <1>3 DEF PairsBuy
  <1> QED
    BY <1>6, <1>7 DEF LagStays

\* A step that books nothing and executes nothing.
LEMMA NothingBooked ==
  ASSUME PairsBuy, UNCHANGED <<pos, owned>>,
         \A w \in Workers : job[w].pc = "apply" \/ job'[w].pc = "apply" => job'[w] = job[w]
  PROVE  LagStays /\ PairsBuy'
  <1>1. ASSUME NEW m \in Markets, NEW s \in Sides
        PROVE  ComingIn(job', m, s) = ComingIn(job, m, s)
    BY SameComesIn DEF Books
  <1>2. PairsBuy'
    BY DEF PairsBuy
  <1> QED
    BY <1>1, <1>2, OnTheWayComesIn DEF LagStays, lag

LEMMA NextLag ==
  ASSUME LockInv, LeftoverInv, PairsBuy, [Next]_vars
  PROVE  PairsBuy' /\ (~LostReplies => LagStays)
  <1>0. DOMAIN job = Workers
    BY DEF LockInv, Shape
  <1>1. ASSUME NEW w \in Workers, JobStep(w)
        PROVE  PairsBuy' /\ (~LostReplies => LagStays)
    <2>1. CASE ~SendFilled(w) /\ ~ApplyFill(w)
      <3>1. UNCHANGED pos /\ job[w].pc # "apply" /\ (~LostReplies => UNCHANGED owned)
        BY <1>1, <2>1 DEF JobStep, SendGivesUp, SendMissed, SendLost, NoteFill,
             NoteFillTooLate, KillSwitch, Release, Flatten, GetBalance, GetBalanceFails,
             SetBalance, ClearBusy, WorkingEnd, bookVars, venueVars
      <3>2. job'[w].pc # "apply" /\ \A u \in Workers \ {w} : job'[u] = job[u]
        BY <1>1, <2>1, ElsewhereThanApply
      <3>3. PairsBuy'
        BY <3>2 DEF PairsBuy
      <3> QED
        BY <3>1, <3>2, <3>3, NothingBooked
    <2> QED
      BY <2>1, FillOnItsWay, FillIsBooked
  <1>2. ASSUME NEW w \in Workers, NEW k, Spawn(w, k), k.pc # "apply",
               UNCHANGED <<pos, owned>>
        PROVE  LagStays /\ PairsBuy'
    BY <1>0, <1>2, NothingBooked DEF Spawn
  <1>3. ASSUME UNCHANGED <<job, pos, owned>>
        PROVE  LagStays /\ PairsBuy'
    BY <1>3, NothingBooked
  <1>4. ASSUME NEW t \in Feeds, Dispatch(t)
        PROVE  LagStays /\ PairsBuy'
    <2>1. CASE TryBusyInFlight(t) \/ TryBusyPair(t) \/ ReserveFails(t)
      BY <1>3, <2>1 DEF TryBusyInFlight, TryBusyPair, ReserveFails, bookVars, venueVars
    <2>2. ASSUME NEW w \in Workers, TryBusyFlatten(t, w) \/ Reserve(t, w)
          PROVE  LagStays /\ PairsBuy'
      BY <1>2, <2>2, NewJobs DEF TryBusyFlatten, Reserve, bookVars, venueVars
    <2> QED
      BY <1>4, <2>1, <2>2 DEF Dispatch
  <1>5. ASSUME NEW t \in Feeds, Tick(t) PROVE UNCHANGED <<job, pos, owned>>
    BY <1>5 DEF Tick, FlattenTick, PairTick, Attempt, bookVars, venueVars
  <1> QED
    BY <1>1, <1>3, <1>4, <1>5 DEF Next, QuietTick, Stop, Expire, vars, bookVars, venueVars

\* At most one fill is on its way to a market, and it is a number of contracts.
LEMMA OnTheWayType ==
  ASSUME LockInv, NEW m \in Markets, NEW s \in Sides
  PROVE  onTheWay(m, s) \in Int
  <1>1. CASE \A w \in Workers : ~Books(job, w, m, s)
    BY <1>1, NothingComesIn, OnTheWayComesIn
  <1>2. CASE \E w \in Workers : Books(job, w, m, s)
    <2>1. PICK w \in Workers : Books(job, w, m, s)
      BY <1>2
    <2>2. Active(w) /\ job[w].market = m /\ job[w].fill \in Leg
      BY <2>1 DEF Books, Active, LockInv, WellTyped, TypeOK, JobState
    <2>3. \A u \in Workers : Books(job, u, m, s) => u = w
      BY <2>2, OnlyOneBooks
    <2>4. ownedDelta(job[w].fill) \in Int
      BY <2>2 DEF ownedDelta, Leg
    <2> QED
      BY <2>1, <2>3, <2>4, OneComesIn, OnTheWayComesIn
  <1> QED
    BY <1>1, <1>2

\* A program that has just started or has not: nobody does anything.
Resting ==
  /\ feed = [t \in Feeds |-> IdleFeed]
  /\ job = [w \in Workers |-> IdleJob]
  /\ busy = {}

LEMMA RestingLag ==
  Resting => /\ PairsBuy
             /\ \A m \in Markets, s \in Sides : onTheWay(m, s) = 0
  <1> SUFFICES ASSUME Resting PROVE PairsBuy /\ \A m \in Markets, s \in Sides : onTheWay(m, s) = 0
    OBVIOUS
  <1>1. \A w \in Workers : job[w].pc = "idle"
    BY NewJobs DEF Resting
  <1>2. \A m \in Markets, s \in Sides : ComingIn(job, m, s) = 0
    BY <1>1, NothingComesIn DEF Books
  <1> QED
    BY <1>1, <1>2, OnTheWayComesIn DEF PairsBuy

(* As long as replies arrive, the book holds exactly the contracts the venues
   hold for us, on each side of each market, up to the one fill that is being
   booked (sendSide and flattenSurplus book every executed order they hear of,
   main.cpp:91-135, and nobody else books on their market). *)
THEOREM PositionMatchesVenueHolds ==
  ASSUME ~LostReplies
  PROVE  Spec => []PositionMatchesVenue
  <1> DEFINE NoLag == \A m \in Markets, s \in Sides : lag(m, s) = 0
  <1>1. Init => NoLag /\ PairsBuy
    <2> SUFFICES ASSUME Init PROVE NoLag /\ PairsBuy
      OBVIOUS
    <2>1. PairsBuy /\ \A m \in Markets, s \in Sides : onTheWay(m, s) = 0
      BY RestingLag DEF Init, Resting
    <2>2. \A m \in Markets, s \in Sides :
            pos[m].count[s] = 0 /\ \A v \in Venues : owned[m][s][v] = 0
      BY DEF Init, EmptyPosition
    <2>3. \A m \in Markets, s \in Sides : OverVenues(owned[m][s]) = 0
      BY <2>2 DEF OverVenues, Venues
    <2> QED
      BY <2>1, <2>2, <2>3 DEF lag
  <1>2. LockInv /\ LeftoverInv /\ NoLag /\ PairsBuy /\ [Next]_vars => (NoLag /\ PairsBuy)'
    BY NextLag DEF LagStays
  <1>3. LockInv /\ NoLag => PositionMatchesVenue
    <2> SUFFICES ASSUME LockInv, NoLag, NEW m \in Markets, NEW s \in Sides
                 PROVE  pos[m].count[s] + onTheWay(m, s) = OverVenues(owned[m][s])
      BY DEF PositionMatchesVenue
    <2>1. pos[m].count[s] \in Int /\ onTheWay(m, s) \in Int /\ OverVenues(owned[m][s]) \in Int
      BY OnTheWayType, OverVenuesType DEF LockInv, WellTyped, TypeOK, PortfolioTypeOK, Position
    <2> QED
      BY <2>1 DEF lag
  <1> QED
    BY <1>1, <1>2, <1>3, LockInvInit, LockInvNext, VenuesKnownInit, VenuesKnownNext,
       LeftoverInvInit, LeftoverInvNext, PTL DEF Spec


-----------------------------------------------------------------------------
(* Crashes and restarts.  Until a process trades it rests: its threads have not
   started, and what the live path keeps true of running jobs is true of none. *)

\* A process before its first tick, whatever it has loaded.
Loading ==
  /\ Resting
  /\ PortfolioTypeOK
  /\ killed \in BOOLEAN /\ stopped \in BOOLEAN /\ loss \in Int
  /\ working \in Nat /\ ticks \in Nat /\ expired \subseteq Markets
  /\ funds \in [Venues -> Int]
  /\ owned \in [Markets -> [Sides -> [Venues -> Int]]]

LiveInv == LockInv /\ LeftoverInv /\ PairsBuy

LEMMA LoadingLives == Loading => LiveInv
  <1> SUFFICES ASSUME Loading PROVE LiveInv
    OBVIOUS
  <1>1. /\ IdleJob \in JobState /\ PhaseOK(IdleJob) /\ JobReady(IdleJob)
        /\ JobFields \subseteq DOMAIN IdleJob /\ IdleJob.pc = "idle"
    BY NewJobs, NewJobsTyped DEF TypedJob
  <1>2. feed \in [Feeds -> FeedState] /\ job \in [Workers -> JobState]
    BY <1>1, IdleFeedTyped DEF Loading, Resting
  <1>3. TypeOK
    BY <1>2 DEF Loading, Resting, TypeOK
  <1>4. Phases /\ Ready
    BY <1>1, IdleFeedTyped DEF Loading, Resting, Phases, Ready
  <1>5. Shape /\ OneOwner
    BY <1>1 DEF Loading, Resting, Shape, OneOwner, OneJobPerMarket, Active, IdleFeed
  <1>6. LeftoverInv
    BY NotFlattening DEF Loading, Resting, LeftoverInv, IdleJob, NewJob
  <1> QED
    BY <1>3, <1>4, <1>5, <1>6, RestingLag DEF Loading, LiveInv, LockInv, WellTyped

LEMMA LoadingLivesNext == Loading' => LiveInv'
  BY LoadingLives, PTL

LEMMA NextLives ==
  ASSUME LiveInv, VenuesKnown, [Next]_vars
  PROVE  LiveInv' /\ VenuesKnown' /\ (~LostReplies => LagStays)
  BY LockInvNext, VenuesKnownNext, LeftoverInvNext, NextLag DEF LiveInv

-----------------------------------------------------------------------------
(* Loading the positions *)

\* Only Kalshi sells what we do not own there: it buys the other outcome.
OwnedNat ==
  \A m \in Markets, s \in Sides, v \in Venues \ {Kalshi} : owned[m][s][v] >= 0

LEMMA LotsType ==
  ASSUME owned \in [Markets -> [Sides -> [Venues -> Int]]], OwnedNat,
         NEW m \in Markets, NEW v \in Venues
  PROVE  /\ lots(m, v) \in [Sides -> Nat]
         /\ lots(m, v)[YesSided] - lots(m, v)[NoSided] = netAt(m, v)
  <1> DEFINE y == owned[m][YesSided][v]
             n == owned[m][NoSided][v]
  <1>1. y \in Int /\ n \in Int /\ netAt(m, v) = y - n
    BY DEF netAt, Sides
  <1>2. CASE v # Kalshi
    <2>1. lots(m, v) = [s \in Sides |-> owned[m][s][v]]
      BY <1>2 DEF lots
    <2>2. \A s \in Sides : owned[m][s][v] \in Int /\ owned[m][s][v] >= 0
      BY <1>2 DEF OwnedNat
    <2> QED
      BY <1>1, <2>1, <2>2 DEF Sides
  <1>3. CASE v = Kalshi
    <2> DEFINE net == netAt(m, v)
    <2>1. net \in Int
      BY <1>1
    <2>2. lots(m, v) = [s \in Sides |-> IF s = YesSided THEN IF net > 0 THEN net ELSE 0
                                        ELSE IF net < 0 THEN -net ELSE 0]
      BY <1>3 DEF lots
    <2> HIDE DEF net
    <2>3. net > 0 => net \in Nat
      BY <2>1
    <2>4. net < 0 => -net \in Nat
      BY <2>1
    <2>5. lots(m, v) \in [Sides -> Nat]
      BY <2>2, <2>3, <2>4
    <2>6. /\ lots(m, v)[YesSided] = IF net > 0 THEN net ELSE 0
          /\ lots(m, v)[NoSided] = IF net < 0 THEN -net ELSE 0
      BY <2>2 DEF Sides, YesSided, NoSided
    <2>7. lots(m, v)[YesSided] - lots(m, v)[NoSided] = net
      BY <2>1, <2>6
    <2> QED
      BY <2>5, <2>7 DEF net
  <1> QED
    BY <1>2, <1>3

LEMMA AddedLot ==
  ASSUME NEW p \in Position, HeldSomewhere(p), NEW s \in Sides, NEW v \in Venues,
         NEW n \in Nat, NEW avg \in Nat
  PROVE  LET q == IF n > 0 THEN blendLot(p, s, v, n, avg) ELSE p
         IN  /\ q \in Position /\ HeldSomewhere(q)
             /\ \A r \in Sides : q.count[r] = p.count[r] + (IF r = s THEN n ELSE 0)
  <1>0. v # NoVenue /\ \A r \in Sides : p.count[r] \in Nat
    BY DEF Venues, Kalshi, Polymarket, Gemini, NoVenue, Position
  <1>1. CASE n > 0
    <2> DEFINE q == blendLot(p, s, v, n, avg)
    <2>1. q \in Position /\ HeldSomewhere(q)
      BY <1>0, <1>1, BlendLotType, BoughtSomewhere
    <2>2. q.count = [p.count EXCEPT ![s] = p.count[s] + n] /\ p.count \in [Sides -> Nat]
      BY DEF blendLot, Position
    <2> HIDE DEF q
    <2>3. \A r \in Sides : q.count[r] = p.count[r] + (IF r = s THEN n ELSE 0)
      BY <1>0, <2>2
    <2> QED
      BY <1>1, <2>1, <2>3 DEF q
  <1>2. CASE ~(n > 0)
    <2>1. n = 0
      BY <1>2
    <2> QED
      BY <1>0, <2>1
  <1> QED
    BY <1>1, <1>2

LEMMA AddedVenueLot ==
  ASSUME NEW p \in Position, HeldSomewhere(p), NEW v \in Venues,
         NEW lot \in [Sides -> Nat], NEW avg \in Nat
  PROVE  LET q == addVenueLot(p, v, lot, avg)
         IN  /\ q \in Position /\ HeldSomewhere(q)
             /\ \A s \in Sides : q.count[s] = p.count[s] + lot[s]
  <1> DEFINE y == lot[YesSided]
             n == lot[NoSided]
             a == IF y > 0 THEN blendLot(p, YesSided, v, y, avg) ELSE p
             b == IF n > 0 THEN blendLot(a, NoSided, v, n, avg) ELSE a
  <1>0. /\ lot[YesSided] \in Nat /\ lot[NoSided] \in Nat
        /\ YesSided \in Sides /\ NoSided \in Sides /\ YesSided # NoSided
        /\ \A s \in Sides : p.count[s] \in Nat /\ s \in {YesSided, NoSided}
    BY DEF Sides, YesSided, NoSided, Position
  <1>1. /\ a \in Position /\ HeldSomewhere(a)
        /\ \A r \in Sides : a.count[r] = p.count[r] + (IF r = YesSided THEN y ELSE 0)
    <2>1. y \in Nat
      BY <1>0
    <2>2. YesSided \in Sides
      BY <1>0
    <2> HIDE DEF y
    <2>3. LET q == IF y > 0 THEN blendLot(p, YesSided, v, y, avg) ELSE p
          IN  /\ q \in Position /\ HeldSomewhere(q)
              /\ \A r \in Sides : q.count[r] = p.count[r] + (IF r = YesSided THEN y ELSE 0)
      BY <2>1, <2>2, AddedLot
    <2> QED
      BY <2>3
  <1> HIDE DEF a
  <1>2. /\ b \in Position /\ HeldSomewhere(b)
        /\ \A r \in Sides : b.count[r] = a.count[r] + (IF r = NoSided THEN n ELSE 0)
    BY <1>0, <1>1, AddedLot
  <1>3. addVenueLot(p, v, lot, avg) = b
    BY DEF addVenueLot, a
  <1> HIDE DEF b
  <1>4. \A s \in Sides : b.count[s] = p.count[s] + lot[s]
    <2> TAKE s \in Sides
    <2>1. CASE s = YesSided
      BY <1>0, <1>1, <1>2, <2>1
    <2>2. CASE s = NoSided
      BY <1>0, <1>1, <1>2, <2>2
    <2> QED
      BY <1>0, <2>1, <2>2
  <1> QED
    BY <1>2, <1>3, <1>4


\* The cost of the lots of all markets is a number of cents.
LEMMA LotsCostType ==
  ASSUME owned \in [Markets -> [Sides -> [Venues -> Int]]], OwnedNat,
         NEW v \in Venues, NEW avg \in Nat
  PROVE  SumFunction([m \in Markets |-> lotCost(lots(m, v), avg)]) \in Int
  <1> DEFINE f == [m \in Markets |-> lotCost(lots(m, v), avg)]
  <1>1. \A m \in Markets : f[m] \in Int
    <2> SUFFICES ASSUME NEW m \in Markets PROVE lotCost(lots(m, v), avg) \in Int
      OBVIOUS
    <2> DEFINE y == lots(m, v)[YesSided]
               n == lots(m, v)[NoSided]
    <2>1. y \in Nat /\ n \in Nat
      BY LotsType DEF Sides
    <2> HIDE DEF y, n
    <2>2. (y + n) * avg \in Int
      BY <2>1
    <2> QED
      BY <2>2 DEF lotCost, y, n
  <1>2. DOMAIN f = Markets /\ IsFiniteSet(Markets)
    BY RestartAssumption
  <1> HIDE DEF f
  <1>3. SumFunction(f) = SumFunctionOnSet(f, Markets)
    BY <1>2 DEF SumFunction
  <1>4. SumFunctionOnSet(f, Markets) \in Int
    BY <1>1, <1>2, SumType
  <1> QED
    BY <1>3, <1>4 DEF f

\* A venue sells for us only what it holds for us.
LEMMA ExecutedOwned ==
  ASSUME WellTyped, OwnedNat, NEW m \in Markets, NEW leg, NEW f \in VenueFills(m, leg),
         leg \in Leg, VenueExecutes(m, f)
  PROVE  OwnedNat'
  <1>1. f.venue \in Venues /\ f.side \in Sides /\ f.size \in Nat
    BY ConfiguredAssumption DEF VenueFills, Leg
  <1>2. f.buy \/ f.venue = Kalshi \/ owned[m][f.side][f.venue] >= f.size
    BY DEF VenueFills
  <1>3. /\ owned \in [Markets -> [Sides -> [Venues -> Int]]]
        /\ owned' = [owned EXCEPT ![m][f.side][f.venue] = @ + ownedDelta(f)]
    BY DEF WellTyped, TypeOK, VenueExecutes
  <1> SUFFICES ASSUME NEW x \in Markets, NEW s \in Sides, NEW v \in Venues \ {Kalshi}
               PROVE  owned'[x][s][v] >= 0
    BY DEF OwnedNat
  <1>4. owned[x][s][v] \in Int /\ owned[x][s][v] >= 0
    BY <1>3 DEF OwnedNat
  <1>5. CASE x = m /\ s = f.side /\ v = f.venue
    <2>1. owned'[x][s][v] = owned[x][s][v] + ownedDelta(f)
      BY <1>1, <1>3, <1>5
    <2> QED
      BY <1>1, <1>2, <1>4, <1>5, <2>1 DEF ownedDelta
  <1>6. CASE ~(x = m /\ s = f.side /\ v = f.venue)
    <2>1. owned'[x][s][v] = owned[x][s][v]
      BY <1>1, <1>3, <1>6
    <2> QED
      BY <1>4, <2>1
  <1> QED
    BY <1>5, <1>6

LEMMA NextOwned ==
  ASSUME LockInv, OwnedNat, [Next]_vars
  PROVE  OwnedNat'
  <1>1. CASE UNCHANGED owned
    BY <1>1 DEF OwnedNat
  <1>2. ASSUME NEW w \in Workers, SendFilled(w) \/ SendLost(w) PROVE OwnedNat'
    <2> DEFINE j == job[w]
    <2>1. TypedJob(j) /\ j.pc = "send"
      BY <1>2 DEF LockInv, WellTyped, TypeOK, Phases, Ready, TypedJob, SendFilled, SendLost
    <2>2. j.market \in Markets /\ Order(j) \in Leg
      BY <2>1, OrderType DEF TypedJob, JobReady, PhaseOK
    <2>3. \E f \in VenueFills(j.market, Order(j)) : VenueExecutes(j.market, f)
      BY <1>2 DEF SendFilled, SendLost
    <2> QED
      BY <2>2, <2>3, ExecutedOwned DEF LockInv
  <1>3. ASSUME NEW w \in Workers, JobStep(w), ~SendFilled(w), ~SendLost(w) PROVE UNCHANGED owned
    BY <1>3 DEF JobStep, SendGivesUp, SendMissed, ApplyFill, NoteFill, NoteFillTooLate,
                KillSwitch, Release, Flatten, GetBalance, GetBalanceFails, SetBalance, ClearBusy,
                WorkingEnd, venueVars
  <1>4. ASSUME NEW t \in Feeds, Tick(t) \/ Dispatch(t) PROVE UNCHANGED owned
    BY <1>4 DEF Tick, FlattenTick, PairTick, Attempt, Dispatch, TryBusyInFlight, TryBusyPair,
                ReserveFails, TryBusyFlatten, Reserve, venueVars
  <1> QED
    BY <1>1, <1>2, <1>3, <1>4 DEF Next, QuietTick, Stop, Expire, vars, venueVars

-----------------------------------------------------------------------------
(* The process *)

BootState == [pc : {"lots", "cash", "up"}, at : Venues]

\* What the book was never told of is what the venues did not report.
UnseenIsLag == \A m \in Markets : unseen[m] = lag(m, YesSided) - lag(m, NoSided)

ProcessInv ==
  /\ LiveInv /\ VenuesKnown /\ OwnedNat
  /\ boot \in BootState
  /\ ~Up => Loading

NothingOnTheWay == \A m \in Markets, s \in Sides : onTheWay(m, s) = 0

LEMMA RestingLagNext == Resting' => \A m \in Markets, s \in Sides : onTheWay(m, s)' = 0
  <1>1. Resting => NothingOnTheWay
    BY RestingLag DEF NothingOnTheWay
  <1>2. Resting' => NothingOnTheWay'
    BY <1>1, PTL
  <1> QED
    BY <1>2 DEF NothingOnTheWay

\* The surplus at the venues is that of their holdings side by side.
LEMMA VenueSurplusIs ==
  ASSUME owned \in [Markets -> [Sides -> [Venues -> Int]]], NEW m \in Markets
  PROVE  /\ venueSurplus(m) = OverVenues(owned[m][YesSided]) - OverVenues(owned[m][NoSided])
         /\ OverVenues(owned[m][YesSided]) \in Int /\ OverVenues(owned[m][NoSided]) \in Int
  <1>1. owned[m][YesSided] \in [Venues -> Int] /\ owned[m][NoSided] \in [Venues -> Int]
    BY DEF Sides
  <1> QED
    BY <1>1 DEF venueSurplus, OverVenues, netAt, Venues, Kalshi, Polymarket, Gemini

LEMMA NextStageType ==
  ASSUME boot \in BootState, NEW pc \in {"lots", "cash"}, NEW next \in {"cash", "up"},
         NextStage(pc, next)
  PROVE  boot' \in BootState
  BY DEF BootState, NextStage, Venues, Kalshi, Polymarket, Gemini

LEMMA ProcessInitOK == ProcessInit => ProcessInv /\ UnseenIsLag
  <1> SUFFICES ASSUME ProcessInit PROVE ProcessInv /\ UnseenIsLag
    OBVIOUS
  <1>1. PortfolioTypeOK
    BY DEF ProcessInit, PortfolioTypeOK, Nothing, EmptyPosition, Position
  <1>2. killed \in BOOLEAN /\ stopped \in BOOLEAN
    BY Zenon DEF ProcessInit
  <1>3. /\ funds \in [Venues -> Int] /\ owned \in [Markets -> [Sides -> [Venues -> Int]]]
        /\ OwnedNat
    BY InitialCashAssumption DEF ProcessInit, Nothing, OwnedNat
  <1>4. loss \in Int /\ working \in Nat /\ ticks \in Nat /\ expired \subseteq Markets /\ Resting
    BY DEF ProcessInit, Resting
  <1>5. Loading
    BY <1>1, <1>2, <1>3, <1>4 DEF Loading
  <1>6. VenuesKnown
    BY DEF ProcessInit, VenuesKnown, HeldSomewhere, EmptyPosition, IdleJob, NewJob
  <1>7. boot \in BootState
    BY DEF ProcessInit, Start, BootState, Venues
  <1>8. UnseenIsLag
    <2>1. \A m \in Markets, s \in Sides :
            /\ pos[m].count[s] = 0 /\ onTheWay(m, s) = 0
            /\ \A v \in Venues : owned[m][s][v] = 0
      BY <1>4, RestingLag DEF ProcessInit, EmptyPosition, Nothing
    <2>2. \A m \in Markets, s \in Sides : OverVenues(owned[m][s]) = 0
      BY <2>1 DEF OverVenues, Venues
    <2>3. \A m \in Markets, s \in Sides : lag(m, s) = 0
      BY <2>1, <2>2 DEF lag
    <2> QED
      BY <2>3 DEF UnseenIsLag, ProcessInit, Sides
  <1> QED
    BY <1>3, <1>5, <1>6, <1>7, <1>8, LoadingLives DEF ProcessInv

LEMMA CrashOK ==
  ASSUME ProcessInv, Crash
  PROVE  ProcessInv' /\ UnseenIsLag'
  <1>0. /\ expired \subseteq Markets /\ ticks \in Nat /\ funds \in [Venues -> Int]
        /\ owned \in [Markets -> [Sides -> [Venues -> Int]]]
    BY DEF ProcessInv, LiveInv, LockInv, WellTyped, TypeOK
  <1>1. Resting'
    BY DEF Crash, Resting
  <1>2. PortfolioTypeOK'
    BY DEF Crash, PortfolioTypeOK, Nothing, EmptyPosition, Position
  <1>3. killed' \in BOOLEAN /\ stopped' \in BOOLEAN
    BY Zenon DEF Crash
  <1>4. loss' \in Int /\ working' \in Nat /\ UNCHANGED <<expired, ticks, funds, owned>>
    BY DEF Crash, venueVars
  <1>5. Loading'
    BY <1>0, <1>1, <1>2, <1>3, <1>4 DEF Loading
  <1>6. VenuesKnown'
    BY DEF Crash, VenuesKnown, HeldSomewhere, EmptyPosition, IdleJob, NewJob
  <1>7. boot' \in BootState /\ OwnedNat'
    BY <1>4 DEF Crash, Start, BootState, Venues, ProcessInv, OwnedNat
  <1>8. ASSUME NEW m \in Markets
        PROVE  unseen'[m] = lag(m, YesSided)' - lag(m, NoSided)'
    <2> DEFINE all(s) == OverVenues(owned[m][s])
    <2>1. \A s \in Sides : pos'[m].count[s] = 0 /\ onTheWay(m, s)' = 0
      BY <1>1, RestingLagNext DEF Crash, EmptyPosition
    <2>2. \A s \in Sides : lag(m, s)' = all(s) - (0 + 0)
      BY <1>4, <2>1 DEF lag
    <2>3. unseen'[m] = venueSurplus(m)
      BY DEF Crash
    <2>4. /\ venueSurplus(m) = all(YesSided) - all(NoSided)
          /\ all(YesSided) \in Int /\ all(NoSided) \in Int
      BY <1>0, VenueSurplusIs
    <2>5. YesSided \in Sides /\ NoSided \in Sides
      BY DEF Sides
    <2> HIDE DEF all
    <2>6. /\ lag(m, YesSided)' = all(YesSided) - (0 + 0)
          /\ lag(m, NoSided)' = all(NoSided) - (0 + 0)
      BY <2>2, <2>5
    <2> QED
      BY <2>3, <2>4, <2>6
  <1> QED
    BY <1>5, <1>6, <1>7, <1>8, LoadingLivesNext DEF ProcessInv, UnseenIsLag

LEMMA LoadLotsOK ==
  ASSUME ProcessInv, LoadLots
  PROVE  ProcessInv' /\ Loading' /\ (UnseenIsLag => UnseenIsLag')
  <1> DEFINE v == boot.at
  <1>0. /\ Loading /\ v \in Venues /\ OwnedNat /\ VenuesKnown
        /\ owned \in [Markets -> [Sides -> [Venues -> Int]]]
    BY DEF ProcessInv, LoadLots, Up, BootState, Loading
  <1>1. PICK avg \in LotPrices :
          /\ pos' = [m \in Markets |-> addVenueLot(pos[m], v, lots(m, v), avg)]
          /\ exposure' = [exposure EXCEPT ![v] =
                            @ + SumFunction([m \in Markets |-> lotCost(lots(m, v), avg)])]
    BY DEF LoadLots
  <1>2. avg \in Nat
    BY RestartAssumption
  <1>3. UNCHANGED <<cash, reserved, busy, killed, loss, stopped, working, expired, feed, job,
                    ticks, funds, owned>>
    BY DEF LoadLots, gateVars, venueVars
  <1>4. /\ pos \in [Markets -> Position] /\ exposure \in [Venues -> Int]
        /\ \A m \in Markets : pos[m] \in Position /\ HeldSomewhere(pos[m])
    BY <1>0 DEF Loading, PortfolioTypeOK, VenuesKnown
  <1>5. ASSUME NEW m \in Markets
        PROVE  /\ pos'[m] \in Position /\ HeldSomewhere(pos'[m])
               /\ \A s \in Sides : pos'[m].count[s] = pos[m].count[s] + lots(m, v)[s]
    <2>1. lots(m, v) \in [Sides -> Nat]
      BY <1>0, LotsType
    <2>2. pos'[m] = addVenueLot(pos[m], v, lots(m, v), avg)
      BY <1>1
    <2> QED
      BY <1>0, <1>2, <1>4, <2>1, <2>2, AddedVenueLot
  <1>6. exposure' \in [Venues -> Int]
    <2> DEFINE cost == SumFunction([m \in Markets |-> lotCost(lots(m, v), avg)])
    <2>1. cost \in Int
      BY <1>0, <1>2, LotsCostType
    <2> HIDE DEF cost
    <2>2. exposure' = [exposure EXCEPT ![v] = exposure[v] + cost]
      BY <1>1 DEF cost
    <2> QED
      BY <1>4, <2>1, <2>2, AddedCents
  <1>7. Loading'
    <2>1. pos' \in [Markets -> Position]
      BY <1>1, <1>5
    <2> QED
      BY <1>0, <1>3, <1>6, <2>1 DEF Loading, Resting, PortfolioTypeOK
  <1>8. VenuesKnown' /\ OwnedNat'
    BY <1>0, <1>3, <1>5 DEF VenuesKnown, OwnedNat
  <1>9. boot' \in BootState
    BY NextStageType DEF ProcessInv, LoadLots
  <1>10. ASSUME UnseenIsLag, NEW m \in Markets
         PROVE  unseen'[m] = lag(m, YesSided)' - lag(m, NoSided)'
    <2> DEFINE lot == lots(m, v)
               all(s) == OverVenues(owned[m][s])
    <2>1. /\ lot[YesSided] \in Nat /\ lot[NoSided] \in Nat
          /\ lot[YesSided] - lot[NoSided] = netAt(m, v)
      BY <1>0, LotsType DEF Sides
    <2>2. all(YesSided) \in Int /\ all(NoSided) \in Int
      BY <1>0, VenueSurplusIs
    <2>3. \A s \in Sides :
            /\ onTheWay(m, s) = 0 /\ onTheWay(m, s)' = 0
            /\ pos[m].count[s] \in Int
            /\ pos'[m].count[s] = pos[m].count[s] + lot[s]
      BY <1>0, <1>4, <1>5, <1>7, RestingLag, RestingLagNext DEF Loading, Position
    <2>4. \A s \in Sides : /\ lag(m, s) = all(s) - (pos[m].count[s] + 0)
                           /\ lag(m, s)' = all(s) - (pos[m].count[s] + lot[s] + 0)
      BY <1>3, <2>3 DEF lag
    <2>5. unseen'[m] = unseen[m] - netAt(m, v)
      BY DEF LoadLots
    <2>6. unseen[m] = lag(m, YesSided) - lag(m, NoSided)
      BY <1>10 DEF UnseenIsLag
    <2>7. YesSided \in Sides /\ NoSided \in Sides
      BY DEF Sides
    <2>8. pos[m].count[YesSided] \in Int /\ pos[m].count[NoSided] \in Int
      BY <2>3, <2>7
    <2> HIDE DEF lot, all
    <2> QED
      BY <2>1, <2>2, <2>4, <2>5, <2>6, <2>7, <2>8
  <1> QED
    BY <1>7, <1>8, <1>9, <1>10, LoadingLivesNext DEF ProcessInv, UnseenIsLag

\* The other steps of the start: an answer that does not come, and cash.
LEMMA OtherBootOK ==
  ASSUME ProcessInv, LotsUnavailable \/ FirstCash \/ CashUnavailable
  PROVE  ProcessInv' /\ Loading' /\ (UnseenIsLag => UnseenIsLag')
  <1>0. /\ Loading /\ OwnedNat /\ VenuesKnown /\ boot.at \in Venues
        /\ cash \in [Venues -> Int] /\ funds \in [Venues -> Int]
    BY DEF ProcessInv, LotsUnavailable, FirstCash, CashUnavailable, Up, BootState, Loading,
           PortfolioTypeOK
  <1>1. UNCHANGED <<exposure, reserved, pos, busy, killed, loss, stopped, working, expired,
                    feed, job, ticks, funds, owned, unseen>>
    BY DEF LotsUnavailable, FirstCash, CashUnavailable, vars, bookVars, gateVars, venueVars
  <1>2. cash' \in [Venues -> Int]
    BY <1>0 DEF LotsUnavailable, FirstCash, CashUnavailable, vars, bookVars, setCash
  <1>3. Loading'
    BY <1>0, <1>1, <1>2 DEF Loading, Resting, PortfolioTypeOK
  <1>4. boot' \in BootState
    BY NextStageType DEF ProcessInv, LotsUnavailable, FirstCash, CashUnavailable
  <1>5. VenuesKnown' /\ OwnedNat'
    BY <1>0, <1>1 DEF VenuesKnown, OwnedNat
  <1>6. \A m \in Markets, s \in Sides : lag(m, s)' = lag(m, s)
    <2>1. \A m \in Markets, s \in Sides : onTheWay(m, s) = 0 /\ onTheWay(m, s)' = 0
      BY <1>0, <1>3, RestingLag, RestingLagNext DEF Loading
    <2> QED
      BY <1>1, <2>1 DEF lag
  <1> QED
    BY <1>1, <1>3, <1>4, <1>5, <1>6, LoadingLivesNext DEF ProcessInv, UnseenIsLag, Sides

\* Trading, an operator who halts a process that does not trade yet, or nothing.
LEMMA TradesOK ==
  ASSUME ProcessInv, UNCHANGED bootVars, (Up /\ Next) \/ Stop \/ UNCHANGED vars
  PROVE  ProcessInv' /\ (~LostReplies /\ UnseenIsLag => UnseenIsLag')
  <1>1. [Next]_vars
    BY DEF Next
  <1>2. LiveInv' /\ VenuesKnown' /\ OwnedNat' /\ (~LostReplies => LagStays)
    BY <1>1, NextLives, NextOwned DEF ProcessInv, LiveInv
  <1>3. ~Up' => Loading'
    <2> SUFFICES ASSUME ~Up' PROVE Loading'
      OBVIOUS
    <2>1. Loading /\ (Stop \/ UNCHANGED vars)
      BY DEF Up, bootVars, ProcessInv
    <2>2. stopped' \in BOOLEAN
      BY <2>1 DEF Loading, Stop, vars, gateVars
    <2> QED
      BY <2>1, <2>2 DEF Loading, Resting, PortfolioTypeOK, Stop, vars, bookVars, gateVars,
                        venueVars
  <1>4. ~LostReplies /\ UnseenIsLag => UnseenIsLag'
    BY <1>2 DEF LagStays, UnseenIsLag, bootVars, Sides
  <1> QED
    BY <1>2, <1>3, <1>4 DEF ProcessInv, bootVars, Up

LEMMA ProcessInvNext ==
  ASSUME ProcessInv, [ProcessNext]_processVars
  PROVE  ProcessInv' /\ (~LostReplies /\ UnseenIsLag => UnseenIsLag')
  BY CrashOK, LoadLotsOK, OtherBootOK, TradesOK DEF ProcessNext, Boot, Trades, processVars

(* Whatever a crash interrupts, and however often, the book of the running
   process and the venues agree on which side is in excess and by how much, up
   to the fill that is being booked and what a venue did not report: nothing is
   counted twice and no order in flight at the crash is lost, provided the
   replies to orders arrive (main.cpp:198-256, 551). *)
THEOREM SurplusMatchesVenueHolds ==
  ASSUME ~LostReplies
  PROVE  ProcessSpec => []SurplusMatchesVenue
  <1>1. ProcessInv /\ UnseenIsLag => SurplusMatchesVenue
    <2> SUFFICES ASSUME ProcessInv, UnseenIsLag, NEW m \in Markets
                 PROVE  surplus(pos[m]) + onTheWay(m, YesSided) - onTheWay(m, NoSided) + unseen[m]
                          = venueSurplus(m)
      BY DEF SurplusMatchesVenue
    <2> DEFINE all(s) == OverVenues(owned[m][s])
    <2>1. YesSided \in Sides /\ NoSided \in Sides
      BY DEF Sides
    <2>2. \A s \in Sides : pos[m].count[s] \in Int /\ onTheWay(m, s) \in Int
      BY OnTheWayType DEF ProcessInv, LiveInv, LockInv, WellTyped, TypeOK, PortfolioTypeOK,
                          Position
    <2>3. /\ venueSurplus(m) = all(YesSided) - all(NoSided)
          /\ all(YesSided) \in Int /\ all(NoSided) \in Int
      BY VenueSurplusIs DEF ProcessInv, LiveInv, LockInv, WellTyped, TypeOK
    <2>4. unseen[m] = (all(YesSided) - (pos[m].count[YesSided] + onTheWay(m, YesSided)))
                        - (all(NoSided) - (pos[m].count[NoSided] + onTheWay(m, NoSided)))
      BY DEF UnseenIsLag, lag
    <2>5. surplus(pos[m]) = pos[m].count[YesSided] - pos[m].count[NoSided]
      BY DEF surplus
    <2> HIDE DEF all
    <2> QED
      BY <2>1, <2>2, <2>3, <2>4, <2>5
  <1> QED
    BY <1>1, ProcessInitOK, ProcessInvNext, PTL DEF ProcessSpec

-----------------------------------------------------------------------------
(* The live path from any book a restart may find.  A process starts to trade
   with positions, averages and cash that Init does not know, but with nothing
   set aside and the gate open. *)

NothingSetAside == killed = FALSE /\ \A v \in Venues : reserved[v] = 0

LivePromises ==
  /\ OneJobPerMarket /\ ReservedIsHeld
  /\ FlattenSellsSurplus /\ FlattenBalances
  /\ PairKeepsEdge /\ KillSwitchHalts

KeepsPromises == HeldInv /\ EdgeInv /\ KillSwitchHalts

RestartInv ==
  /\ ProcessInv /\ KeepsPromises
  /\ ~Up => NothingSetAside

LEMMA LoadingKeepsPromises == Loading /\ NothingSetAside => KeepsPromises
  <1> SUFFICES ASSUME Loading, NothingSetAside PROVE KeepsPromises
    OBVIOUS
  <1>1. WellTyped
    BY LoadingLives DEF LiveInv, LockInv
  <1>2. HeldInv
    BY <1>1, HeldAtRest DEF Loading, Resting, NothingSetAside
  <1>3. EdgeInv
    BY DEF Loading, Resting, EdgeInv, EdgeOf, BothFilled, IdleJob, NewJob, IdleFeed
  <1> QED
    BY <1>2, <1>3 DEF KeepsPromises, KillSwitchHalts, NothingSetAside

LEMMA LoadingKeepsPromisesNext == Loading' /\ NothingSetAside' => KeepsPromises'
  BY LoadingKeepsPromises, PTL

LEMMA PromisesNext ==
  ASSUME LockInv, KeepsPromises, [Next]_vars
  PROVE  KeepsPromises'
  BY HeldNext, EdgeInvNext, HaltsNext DEF KeepsPromises

LEMMA RestartInvNext ==
  ASSUME RestartInv, [ProcessNext]_processVars
  PROVE  RestartInv'
  <1>1. ProcessInv'
    BY ProcessInvNext DEF RestartInv
  <1>2. CASE Crash
    <2>1. boot'.pc # "up" /\ NothingSetAside'
      BY <1>2 DEF Crash, Start, Nothing, NothingSetAside
    <2> QED
      BY <1>1, <2>1, LoadingKeepsPromisesNext DEF RestartInv, ProcessInv, Up
  <1>3. CASE Boot
    <2>1. ~Up /\ UNCHANGED <<killed, reserved, job, feed, busy>>
      BY <1>3 DEF Boot, LoadLots, LotsUnavailable, FirstCash, CashUnavailable, Up, vars,
                  bookVars, gateVars
    <2>2. NothingSetAside'
      BY <2>1 DEF RestartInv, NothingSetAside
    <2>3. Loading'
      <3>1. CASE LoadLots
        BY <3>1, LoadLotsOK DEF RestartInv
      <3>2. CASE LotsUnavailable \/ FirstCash \/ CashUnavailable
        BY <3>2, OtherBootOK DEF RestartInv
      <3> QED
        BY <1>3, <3>1, <3>2 DEF Boot
    <2> QED
      BY <1>1, <2>2, <2>3, LoadingKeepsPromisesNext DEF RestartInv
  <1>4. CASE Trades(Next) \/ (Stop /\ UNCHANGED bootVars) \/ UNCHANGED processVars
    <2>1. LockInv /\ KeepsPromises /\ [Next]_vars /\ UNCHANGED boot
      BY <1>4 DEF RestartInv, ProcessInv, LiveInv, Trades, Next, processVars, bootVars
    <2>2. ~Up' => NothingSetAside'
      BY <1>4, <2>1 DEF RestartInv, NothingSetAside, Trades, Up, Stop, processVars, vars,
                        bookVars, gateVars
    <2> QED
      BY <1>1, <2>1, <2>2, PromisesNext DEF RestartInv
  <1> QED
    BY <1>2, <1>3, <1>4 DEF ProcessNext

(* What the live path promises it promises in every process, from whatever the
   venues report at its start and however often the ones before it died: no job
   meets one of its own market, every cent set aside is held by a running job, a
   leftover is sold for what it is, a pair keeps its edge and the kill switch
   halts (live_busy.hpp:5, risk.hpp:77-107, main.cpp:198-308, 551). *)
THEOREM RestartsKeepPromises == ProcessSpec => []LivePromises
  <1>1. ProcessInit => RestartInv
    <2> SUFFICES ASSUME ProcessInit PROVE RestartInv
      OBVIOUS
    <2>1. NothingSetAside /\ ~Up
      BY DEF ProcessInit, Nothing, NothingSetAside, Start, Up
    <2>2. ProcessInv
      BY ProcessInitOK
    <2> QED
      BY <2>1, <2>2, LoadingKeepsPromises DEF RestartInv, ProcessInv
  <1>2. RestartInv => LivePromises
    <2> SUFFICES ASSUME RestartInv PROVE LivePromises
      OBVIOUS
    <2>1. OneJobPerMarket /\ FlattenSellsSurplus /\ FlattenBalances
      BY DEF RestartInv, ProcessInv, LiveInv, LockInv, OneOwner, LeftoverInv, SellsLeftoverOf,
             FlattenSellsSurplus, FlattenBalances
    <2>2. ReservedIsHeld /\ KillSwitchHalts
      BY HeldIsReserved DEF RestartInv, KeepsPromises
    <2>3. PairKeepsEdge
      BY DEF RestartInv, KeepsPromises, EdgeInv, EdgeOf, PairKeepsEdge, KeepsEdge, Active
    <2> QED
      BY <2>1, <2>2, <2>3 DEF LivePromises
  <1> QED
    BY <1>1, <1>2, RestartInvNext, PTL DEF ProcessSpec

-----------------------------------------------------------------------------
(* Cash.  A refresh asks the venues in order.  While no other job runs, nothing
   moves the money of a venue it has passed, so when it ends the book has the
   cash of every venue. *)

\* The book has the cash of the venues before the n-th.
CashKnown(n) == \A v \in Configured : v < n => cash[v] = funds[v]
AllCashKnown == \A v \in Configured : cash[v] = funds[v]

\* The part of a job before its refresh.
BeforeRefresh == {"send", "apply", "note", "halt", "release", "flatten"}

JobKnowsCash(j) ==
  /\ j.pc \in {"idle", "end"} \cup BeforeRefresh => j.at = Kalshi
  /\ j.pc \in {"get", "set"} => CashKnown(j.at)
  /\ j.pc = "set" => j.balance = funds[j.at]
  /\ j.pc = "clear" => AllCashKnown

CashInv ==
  /\ boot.pc = "cash" => CashKnown(boot.at)
  /\ Up /\ (\A w \in Workers : ~Active(w)) => AllCashKnown
  /\ \A w \in Workers : JobKnowsCash(job[w])

\* Jobs of different markets do not overlap.
NoOverlap == \A u, w \in Workers : Active(u) /\ Active(w) => u = w

LEMMA CashKnownFirst == CashKnown(Kalshi)
  BY ConfiguredAssumption DEF CashKnown, Venues, Kalshi, Polymarket, Gemini

LEMMA CashKnownNext ==
  ASSUME NEW v \in Venues, CashKnown(v), v \in Configured => cash[v] = funds[v]
  PROVE  IF v = Gemini THEN AllCashKnown ELSE CashKnown(v + 1)
  BY ConfiguredAssumption DEF CashKnown, AllCashKnown, Venues, Kalshi, Polymarket, Gemini

\* A job that misses or fills an order goes on before its refresh, or to it.
LEMMA StaysBeforeRefresh ==
  ASSUME NEW j \in JobState, PhaseOK(j), j.stage # "done"
  PROVE  /\ AfterFill(j).at = j.at /\ AfterFill(j).pc \in BeforeRefresh \cup {"get"}
         /\ AfterNoFill(j).at = j.at /\ AfterNoFill(j).pc \in BeforeRefresh \cup {"get"}
         /\ AfterMiss(j).at = j.at /\ AfterMiss(j).pc \in BeforeRefresh \cup {"get"}
  <1>1. /\ AfterNoFill(j).at = j.at /\ AfterNoFill(j).pc \in BeforeRefresh \cup {"get"}
        /\ AfterMiss(j).at = j.at /\ AfterMiss(j).pc \in BeforeRefresh \cup {"get"}
    BY DEF AfterNoFill, AfterMiss, JobState, BeforeRefresh
  <1>2. j.stage \in {"first", "second", "flatten"}
    BY DEF PhaseOK
  <1>3. CASE j.stage = "first"
    BY <1>1, <1>3 DEF AfterFill, JobState, BeforeRefresh
  <1>4. CASE j.stage = "second"
    BY <1>1, <1>4 DEF AfterFill, JobState, BeforeRefresh
  <1>5. CASE j.stage = "flatten"
    BY <1>1, <1>5 DEF AfterFill, JobState, BeforeRefresh
  <1> QED
    BY <1>2, <1>3, <1>4, <1>5

LEMMA StepBeforeRefresh ==
  ASSUME LockInv, NEW w \in Workers, JobStep(w), ~GetBalance(w), ~GetBalanceFails(w),
         ~SetBalance(w), ~ClearBusy(w), ~WorkingEnd(w)
  PROVE  /\ job[w].pc \in BeforeRefresh /\ job'[w].pc \in BeforeRefresh \cup {"get"}
         /\ job'[w].at = job[w].at
  <1> DEFINE j == job[w]
  <1>0. j \in JobState /\ PhaseOK(j) /\ DOMAIN job = Workers
    BY DEF LockInv, Shape, WellTyped, TypeOK, Phases
  <1>1. ASSUME NEW k, Goto(w, k), k.at = j.at, k.pc \in BeforeRefresh \cup {"get"}
        PROVE  job'[w].at = j.at /\ job'[w].pc \in BeforeRefresh \cup {"get"}
    BY <1>0, <1>1 DEF Goto
  <1>2. CASE ApplyFill(w)
    <2> DEFINE priced == IF j.stage = "flatten" THEN j
                         ELSE [j EXCEPT !.leg[Turn(j)].price = j.fill.price]
    <2>1. /\ j.pc = "apply"
          /\ \/ Goto(w, AfterNoFill(priced))
             \/ Goto(w, AfterFill(priced))
             \/ Goto(w, [priced EXCEPT !.pc = "note"])
      BY <1>2 DEF ApplyFill
    <2>2. j.stage # "done" /\ j.fill.price \in Int
      BY <1>0, <2>1 DEF PhaseOK, JobState, Leg
    <2> DEFINE side == Turn(j)
               price == j.fill.price
    <2>3. side \in Sides
      BY TurnType
    <2> HIDE DEF side, price
    <2>4. [j EXCEPT !.leg[side].price = price] \in JobState
      BY <1>0, <2>2, <2>3, PricedLegType DEF price
    <2>5. priced \in JobState /\ priced.stage = j.stage /\ PhaseOK(priced) /\ priced.at = j.at
      <3>1. CASE j.stage = "flatten"
        BY <1>0, <3>1
      <3>2. CASE j.stage # "flatten"
        BY <1>0, <2>4, <3>2 DEF side, price, JobState, PhaseOK
      <3> QED
        BY <3>1, <3>2
    <2> HIDE DEF priced, j
    <2>6. [priced EXCEPT !.pc = "note"].pc = "note" /\ [priced EXCEPT !.pc = "note"].at = j.at
      BY <2>5 DEF JobState
    <2>7. "note" \in BeforeRefresh /\ "apply" \in BeforeRefresh
      BY DEF BeforeRefresh
    <2> QED
      BY <1>1, <2>1, <2>2, <2>5, <2>6, <2>7, StaysBeforeRefresh DEF j
  <1>3. CASE SendMissed(w) \/ SendLost(w) \/ SendGivesUp(w)
    <2>1. /\ j.pc = "send" /\ j.stage # "done"
          /\ Goto(w, AfterNoFill(j)) \/ Goto(w, AfterMiss(j))
      BY <1>0, <1>3 DEF SendMissed, SendLost, SendGivesUp, PhaseOK
    <2>2. j.pc \in BeforeRefresh
      BY <2>1 DEF BeforeRefresh
    <2> QED
      BY <1>0, <1>1, <2>1, <2>2, StaysBeforeRefresh
  <1>4. CASE SendFilled(w)
    BY <1>0, <1>4 DEF SendFilled, JobState, Goto, BeforeRefresh
  <1>5. CASE NoteFill(w) \/ NoteFillTooLate(w) \/ KillSwitch(w)
    <2>1. /\ j.pc \in {"note", "halt"} /\ j.stage # "done"
          /\ Goto(w, AfterFill(j)) \/ Goto(w, [j EXCEPT !.pc = "halt"])
      BY <1>0, <1>5 DEF NoteFill, AfterNote, NoteFillTooLate, KillSwitch, PhaseOK
    <2>2. [j EXCEPT !.pc = "halt"].pc = "halt" /\ [j EXCEPT !.pc = "halt"].at = j.at
      BY <1>0 DEF JobState
    <2>3. "halt" \in BeforeRefresh /\ "note" \in BeforeRefresh
      BY DEF BeforeRefresh
    <2> QED
      BY <1>0, <1>1, <2>1, <2>2, <2>3, StaysBeforeRefresh
  <1>6. CASE Release(w)
    BY <1>0, <1>6 DEF Release, JobState, Goto, BeforeRefresh
  <1>7. CASE Flatten(w)
    BY <1>0, <1>7 DEF Flatten, JobState, Goto, BeforeRefresh
  <1> QED
    BY <1>2, <1>3, <1>4, <1>5, <1>6, <1>7 DEF JobStep

\* A step of the only running job, after which it still runs.
LEMMA RunningKnowsCash ==
  ASSUME LockInv, CashInv, NoOverlap, Up, UNCHANGED boot, NEW w \in Workers,
         Active(w), Active(w)', job' = [job EXCEPT ![w] = job'[w]], JobKnowsCash(job[w])'
  PROVE  CashInv'
  <1>1. ASSUME NEW u \in Workers, u # w
        PROVE  JobKnowsCash(job[u])'
    <2>1. job'[u] = job[u] /\ job[u].pc \in {"idle", "end"} /\ JobKnowsCash(job[u])
      BY <1>1 DEF LockInv, Shape, NoOverlap, CashInv, Active
    <2> QED
      BY <2>1 DEF JobKnowsCash, BeforeRefresh
  <1>2. \A u \in Workers : JobKnowsCash(job[u])'
    BY <1>1
  <1> QED
    BY <1>2 DEF CashInv, Up

LEMMA JobStepCash ==
  ASSUME ~RefreshFails, LockInv, CashInv, NoOverlap, Up, UNCHANGED boot,
         NEW w \in Workers, JobStep(w)
  PROVE  CashInv'
  <1> DEFINE j == job[w]
  <1>0. /\ j \in JobState /\ PhaseOK(j) /\ DOMAIN job = Workers /\ j.at \in Venues
        /\ cash \in [Venues -> Int] /\ JobKnowsCash(j)
    BY DEF LockInv, Shape, WellTyped, TypeOK, Phases, PortfolioTypeOK, JobState, CashInv
  <1>1. ASSUME ~ClearBusy(w), ~WorkingEnd(w)
        PROVE  /\ Active(w) /\ job' = [job EXCEPT ![w] = job'[w]] /\ Active(w)'
    BY <1>1, JobStepStillRunning DEF LockInv, WellTyped, Active, StillRunning
  <1>2. ASSUME NEW n \in Venues, j.at = n, Goto(w, NextVenue(j)), j.pc \in {"get", "set"},
               UNCHANGED funds, n \in Configured => cash'[n] = funds[n],
               \A v \in Configured : v # n => cash'[v] = cash[v]
        PROVE  JobKnowsCash(job[w])'
    <2>1. job'[w] = NextVenue(j)
      BY <1>0, <1>2 DEF Goto
    <2>2. \A v \in Configured : v < n \/ v = n => cash'[v] = funds[v]
      BY <1>0, <1>2, ConfiguredAssumption
         DEF JobKnowsCash, CashKnown, Venues, Kalshi, Polymarket, Gemini
    <2>3. CASE n = Gemini
      <3>1. job'[w].pc = "clear"
        BY <1>0, <1>2, <2>1, <2>3 DEF NextVenue, JobState
      <3>2. AllCashKnown'
        BY <1>2, <2>2, <2>3, ConfiguredAssumption
           DEF AllCashKnown, Venues, Kalshi, Polymarket, Gemini
      <3> QED
        BY <3>1, <3>2 DEF JobKnowsCash, BeforeRefresh
    <2>4. CASE n # Gemini
      <3>1. job'[w].pc = "get" /\ job'[w].at = n + 1
        BY <1>0, <1>2, <2>1, <2>4 DEF NextVenue, JobState
      <3>2. \A v \in Configured : v < n + 1 => cash'[v] = funds'[v]
        BY <1>2, <2>2, ConfiguredAssumption DEF Venues, Kalshi, Polymarket, Gemini
      <3> QED
        BY <3>1, <3>2 DEF JobKnowsCash, CashKnown, BeforeRefresh
    <2> QED
      BY <2>3, <2>4
  <1>3. CASE GetBalance(w)
    <2>1. /\ j.pc = "get" /\ job'[w] = [j EXCEPT !.pc = "set", !.balance = funds[j.at]]
          /\ UNCHANGED <<cash, funds>>
      BY <1>0, <1>3 DEF GetBalance, Goto, bookVars, venueVars
    <2>2. job'[w].pc = "set" /\ job'[w].at = j.at /\ job'[w].balance = funds[j.at]
      BY <1>0, <2>1 DEF JobState
    <2>3. JobKnowsCash(job[w])'
      BY <1>0, <2>1, <2>2 DEF JobKnowsCash, CashKnown, BeforeRefresh
    <2>4. ~ClearBusy(w) /\ ~WorkingEnd(w)
      BY <2>1 DEF ClearBusy, WorkingEnd
    <2> QED
      BY <1>1, <2>3, <2>4, RunningKnowsCash
  <1>4. CASE GetBalanceFails(w)
    <2>1. /\ j.pc = "get" /\ j.at \notin Configured /\ Goto(w, NextVenue(j))
          /\ UNCHANGED <<cash, funds>>
      BY <1>4 DEF GetBalanceFails, AfterRefusal, bookVars, venueVars
    <2>2. ~ClearBusy(w) /\ ~WorkingEnd(w)
      BY <2>1 DEF ClearBusy, WorkingEnd
    <2>3. JobKnowsCash(job[w])'
      BY <1>0, <1>2, <2>1
    <2> QED
      BY <1>1, <2>2, <2>3, RunningKnowsCash
  <1>5. CASE SetBalance(w)
    <2>1. /\ j.pc = "set" /\ Goto(w, NextVenue(j)) /\ UNCHANGED funds
          /\ cash' = [cash EXCEPT ![j.at] = j.balance]
      BY <1>5 DEF SetBalance, setCash, venueVars
    <2>2. ~ClearBusy(w) /\ ~WorkingEnd(w)
      BY <2>1 DEF ClearBusy, WorkingEnd
    <2>3. cash'[j.at] = funds[j.at] /\ \A v \in Configured : v # j.at => cash'[v] = cash[v]
      BY <1>0, <2>1, ConfiguredAssumption DEF JobKnowsCash
    <2>4. JobKnowsCash(job[w])'
      BY <1>0, <1>2, <2>1, <2>3
    <2> QED
      BY <1>1, <2>2, <2>4, RunningKnowsCash
  <1>6. CASE ClearBusy(w)
    <2>1. /\ j.pc = "clear" /\ Active(w) /\ UNCHANGED <<cash, funds>>
          /\ job'[w].pc = "end" /\ job'[w].at = Kalshi
          /\ \A u \in Workers \ {w} : job'[u] = job[u]
      BY <1>0, <1>6 DEF ClearBusy, Goto, bookVars, venueVars, Active, IdleJob, NewJob
    <2>2. AllCashKnown /\ AllCashKnown'
      BY <1>0, <2>1 DEF JobKnowsCash, AllCashKnown
    <2>3. ASSUME NEW u \in Workers PROVE JobKnowsCash(job[u])'
      <3>1. CASE u = w
        BY <2>1, <3>1 DEF JobKnowsCash, BeforeRefresh
      <3>2. CASE u # w
        BY <2>1, <3>2 DEF CashInv, JobKnowsCash, CashKnown, AllCashKnown
      <3> QED
        BY <3>1, <3>2
    <2> QED
      BY <2>2, <2>3 DEF CashInv, Up
  <1>7. CASE WorkingEnd(w)
    <2>1. /\ j.pc = "end" /\ UNCHANGED <<cash, funds>>
          /\ job'[w].pc = "idle" /\ job'[w].at = Kalshi
          /\ \A u \in Workers \ {w} : job'[u] = job[u]
      BY <1>0, <1>7 DEF WorkingEnd, Goto, bookVars, venueVars, IdleJob, NewJob
    <2>2. \A u \in Workers : Active(u) <=> Active(u)'
      BY <2>1 DEF Active
    <2>3. ASSUME NEW u \in Workers PROVE JobKnowsCash(job[u])'
      <3>1. CASE u = w
        BY <2>1, <3>1 DEF JobKnowsCash, BeforeRefresh
      <3>2. CASE u # w
        BY <2>1, <3>2 DEF CashInv, JobKnowsCash, CashKnown, AllCashKnown
      <3> QED
        BY <3>1, <3>2
    <2> QED
      BY <2>1, <2>2, <2>3 DEF CashInv, Up, AllCashKnown
  <1>8. CASE ~(\/ GetBalance(w) \/ GetBalanceFails(w) \/ SetBalance(w)
               \/ ClearBusy(w) \/ WorkingEnd(w))
    <2>1. /\ j.pc \in BeforeRefresh /\ job'[w].pc \in BeforeRefresh \cup {"get"}
          /\ job'[w].at = Kalshi
      BY <1>0, <1>8, StepBeforeRefresh DEF JobKnowsCash
    <2>2. JobKnowsCash(job[w])'
      BY <2>1, ConfiguredAssumption
         DEF JobKnowsCash, CashKnown, BeforeRefresh, Venues, Kalshi, Polymarket, Gemini
    <2> QED
      BY <1>1, <1>8, <2>2, RunningKnowsCash
  <1> QED
    BY <1>3, <1>4, <1>5, <1>6, <1>7, <1>8

\* A step that starts a job at most: the money does not move.
LEMMA StartingKnowsCash ==
  ASSUME LockInv, CashInv, Up, UNCHANGED <<boot, cash, funds>>,
         \A u \in Workers : \/ job'[u] = job[u]
                            \/ job'[u].pc \in BeforeRefresh /\ job'[u].at = Kalshi
                               /\ ~Active(u)
  PROVE  CashInv'
  <1>1. ASSUME NEW u \in Workers PROVE JobKnowsCash(job[u])'
    <2>1. CASE job'[u] = job[u]
      BY <2>1 DEF CashInv, JobKnowsCash, CashKnown, AllCashKnown
    <2>2. CASE job'[u].pc \in BeforeRefresh /\ job'[u].at = Kalshi
      BY <2>2 DEF JobKnowsCash, BeforeRefresh
    <2> QED
      BY <2>1, <2>2
  <1>2. \A u \in Workers : ~Active(u)' => ~Active(u)
    BY DEF Active, BeforeRefresh
  <1> QED
    BY <1>1, <1>2 DEF CashInv, Up, AllCashKnown

LEMMA NextCash ==
  ASSUME ~RefreshFails, LockInv, CashInv, NoOverlap, Up, UNCHANGED boot, [Next]_vars
  PROVE  CashInv'
  <1>1. ASSUME UNCHANGED <<job, cash, funds>> PROVE CashInv'
    BY <1>1, StartingKnowsCash
  <1>2. ASSUME NEW w \in Workers, NEW k, Spawn(w, k), k.pc \in BeforeRefresh, k.at = Kalshi,
               UNCHANGED <<cash, funds>>
        PROVE  CashInv'
    BY <1>2, StartingKnowsCash DEF Spawn, LockInv, Shape, Active
  <1>3. ASSUME NEW t \in Feeds, Dispatch(t) PROVE CashInv'
    <2>1. CASE TryBusyInFlight(t) \/ TryBusyPair(t) \/ ReserveFails(t)
      BY <1>1, <2>1 DEF TryBusyInFlight, TryBusyPair, ReserveFails, bookVars, venueVars
    <2>2. ASSUME NEW w \in Workers, TryBusyFlatten(t, w) \/ Reserve(t, w) PROVE CashInv'
      BY <1>2, <2>2 DEF TryBusyFlatten, Reserve, FlattenJob, PairJob, NewJob, BeforeRefresh,
                        bookVars, venueVars
    <2> QED
      BY <1>3, <2>1, <2>2 DEF Dispatch
  <1>4. ASSUME NEW t \in Feeds, Tick(t) PROVE UNCHANGED <<job, cash, funds>>
    BY <1>4 DEF Tick, FlattenTick, PairTick, Attempt, bookVars, venueVars
  <1> QED
    BY <1>1, <1>3, <1>4, JobStepCash
       DEF Next, QuietTick, Stop, Expire, vars, bookVars, venueVars

\* Before it trades, a process has asked the venues before the one it asks next.
LEMMA LoadingKnowsCash ==
  ASSUME Resting',
         boot'.pc = "cash" => CashKnown(boot.at)',
         boot'.pc = "up" => AllCashKnown'
  PROVE  CashInv'
  <1>1. \A w \in Workers : job'[w].pc = "idle" /\ job'[w].at = Kalshi
    BY DEF Resting, IdleJob, NewJob
  <1>2. \A w \in Workers : JobKnowsCash(job[w])'
    BY <1>1 DEF JobKnowsCash, BeforeRefresh
  <1> QED
    BY <1>2 DEF CashInv, Up

LEMMA BootCash ==
  ASSUME ~RefreshFails, ProcessInv, CashInv, Boot
  PROVE  CashInv'
  <1> DEFINE n == boot.at
  <1>0. /\ Loading /\ n \in Venues /\ boot \in BootState /\ cash \in [Venues -> Int]
        /\ UNCHANGED <<job, feed, busy, funds>>
    BY DEF ProcessInv, Boot, LoadLots, LotsUnavailable, FirstCash, CashUnavailable, Up,
           BootState, Loading, PortfolioTypeOK, vars, bookVars, gateVars, venueVars
  <1>1. Resting'
    BY <1>0 DEF Loading, Resting
  <1>2. CASE LoadLots \/ LotsUnavailable
    <2>1. boot'.pc = "cash" => boot'.at = Kalshi
      BY <1>2 DEF LoadLots, LotsUnavailable, NextStage
    <2>2. boot'.pc # "up"
      BY <1>2 DEF LoadLots, LotsUnavailable, NextStage
    <2>3. boot'.pc = "cash" => CashKnown(boot.at)'
      BY <2>1, ConfiguredAssumption DEF CashKnown, Venues, Kalshi, Polymarket, Gemini
    <2> QED
      BY <1>1, <2>2, <2>3, LoadingKnowsCash
  <1>3. CASE FirstCash \/ CashUnavailable
    <2>1. /\ CashKnown(n)
          /\ n \in Configured => cash'[n] = funds[n]
          /\ \A v \in Configured : v # n => cash'[v] = cash[v]
      BY <1>0, <1>3, ConfiguredAssumption
         DEF CashInv, FirstCash, CashUnavailable, setCash, vars, bookVars
    <2>0. n \in Int /\ \A v \in Configured : v \in Int
      BY <1>0, ConfiguredAssumption DEF Venues, Kalshi, Polymarket, Gemini
    <2>2. \A v \in Configured : v < n \/ v = n => cash'[v] = funds'[v]
      BY <1>0, <2>0, <2>1 DEF CashKnown
    <2>3. boot' = IF n = Gemini THEN [pc |-> "up", at |-> Kalshi]
                  ELSE [pc |-> "cash", at |-> n + 1]
      BY <1>3 DEF FirstCash, CashUnavailable, NextStage
    <2>4. CASE n = Gemini
      <3>1. boot'.pc = "up"
        BY <2>3, <2>4
      <3>2. AllCashKnown'
        BY <2>2, <2>4, ConfiguredAssumption
           DEF AllCashKnown, Venues, Kalshi, Polymarket, Gemini
      <3> QED
        BY <1>1, <3>1, <3>2, LoadingKnowsCash
    <2>5. CASE n # Gemini
      <3>1. boot'.pc = "cash" /\ boot'.at = n + 1
        BY <2>3, <2>5
      <3>2. \A v \in Configured : v < n + 1 => cash'[v] = funds'[v]
        <4> SUFFICES ASSUME NEW v \in Configured, v < n + 1 PROVE cash'[v] = funds'[v]
          OBVIOUS
        <4>1. v < n \/ v = n
          BY <2>0
        <4> QED
          BY <2>2, <4>1
      <3>3. CashKnown(boot.at)'
        BY <3>1, <3>2 DEF CashKnown
      <3> QED
        BY <1>1, <3>1, <3>3, LoadingKnowsCash
    <2> QED
      BY <2>4, <2>5
  <1> QED
    BY <1>2, <1>3 DEF Boot

LEMMA ProcessCash ==
  ASSUME ~RefreshFails, ProcessInv, CashInv, NoOverlap, [ProcessNext]_processVars
  PROVE  CashInv'
  <1>1. CASE Crash
    <2>1. Resting' /\ boot'.pc = "lots"
      BY <1>1 DEF Crash, Resting, Start
    <2> QED
      BY <2>1, LoadingKnowsCash
  <1>2. CASE Trades(Next)
    <2>1. LockInv /\ Up /\ UNCHANGED boot /\ [Next]_vars
      BY <1>2 DEF Trades, ProcessInv, LiveInv, bootVars
    <2> QED
      BY <2>1, NextCash
  <1>3. CASE (Stop /\ UNCHANGED bootVars) \/ UNCHANGED processVars
    <2>1. UNCHANGED <<job, cash, funds, boot>>
      BY <1>3 DEF Stop, bootVars, processVars, vars, bookVars, venueVars
    <2>2. \A w \in Workers : JobKnowsCash(job[w])'
      BY <2>1 DEF CashInv, JobKnowsCash, CashKnown, AllCashKnown
    <2> QED
      BY <2>1, <2>2 DEF CashInv, Up, Active, AllCashKnown, CashKnown
  <1> QED
    BY <1>1, <1>2, <1>3, BootCash DEF ProcessNext

(* While jobs do not overlap and balance requests are answered, the cash of the
   book is what the venues hold whenever no job runs, first of all when a
   process starts trading, whatever the last one was doing when it died
   (main.cpp:191, 554; README.md:52). *)
THEOREM IdleCashIsVenueCashHolds ==
  ASSUME ~RefreshFails
  PROVE  ProcessSpec /\ []NoOverlap => []IdleCashIsVenueCash
  <1>1. ProcessInit => CashInv
    <2> SUFFICES ASSUME ProcessInit PROVE CashInv
      OBVIOUS
    <2>1. /\ boot.pc = "lots"
          /\ \A w \in Workers : job[w].pc = "idle" /\ job[w].at = Kalshi
      BY DEF ProcessInit, Start, IdleJob, NewJob
    <2> QED
      BY <2>1 DEF CashInv, Up, JobKnowsCash, BeforeRefresh
  <1>2. ProcessInv /\ CashInv /\ NoOverlap /\ [ProcessNext]_processVars => CashInv'
    BY ProcessCash
  <1>3. ProcessInv /\ [ProcessNext]_processVars => ProcessInv'
    BY ProcessInvNext
  <1>4. ProcessInit => ProcessInv
    BY ProcessInitOK
  <1>5. CashInv => IdleCashIsVenueCash
    BY DEF CashInv, AllCashKnown, IdleCashIsVenueCash
  <1> QED
    BY <1>1, <1>2, <1>3, <1>4, <1>5, PTL DEF ProcessSpec

=============================================================================
