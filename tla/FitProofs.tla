------------------------------ MODULE FitProofs ------------------------------
(***************************************************************************)
(* The rounding loops of fitSize, for every pair of quotes, size and cap.  *)
(***************************************************************************)
EXTENDS FitLoop, PricingProofs

CostOf(q, k) == pairCost(q.yes, q.no, k)

Estimate(q, s, c) == fitEstimate(s, c, CostOf(q, 1))

\* Where the downward walk stops.
DownTo(q, s, c) == Max({0} \cup {k \in 1..Estimate(q, s, c) : CostOf(q, k) <= c})

(* What the walks have seen.  Going down, every size between the loop variable
   and the estimate was over the cap; going up, every size passed since the
   turn was within it. *)
Walks(q, s, c, k, ph) ==
  /\ ph # "done" => s >= 1 /\ c > 0
  /\ ph = "down" => /\ k <= Estimate(q, s, c)
                    /\ \A i \in (k + 1)..Estimate(q, s, c) : CostOf(q, i) > c
  /\ ph = "up" \/ (ph = "done" /\ s >= 1 /\ c > 0) =>
       /\ k >= DownTo(q, s, c)
       /\ k >= 1 => CostOf(q, k) <= c
       /\ \A i \in (DownTo(q, s, c) + 1)..k : CostOf(q, i) <= c
  /\ ph = "done" => IF s < 1 \/ c <= 0 THEN k = 0 ELSE k = s \/ CostOf(q, k + 1) > c

FitInv == TypeOK /\ Walks(quote, size, cap, n, phase)

LEMMA CostOfType ==
  ASSUME NEW q \in Quotes, NEW k \in Int
  PROVE  CostOf(q, k) \in Int
  BY QuotesAssumption, PairCostType DEF CostOf, Leg

LEMMA CostOfGrows ==
  ASSUME NEW q \in Quotes, NEW k \in Nat, NEW m \in Nat, k <= m
  PROVE  CostOf(q, k) <= CostOf(q, m)
  BY QuotesAssumption, PairCostGrows DEF CostOf

LEMMA CostOfPositive ==
  ASSUME NEW q \in Quotes, NEW k \in Nat, k >= 1
  PROVE  CostOf(q, k) >= 1
  BY QuotesAssumption, PairCostPositive DEF CostOf

LEMMA EstimateType ==
  ASSUME NEW q \in Quotes, NEW s \in Int, NEW c \in Int, s >= 1, c > 0
  PROVE  Estimate(q, s, c) \in 0..s
  <1>1. CostOf(q, 1) \in Int
    BY CostOfType
  <1> QED
    BY <1>1 DEF Estimate, fitEstimate

LEMMA DownToIs ==
  ASSUME NEW q \in Quotes, NEW s \in Int, NEW c \in Int, s >= 1, c > 0
  PROVE  /\ DownTo(q, s, c) \in 0..Estimate(q, s, c)
         /\ DownTo(q, s, c) >= 1 => CostOf(q, DownTo(q, s, c)) <= c
         /\ \A k \in 1..Estimate(q, s, c) : CostOf(q, k) <= c => k <= DownTo(q, s, c)
  <1> DEFINE est == Estimate(q, s, c)
             S == {0} \cup {k \in 1..est : CostOf(q, k) <= c}
  <1>1. est \in 0..s
    BY EstimateType
  <1> HIDE DEF est
  <1>2. Max(S) \in S /\ \A k \in S : k <= Max(S)
    <2>1. S \in SUBSET (0..est) /\ S # {} /\ 0 \in Int /\ est \in Int
      BY <1>1
    <2> HIDE DEF S
    <2> QED
      BY <2>1, MaxOfInterval, Zenon
  <1>3. DownTo(q, s, c) = Max(S)
    BY DEF DownTo, est
  <1> QED
    BY <1>1, <1>2, <1>3 DEF est

LEMMA FitInvInit == Init => FitInv
  <1> SUFFICES ASSUME Init PROVE FitInv
    OBVIOUS
  <1>1. quote \in Quotes /\ size \in Int /\ cap \in Int
    BY QuotesAssumption DEF Init
  <1>2. CASE size < 1 \/ cap <= 0
    BY <1>1, <1>2 DEF Init, FitInv, TypeOK, Walks
  <1>3. CASE ~(size < 1 \/ cap <= 0)
    <2>1. n = Estimate(quote, size, cap) /\ phase = "down"
      BY <1>3 DEF Init, Cost, CostOf, Estimate
    <2>2. n \in 0..size
      BY <1>1, <1>3, <2>1, EstimateType
    <2> QED
      BY <1>1, <1>3, <2>1, <2>2 DEF Init, FitInv, TypeOK, Walks
  <1> QED
    BY <1>2, <1>3

LEMMA FitInvNext == FitInv /\ [Next]_vars => FitInv'
  <1> SUFFICES ASSUME FitInv, [Next]_vars PROVE FitInv'
    OBVIOUS
  <1> USE DEF FitInv
  <1>0. /\ quote \in Quotes /\ size \in Int /\ cap \in Int /\ n \in Nat
        /\ \A k \in Int : CostOf(quote, k) \in Int
        /\ \A k : Cost(k) = CostOf(quote, k)
    BY QuotesAssumption, CostOfType DEF TypeOK, Cost, CostOf
  <1>d. ASSUME size >= 1, cap > 0
        PROVE  /\ Estimate(quote, size, cap) \in 0..size
               /\ DownTo(quote, size, cap) \in 0..Estimate(quote, size, cap)
               /\ DownTo(quote, size, cap) >= 1
                    => CostOf(quote, DownTo(quote, size, cap)) <= cap
               /\ \A k \in 1..Estimate(quote, size, cap) :
                    CostOf(quote, k) <= cap => k <= DownTo(quote, size, cap)
    BY <1>0, <1>d, EstimateType, DownToIs
  <1>1. CASE StepDown
    <2>1. /\ phase = "down" /\ n >= 1 /\ CostOf(quote, n) > cap /\ n' = n - 1
          /\ UNCHANGED <<quote, size, cap, phase>>
      BY <1>0, <1>1 DEF StepDown, OneTooMany
    <2>2. \A i \in ((n - 1) + 1)..Estimate(quote, size, cap) : CostOf(quote, i) > cap
      BY <1>0, <1>d, <2>1 DEF Walks
    <2> QED
      BY <1>0, <1>d, <2>1, <2>2 DEF TypeOK, Walks
  <1>2. CASE StartUp
    <2>1. /\ phase = "down" /\ ~(n >= 1 /\ CostOf(quote, n) > cap) /\ phase' = "up"
          /\ UNCHANGED <<quote, size, cap, n>> /\ size >= 1 /\ cap > 0
      BY <1>0, <1>2 DEF StartUp, OneTooMany, Walks
    <2>2. n <= Estimate(quote, size, cap) /\ n = DownTo(quote, size, cap)
      BY <1>0, <1>d, <2>1 DEF Walks
    <2> QED
      BY <1>0, <1>d, <2>1, <2>2 DEF TypeOK, Walks
  <1>3. CASE StepUp
    <2>1. /\ phase = "up" /\ n < size /\ CostOf(quote, n + 1) <= cap /\ n' = n + 1
          /\ UNCHANGED <<quote, size, cap, phase>> /\ size >= 1 /\ cap > 0
      BY <1>0, <1>3 DEF StepUp, RoomForOneMore, Walks
    <2>2. \A i \in (DownTo(quote, size, cap) + 1)..(n + 1) : CostOf(quote, i) <= cap
      BY <1>0, <1>d, <2>1 DEF Walks
    <2> QED
      BY <1>0, <1>d, <2>1, <2>2 DEF TypeOK, Walks
  <1>4. CASE Return
    <2>1. /\ phase = "up" /\ ~(n < size /\ CostOf(quote, n + 1) <= cap) /\ phase' = "done"
          /\ UNCHANGED <<quote, size, cap, n>> /\ size >= 1 /\ cap > 0
      BY <1>0, <1>4 DEF Return, RoomForOneMore, Walks
    <2> QED
      BY <1>0, <1>d, <2>1 DEF TypeOK, Walks
  <1>5. CASE UNCHANGED vars
    BY <1>5 DEF vars, TypeOK, Walks
  <1> QED
    BY <1>1, <1>2, <1>3, <1>4, <1>5 DEF Next, Terminated

THEOREM FitInvHolds == Spec => []FitInv
  BY FitInvInit, FitInvNext, PTL DEF Spec

(* The closed form the risk model uses, fitSize over the costs of the pair, is
   what the two loops return (risk.hpp:118-131). *)
THEOREM LoopsReturnFitSizeHolds == Spec => []LoopsReturnFitSize
  <1>1. FitInv => LoopsReturnFitSize
    <2> SUFFICES ASSUME FitInv, phase = "done"
                 PROVE  n = fitPair(size, cap, quote.yes, quote.no)
      BY DEF LoopsReturnFitSize
    <2> DEFINE cost == pairCosts(quote.yes, quote.no, size)
               down == DownTo(quote, size, cap)
    <2>0. quote \in Quotes /\ size \in Int /\ cap \in Int /\ n \in Nat /\ Walks(quote, size, cap, n, phase)
      BY QuotesAssumption DEF FitInv, TypeOK
    <2>1. CASE size < 1 \/ cap <= 0
      BY <2>0, <2>1 DEF Walks, fitPair, fitSize
    <2>2. CASE ~(size < 1 \/ cap <= 0)
      <3>1. Estimate(quote, size, cap) \in 0..size /\ down \in 0..Estimate(quote, size, cap)
        BY <2>0, <2>2, EstimateType, DownToIs
      <3>2. \A k \in 1..size : cost[k] = CostOf(quote, k)
        BY DEF pairCosts, CostOf
      <3>3. cost[1] = CostOf(quote, 1)
        BY <2>0, <2>2, <3>2
      <3> DEFINE est == fitEstimate(size, cap, cost[1])
                 D == {0} \cup {k \in 1..est : cost[k] <= cap}
                 U == {i \in Max(D)..size : \A k \in (Max(D) + 1)..i : cost[k] <= cap}
      <3>4. est = Estimate(quote, size, cap)
        BY <3>3 DEF Estimate
      <3>5. Max(D) = down
        <4>1. D = {0} \cup {k \in 1..Estimate(quote, size, cap) : CostOf(quote, k) <= cap}
          BY <2>0, <3>1, <3>2, <3>4
        <4> QED
          BY <4>1 DEF DownTo
      <3>6. fitPair(size, cap, quote.yes, quote.no) = Max(U)
        BY <2>2 DEF fitPair, fitSize
      <3> HIDE DEF cost, D, est
      <3>7. U = {i \in down..size : \A k \in (down + 1)..i : cost[k] <= cap}
        BY <3>5
      <3> HIDE DEF U, down
      <3>8. n \in down..size /\ \A k \in (down + 1)..n : CostOf(quote, k) <= cap
        BY <2>0, <2>2, <3>1 DEF Walks, FitInv, TypeOK, down
      <3>9. n \in U
        BY <2>0, <3>1, <3>2, <3>7, <3>8
      <3>10. \A i \in U : i <= n
        <4> SUFFICES ASSUME NEW i \in U, i > n PROVE FALSE
          BY <2>0, <3>1, <3>7
        <4>1. i \in Int /\ i <= size /\ n + 1 \in (down + 1)..i /\ n + 1 \in 1..size
          BY <2>0, <3>1, <3>7, <3>8
        <4>2. CostOf(quote, n + 1) <= cap
          BY <3>2, <3>7, <4>1
        <4>3. CostOf(quote, n + 1) > cap
          BY <2>0, <2>2, <4>1 DEF Walks
        <4>4. CostOf(quote, n + 1) \in Int
          BY <2>0, CostOfType
        <4> QED
          BY <2>0, <4>2, <4>3, <4>4
      <3>11. Max(U) = n
        <4>1. U \in SUBSET (down..size) /\ U # {} /\ down \in Int
          BY <3>1, <3>7, <3>9
        <4>2. Max(U) \in U /\ \A x \in U : x <= Max(U)
          BY <2>0, <4>1, MaxOfInterval, Zenon
        <4>3. Max(U) \in down..size
          BY <4>1, <4>2, Zenon
        <4> QED
          BY <2>0, <3>9, <3>10, <4>1, <4>2, <4>3
      <3> QED
        BY <3>6, <3>11
    <2> QED
      BY <2>1, <2>2
  <1> QED
    BY <1>1, FitInvHolds, PTL

(* The loop variable stays between zero and the proposed size: neither walk
   runs past its end. *)
THEOREM FitTyped == Spec => []TypeOK
  <1>1. FitInv => TypeOK
    BY DEF FitInv
  <1> QED
    BY <1>1, FitInvHolds, PTL

(* The size that is returned fits the cap and the next ones do not, so it is
   the largest that fits: the walks start anywhere, but one more contract
   never costs less (risk.hpp:118-131). *)
THEOREM ReturnsLargestFitHolds == Spec => []ReturnsLargestFit
  <1>1. FitInv => ReturnsLargestFit
    <2> SUFFICES ASSUME FitInv, phase = "done"
                 PROVE  /\ n \in 0..(IF size < 0 THEN 0 ELSE size)
                        /\ n >= 1 => Cost(n) <= cap
                        /\ \A k \in (n + 1)..size : Cost(k) > cap
      BY DEF ReturnsLargestFit
    <2>0. /\ quote \in Quotes /\ size \in Int /\ cap \in Int /\ n \in Nat
          /\ n <= (IF size < 0 THEN 0 ELSE size)
          /\ \A k : Cost(k) = CostOf(quote, k)
      BY QuotesAssumption DEF FitInv, TypeOK, Cost, CostOf
    <2>1. n >= 1 => Cost(n) <= cap
      BY <2>0 DEF FitInv, Walks
    <2>2. ASSUME NEW k \in (n + 1)..size
          PROVE  Cost(k) > cap
      <3>1. k \in Int /\ k >= n + 1 /\ k <= size
        BY <2>0, <2>2
      <3>2. size >= 1 /\ n # size
        BY <2>0, <3>1
      <3>3. CASE cap <= 0
        \* Nothing fits, and nothing is free.
        <4>1. CostOf(quote, k) >= 1
          BY <2>0, <3>1, CostOfPositive
        <4> QED
          BY <2>0, <3>3, <4>1, CostOfType
      <3>4. CASE cap > 0
        <4>1. CostOf(quote, n + 1) > cap
          BY <2>0, <3>2, <3>4 DEF FitInv, Walks
        <4>2. CostOf(quote, n + 1) <= CostOf(quote, k)
          BY <2>0, <3>1, CostOfGrows
        <4>3. CostOf(quote, n + 1) \in Int /\ CostOf(quote, k) \in Int
          BY <2>0, <3>1, CostOfType
        <4> QED
          BY <2>0, <4>1, <4>2, <4>3
      <3> QED
        BY <2>0, <3>3, <3>4
    <2>3. n \in 0..(IF size < 0 THEN 0 ELSE size)
      BY <2>0
    <2> QED
      BY <2>1, <2>2, <2>3
  <1> QED
    BY <1>1, FitInvHolds, PTL

(* The chase is priced with one-contract fees and sent at the fitted size, and
   nothing re-checks the edge after a bump: with a cent of chase reserve the
   pair still costs no more than it pays out, since rounding the fee of n
   contracts at once instead of n times costs at most half a cent a contract
   and leg (risk.hpp:96-103, strategy.hpp's fee schedule). *)
THEOREM ChasedPairBreaksEvenHolds ==
  ASSUME ChaseReserve >= 1
  PROVE  Spec => []ChasedPairBreaksEven
  <1> DEFINE top == chaseCeiling(quote.yes.price, quote.yes.venue, quote.no.venue, ChaseReserve)
             chased == [quote.no EXCEPT !.price = top]
  <1>1. FitInv => ChasedPairBreaksEven
    <2> SUFFICES ASSUME FitInv, n >= 1, top >= 1
                 PROVE  pairCost(quote.yes, chased, n) <= n * kDollarCents
      BY DEF ChasedPairBreaksEven
    <2>1. quote.yes \in Leg /\ quote.no \in Leg /\ n \in Nat /\ ChaseReserve \in Nat
      BY QuotesAssumption DEF FitInv, TypeOK
    <2>2. quote.yes.price \in Int
      BY <2>1 DEF Leg
    <2>3. top \in 0..99 /\ edgeAt(top, quote.no.venue, quote.yes.price, quote.yes.venue) >= ChaseReserve
      <3> HIDE DEF top
      <3>1. top \in 0..99 /\ (top = 0 \/ edgeAt(top, quote.no.venue, quote.yes.price, quote.yes.venue)
                                           >= ChaseReserve)
        BY <2>1, <2>2, CeilingIs DEF top
      <3> QED
        BY <3>1
    <2>4. chased.price = top /\ chased.venue = quote.no.venue
      BY <2>1 DEF Leg
    <2> HIDE DEF top, chased
    <2>5. edgeAt(chased.price, chased.venue, quote.yes.price, quote.yes.venue) >= 1
      <3>1. edgeAt(top, quote.no.venue, quote.yes.price, quote.yes.venue) \in Int
        BY <2>2, <2>3, TakerFeeType DEF edgeAt, kDollarCents
      <3> QED
        BY <2>1, <2>3, <2>4, <3>1
    <2>6. chased.price \in Int
      BY <2>3, <2>4
    <2> QED
      BY <2>1, <2>2, <2>5, <2>6, EdgeAtEverySize
  <1> QED
    BY <1>1, FitInvHolds, PTL
=============================================================================
