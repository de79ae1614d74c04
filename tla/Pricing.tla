------------------------------ MODULE Pricing ------------------------------
(***************************************************************************)
(* Money and fees: the integer-cent arithmetic every other part of the     *)
(* engine is built from (money.hpp, the fee schedule of strategy.hpp and   *)
(* the leg, chase and fit-to-cap helpers of risk.hpp).  All prices, costs  *)
(* and amounts are integer cents; a contract pays kDollarCents.            *)
(*                                                                         *)
(* A leg is the part of OrderIntent the arithmetic reads: the venue, the   *)
(* side, whether it buys, its size and its limit price.                    *)
(***************************************************************************)
EXTENDS Integers, FiniteSetsExt

\* The numbers market_data.hpp gives to venues and sides.  Strategy scans
\* the venues in this order, so a tie goes to the smaller number.
Kalshi     == 1
Polymarket == 2
Gemini     == 3
NoVenue    == 0
Venues     == {Kalshi, Polymarket, Gemini}

NoSided  == 1
YesSided == 2
Sides    == {NoSided, YesSided}

OtherSide(side) == IF side = YesSided THEN NoSided ELSE YesSided

kDollarCents == 100

\* Prices a leg can be limited at or filled at.
Prices == 1..99

\* Also the shape of a Fill: what was executed instead of what is wanted.
Leg == [venue : Venues \cup {NoVenue}, side : Sides, buy : BOOLEAN, size : Nat, price : Int]

clampPriceCents(p) == IF p < 1 THEN 1 ELSE IF p > 99 THEN 99 ELSE p

complementCents(px) == IF px <= 0 THEN 0 ELSE kDollarCents - px

\* C++ integer division rounds toward zero.
truncDiv(a, b) == IF a >= 0 THEN a \div b ELSE -((-a) \div b)

\* Kalshi rounds its fee up to a cent, the other two to the nearest cent.
takerFee(venue, price, n) ==
  LET p == clampPriceCents(price)
  IN  CASE n < 1               -> 0
        [] n >= 1 /\ venue = Kalshi     -> (7 * n * p * (100 - p) + 9999) \div 10000
        [] n >= 1 /\ venue = Polymarket -> (6 * n * p * (100 - p) + 5000) \div 10000
        [] n >= 1 /\ venue = Gemini     ->
             (5 * n * (IF p < 100 - p THEN p ELSE 100 - p) + 50) \div 100
        [] OTHER -> 0

legCost(leg, n) == n * leg.price + takerFee(leg.venue, leg.price, n)

nextChasePrice(price) == price + 1

\* An edge that forgets the fee of the leg being chased.
edgeWithoutChaseFee(price, venue, otherPrice, otherVenue) ==
  kDollarCents - price - otherPrice - takerFee(otherVenue, otherPrice, 1)

\* The edge left, in cents, by one contract of each leg after fees.
edgeAt(price, venue, otherPrice, otherVenue) ==
  kDollarCents - price - takerFee(venue, price, 1)
               - otherPrice - takerFee(otherVenue, otherPrice, 1)

\* chaseCeiling: the last price at which the chased leg still leaves `keep`
\* cents of edge next to the other leg; 0 when there is none.
chaseCeiling(otherPrice, otherVenue, venue, keep) ==
  LET keeps(c) == edgeAt(c, venue, otherPrice, otherVenue) >= keep
  IN  CHOOSE c \in 0..99 : (c = 0 \/ keeps(c)) /\ \A d \in (c + 1)..99 : ~keeps(d)

canBumpChase(price, ceiling) == nextChasePrice(price) <= ceiling

pairCost(yes, no, n) == legCost(yes, n) + legCost(no, n)

pairProfitableAtSize(yes, no, n) ==
  n >= 1 /\ pairCost(yes, no, n) < n * kDollarCents

(***************************************************************************)
(* fitSize: the number of contracts, at most `size`, whose cost stays      *)
(* within `cap`.  The code starts from the estimate cap / cost(1), walks   *)
(* down to the first size that fits, then up while the next one still      *)
(* fits; the two sets below are where the two walks stop (FitLoop.tla      *)
(* takes the walks one step at a time).                                    *)
(***************************************************************************)
fitEstimate(size, cap, unit) ==
  IF unit > 0 /\ cap \div unit < size THEN cap \div unit ELSE size

legCosts(leg, size)     == [n \in 1..size |-> legCost(leg, n)]
pairCosts(yes, no, size) == [n \in 1..size |-> pairCost(yes, no, n)]

fitSize(size, cap, cost) ==
  IF size < 1 \/ cap <= 0 THEN 0
  ELSE LET est  == fitEstimate(size, cap, cost[1])
           down == Max({0} \cup {n \in 1..est : cost[n] <= cap})
       IN  Max({n \in down..size : \A k \in (down + 1)..n : cost[k] <= cap})

fitLeg(size, cap, leg)      == fitSize(size, cap, legCosts(leg, size))
fitPair(size, cap, yes, no) == fitSize(size, cap, pairCosts(yes, no, size))
=============================================================================
