------------------------------ MODULE FitLoop ------------------------------
(***************************************************************************)
(* The two rounding loops of fitSize (risk.hpp), one iteration per step,   *)
(* for one pair of legs.  It starts from the estimate cap / cost(1), walks *)
(* down while the cost is over the cap and then up while one more contract *)
(* still fits.  Fees are rounded per order, so cost(n) is not n * cost(1)  *)
(* and neither walk alone is enough.                                       *)
(***************************************************************************)
EXTENDS Pricing

CONSTANTS Quotes,   \* the pairs of legs to size: records [yes, no] of legs
          Sizes,    \* proposed sizes
          Caps,     \* caps in cents
          ChaseReserve  \* RiskLimits.chase_reserve

\* strategize proposes no leg at an ask of zero.
ASSUME QuotesAssumption ==
  /\ Quotes \subseteq [yes : Leg, no : Leg]
  /\ \A q \in Quotes : q.yes.price \in Nat \ {0} /\ q.no.price \in Nat \ {0}
  /\ Sizes \subseteq Int
  /\ Caps \subseteq Int
  /\ ChaseReserve \in Nat

VARIABLES quote, size, cap,  \* the arguments of the call
          n,                 \* the loop variable
          phase              \* "down", "up" or "done"

vars == <<quote, size, cap, n, phase>>

Cost(k) == pairCost(quote.yes, quote.no, k)

TypeOK ==
  /\ quote \in Quotes /\ size \in Sizes /\ cap \in Caps
  /\ n \in Nat /\ n <= (IF size < 0 THEN 0 ELSE size)
  /\ phase \in {"down", "up", "done"}

\* Lines up to the first loop: the early return, then the estimate.
Init ==
  /\ quote \in Quotes /\ size \in Sizes /\ cap \in Caps
  /\ IF size < 1 \/ cap <= 0
     THEN n = 0 /\ phase = "done"
     ELSE n = fitEstimate(size, cap, Cost(1)) /\ phase = "down"

OneTooMany == n >= 1 /\ Cost(n) > cap

StepDown ==
  /\ phase = "down"
  /\ OneTooMany
  /\ n' = n - 1
  /\ UNCHANGED <<quote, size, cap, phase>>

StartUp ==
  /\ phase = "down"
  /\ ~OneTooMany
  /\ phase' = "up"
  /\ UNCHANGED <<quote, size, cap, n>>

\* The upward loop without its size bound.
RoomUnbounded == n <= size /\ Cost(n + 1) <= cap

\* No upward loop at all: the estimate is taken as good enough.
NoUpwardLoop == FALSE

RoomForOneMore == n < size /\ Cost(n + 1) <= cap

StepUpWithoutIncrement ==
  /\ phase = "up"
  /\ RoomForOneMore
  /\ n' = n
  /\ UNCHANGED <<quote, size, cap, phase>>

StepUp ==
  /\ phase = "up"
  /\ RoomForOneMore
  /\ n' = n + 1
  /\ UNCHANGED <<quote, size, cap, phase>>

Return ==
  /\ phase = "up"
  /\ ~RoomForOneMore
  /\ phase' = "done"
  /\ UNCHANGED <<quote, size, cap, n>>

Terminated == phase = "done" /\ UNCHANGED vars

Next == StepDown \/ StartUp \/ StepUp \/ Return \/ Terminated

Spec == Init /\ [][Next]_vars /\ WF_vars(Next)

-----------------------------------------------------------------------------
(* The size that is returned is the largest one, between 0 and the proposed
   size, whose whole cost fits the cap: the loops neither overspend the cap
   nor leave contracts behind because of how fees are rounded. *)
ReturnsLargestFit ==
  phase = "done" =>
    /\ n \in 0..(IF size < 0 THEN 0 ELSE size)
    /\ n >= 1 => Cost(n) <= cap
    /\ \A k \in (n + 1)..size : Cost(k) > cap

(* The closed form the risk model uses, fitSize over the costs of the pair, is
   what the loops return. *)
LoopsReturnFitSize == phase = "done" => n = fitPair(size, cap, quote.yes, quote.no)

(* Both loops end, whatever the rounding of the fees. *)
Terminates == <>(phase = "done")

(* The chase is priced with one-contract fees but the order goes out at the
   fitted size, and nothing re-checks the edge after a bump.  With at least a
   cent of chase reserve the pair still costs no more than it pays out, at
   every size: the other leg at the quoted price, the chased one as far up
   as chaseCeiling lets sendSide take it. *)
ChasedPairBreaksEven ==
  phase = "done" /\ n >= 1 =>
    LET top    == chaseCeiling(quote.yes.price, quote.yes.venue, quote.no.venue, ChaseReserve)
        chased == [quote.no EXCEPT !.price = top]
    IN  top >= 1 => pairCost(quote.yes, chased, n) <= n * kDollarCents
=============================================================================
