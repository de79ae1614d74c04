------------------------------ MODULE Strategy ------------------------------
(***************************************************************************)
(* Strategy::strategize (strategy.hpp): the cheapest yes ask and the       *)
(* cheapest no ask over the three venues, proposed together when the pair, *)
(* with one-contract fees, costs less than it pays.                        *)
(*                                                                         *)
(* A view is what the strategy reads of a Market: for each venue whether   *)
(* the market is listed there (a non-zero venue id), and for each side the *)
(* best ask and the size shown at it.                                      *)
(***************************************************************************)
EXTENDS Pricing

kBookTakePct == 70

View == [Venues -> [listed : BOOLEAN,
                    ask    : [Sides -> 0..kDollarCents],
                    depth  : [Sides -> Nat]]]

Quoted(view, side) ==
  {v \in Venues : view[v].listed /\ view[v].ask[side] # 0 /\ view[v].depth[side] >= 1}

\* The first venue, in the order Kalshi, Polymarket, Gemini, with the lowest ask.
CheapestVenue(view, side) ==
  CHOOSE v \in Quoted(view, side) :
    \A u \in Quoted(view, side) :
      \/ view[v].ask[side] < view[u].ask[side]
      \/ view[v].ask[side] = view[u].ask[side] /\ v <= u

BuyLeg(view, side, size) ==
  LET v == CheapestVenue(view, side)
  IN  [venue |-> v, side |-> side, buy |-> TRUE, size |-> size, price |-> view[v].ask[side]]

\* No leg: the blank intent strategize starts from.
NoLeg(side) == [venue |-> NoVenue, side |-> side, buy |-> FALSE, size |-> 0, price |-> 0]
NoIdea == [s \in Sides |-> NoLeg(s)]

\* 70 % of the thinner of the two best asks.
ProposedSize(view) ==
  LET depth(s) == view[CheapestVenue(view, s)].depth[s]
      book == IF depth(YesSided) < depth(NoSided) THEN depth(YesSided) ELSE depth(NoSided)
  IN  (book * kBookTakePct) \div 100

\* A pair of legs, one per side; NoIdea when there is nothing to propose.
strategize(view) ==
  IF \E s \in Sides : Quoted(view, s) = {} THEN NoIdea
  ELSE LET pair == [s \in Sides |-> BuyLeg(view, s, ProposedSize(view))]
       IN  IF /\ pairCost(pair[YesSided], pair[NoSided], 1) < kDollarCents
              /\ ProposedSize(view) >= 1
           THEN pair ELSE NoIdea
=============================================================================
