----------------------------- MODULE Positions -----------------------------
(***************************************************************************)
(* The position of a market (portfolio.hpp): per side the contracts held,  *)
(* their average cost and the venue they were last bought on; what a fill  *)
(* makes of it, and the order that sells its leftover (main.cpp:144).      *)
(* PortfolioManager keeps one position per market, under its lock.         *)
(*                                                                         *)
(* A fill is [venue, side, size, price, buy].                              *)
(***************************************************************************)
EXTENDS Risk

Position == [count : [Sides -> Nat], avg : [Sides -> Nat],
             venue : [Sides -> Venues \cup {NoVenue}]]

EmptyPosition == [count |-> [s \in Sides |-> 0], avg |-> [s \in Sides |-> 0],
                  venue |-> [s \in Sides |-> NoVenue]]

surplus(position) == position.count[YesSided] - position.count[NoSided]
Balanced(position) == surplus(position) = 0

\* A blend that overwrites the count.
blendLotOverwrites(position, side, venue, add, price) ==
  [position EXCEPT !.count[side] = add, !.avg[side] = price, !.venue[side] = venue]

\* blendLot: add contracts to one side, averaging the price to the nearest cent.
blendLot(position, side, venue, add, price) ==
  LET total == position.count[side] + add
      worth == position.count[side] * position.avg[side] + add * price
  IN  [position EXCEPT !.count[side] = total,
                       !.avg[side]   = (worth + total \div 2) \div total,
                       !.venue[side] = venue]

fillFee(f) == takerFee(f.venue, f.price, f.size)

\* A sell that takes what it asks for.
soldSizeUncut(position, f) == f.size

\* A sell never takes more than the book holds.
soldSize(position, f) ==
  IF f.size > position.count[f.side] THEN position.count[f.side] ELSE f.size

sellLot(position, side, n) ==
  LET left == position.count[side] - n
  IN  [position EXCEPT !.count[side] = left,
                       !.avg[side]   = IF left = 0 THEN 0 ELSE @,
                       !.venue[side] = IF left = 0 THEN NoVenue ELSE @]

\* Closing NO on Kalshi buys YES, so it spends the price instead of earning it.
sellProceeds(f, n) ==
  IF f.venue = Kalshi /\ f.side = NoSided THEN -(n * f.price + fillFee(f))
  ELSE n * f.price - fillFee(f)

\* surplusSellIntent: sell the excess of the larger side at one cent, on the
\* venue that side was last bought on.
kFlattenPrice == 1
surplusSide(position) == IF surplus(position) > 0 THEN YesSided ELSE NoSided
surplusSellIntent(position) ==
  LET s == surplusSide(position)
  IN  [venue |-> position.venue[s], side |-> s, buy |-> FALSE,
       size  |-> IF surplus(position) > 0 THEN surplus(position) ELSE -surplus(position),
       price |-> kFlattenPrice]
=============================================================================
