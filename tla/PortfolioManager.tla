-------------------------- MODULE PortfolioManager --------------------------
(***************************************************************************)
(* PortfolioManager (portfolio.hpp): cash, exposure and reserved cents per *)
(* venue and one position per registered market, behind one mutex.  Every  *)
(* public method is atomic (it holds mtx_), so each is one action here;    *)
(* the modules that extend this one compose them.                          *)
(*                                                                         *)
(* A fill is [venue, side, size, price, buy]; the market is passed along.  *)
(***************************************************************************)
EXTENDS Positions

CONSTANT Markets   \* the registered markets

VARIABLES cash, exposure, reserved, pos

bookVars == <<cash, exposure, reserved, pos>>

PortfolioTypeOK ==
  /\ cash \in [Venues -> Int]
  /\ exposure \in [Venues -> Int]
  /\ reserved \in [Venues -> Nat]
  /\ pos \in [Markets -> Position]

\* getPortfolio: a copy of the whole book, taken under the lock.
getPortfolio == [cash |-> cash, exposure |-> exposure, reserved |-> reserved, pos |-> pos]

-----------------------------------------------------------------------------
(* Reservations *)

\* reserved after one venue is asked to set aside, or give back, an amount.
setAside(res, v, amount) == IF amount <= 0 THEN res ELSE [res EXCEPT ![v] = @ + amount]
giveBack(res, v, amount) ==
  IF amount <= 0 THEN res
  ELSE [res EXCEPT ![v] = IF @ - amount < 0 THEN 0 ELSE @ - amount]

canSetAside(v, amount) == amount <= 0 \/ cash[v] - reserved[v] >= amount

\* tryReserveTwo: both amounts or neither.  When the second one does not fit
\* the first is given back before the lock is released.
canReserveTwo(va, a, vb, b) ==
  IF va = vb THEN canSetAside(va, a + b) ELSE canSetAside(va, a) /\ canSetAside(vb, b)

reserveTwo(va, a, vb, b) ==
  reserved' = IF va = vb THEN setAside(reserved, va, a + b)
              ELSE setAside(setAside(reserved, va, a), vb, b)

releaseReserveTwo(va, a, vb, b) ==
  reserved' = IF va = vb THEN giveBack(reserved, va, a + b)
              ELSE giveBack(giveBack(reserved, va, a), vb, b)

reserve_pair(yes, no) ==
  reserveTwo(yes.venue, legCost(yes, yes.size), no.venue, legCost(no, no.size))
canReservePair(yes, no) ==
  canReserveTwo(yes.venue, legCost(yes, yes.size), no.venue, legCost(no, no.size))
release_pair(yes, no) ==
  releaseReserveTwo(yes.venue, legCost(yes, yes.size), no.venue, legCost(no, no.size))

-----------------------------------------------------------------------------
(* Fills *)

\* updatePortfolio returns Applied exactly for these fills.
fillApplies(market, f) ==
  f.size > 0 /\ (f.buy \/ soldSize(pos[market], f) >= 1)

applyBuy(market, f) ==
  LET spent == f.size * f.price + fillFee(f)
  IN  /\ pos' = [pos EXCEPT ![market] = blendLot(@, f.side, f.venue, f.size, f.price)]
      /\ cash' = [cash EXCEPT ![f.venue] = @ - spent]
      /\ exposure' = [exposure EXCEPT ![f.venue] = @ + spent]

applySell(market, f) ==
  LET n == soldSize(pos[market], f)
  IN  /\ pos' = [pos EXCEPT ![market] = sellLot(@, f.side, n)]
      /\ cash' = [cash EXCEPT ![f.venue] = @ + sellProceeds(f, n)]
      /\ exposure' = [exposure EXCEPT ![f.venue] = @ - n * pos[market].avg[f.side]]

updatePortfolio(market, f) ==
  /\ IF ~fillApplies(market, f) THEN UNCHANGED <<cash, exposure, pos>>
     ELSE IF f.buy THEN applyBuy(market, f) ELSE applySell(market, f)
  /\ UNCHANGED reserved

-----------------------------------------------------------------------------
(* setKalshiCash, setPolymarketCash, setGeminiCash *)
setCash(v, amount) == cash' = [cash EXCEPT ![v] = amount]
=============================================================================
