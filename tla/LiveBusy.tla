------------------------------ MODULE LiveBusy ------------------------------
(***************************************************************************)
(* The busy flags (live_busy.hpp): an array of kMax slots behind one       *)
(* mutex.  A market takes a free slot the first time it is acquired and    *)
(* keeps it for good; only the slot's flag goes on and off.                *)
(*                                                                         *)
(* MarketData and the portfolio register at most 16 markets                *)
(* (market_data.hpp:156), as many as there are slots, and only registered  *)
(* markets are traded.                                                     *)
(***************************************************************************)
EXTENDS Integers, FiniteSets

CONSTANTS
  Markets,    \* the registered markets
  NoMarket,   \* market id 0, which marks a slot that was never used
  kMax        \* the slots (16 in the code)

ASSUME SlotsAssumption ==
  /\ kMax \in Nat
  /\ IsFiniteSet(Markets) /\ Cardinality(Markets) <= kMax
  /\ NoMarket \notin Markets

VARIABLES
  ids,   \* the market of each slot
  on     \* the flag of each slot

slotVars == <<ids, on>>

Slots == 1..kMax
SlotsOf(market) == {i \in Slots : ids[i] = market}
FirstOf(slots) == CHOOSE i \in slots : \A j \in slots : i <= j

FlagsOff == ids = [i \in Slots |-> NoMarket] /\ on = [i \in Slots |-> FALSE]

\* A scan that takes the first free slot without looking further for the market.
freshSlotFirst(market) ==
  /\ market # NoMarket
  /\ SlotsOf(NoMarket) # {}
  /\ ids' = [ids EXCEPT ![FirstOf(SlotsOf(NoMarket))] = market]
  /\ on' = [on EXCEPT ![FirstOf(SlotsOf(NoMarket))] = TRUE]

\* tryAcquire returns true: the market's own slot, or else the first free one.
tryAcquire(market) ==
  LET own  == SlotsOf(market)
      free == SlotsOf(NoMarket)
  IN  /\ market # NoMarket
      /\ \/ /\ own # {} /\ ~on[FirstOf(own)]
            /\ on' = [on EXCEPT ![FirstOf(own)] = TRUE]
            /\ UNCHANGED ids
         \/ /\ own = {} /\ free # {}
            /\ ids' = [ids EXCEPT ![FirstOf(free)] = market]
            /\ on' = [on EXCEPT ![FirstOf(free)] = TRUE]

\* tryAcquire returns false.
acquireFails(market) ==
  LET own == SlotsOf(market)
  IN  market = NoMarket \/ (IF own = {} THEN SlotsOf(NoMarket) = {} ELSE on[FirstOf(own)])

release(market) ==
  LET own == SlotsOf(market)
  IN  /\ on' = IF market = NoMarket \/ own = {} THEN on ELSE [on EXCEPT ![FirstOf(own)] = FALSE]
      /\ UNCHANGED ids

InFlight(market) == \E i \in Slots : ids[i] = market /\ on[i]

(* A market that is not in flight can always be taken: slots are never given
   back, so this rests on there being no fewer slots than registered markets
   (live_busy.hpp:8, 22; market_data.hpp:156). *)
SlotForEveryMarket == \A m \in Markets : acquireFails(m) => InFlight(m)
=============================================================================
