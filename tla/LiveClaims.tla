----------------------------- MODULE LiveClaims -----------------------------
(***************************************************************************)
(* What the README says of the live path and the code does not do.  Each   *)
(* statement is checked by a run of its own, which finds it violated.      *)
(***************************************************************************)
EXTENDS LiveTrading

(* README "ASSISI_RISK_MAX_CONTRACTS: Cap on yes+no contracts per market".
   approve_pair applies the cap to the copy of the book on_tick took before
   the busy flag, and nothing looks at the position again under the flag, so
   a second feed may buy on top of a job it has not seen. *)
ContractCapRespected ==
  \A m \in Markets :
    pos[m].count[YesSided] + pos[m].count[NoSided] <= Limits.max_contracts

(* README "If the pair is still one-sided (live or paper), sell the leftover".
   The position remembers, per side, the venue of the last buy only, so the
   sale is an order for all of the surplus on one venue, which must hold it.
   A feed that decided before a first leg was left over buys a second pair on
   top of it, on the other venue: the leftover is then spread over two venues
   and the order asks one of them for contracts it does not hold. *)
LeftoverIsAtItsVenue ==
  \A w \in Workers :
    LET order == job[w].sell
    IN  job[w].pc = "send" /\ job[w].stage = "flatten" =>
          order.venue = Kalshi \/ owned[job[w].market][order.side][order.venue] >= order.size
=============================================================================
