----------------------------- MODULE MarketLock -----------------------------
(***************************************************************************)
(* What the busy flags promise (live_busy.hpp): "One busy flag per market. *)
(* Different markets can send at the same time.  The same market cannot    *)
(* start a second job while the first is still going."                     *)
(*                                                                         *)
(* A market is held by no thread or by one; the feed thread that took it   *)
(* hands it to the worker it starts.  How a flag is looked up, and the     *)
(* moment it goes on and off, are left to the modules that implement this. *)
(***************************************************************************)
EXTENDS FiniteSets

CONSTANTS Markets, Threads

VARIABLE holders   \* the threads that are working on each market

Holding(p) == \E m \in Markets : p \in holders[m]

Init == holders = [m \in Markets |-> {}]

Take(m, p) ==
  /\ holders[m] = {}
  /\ ~Holding(p)
  /\ holders' = [holders EXCEPT ![m] = {p}]

Pass(m, p, q) ==
  /\ holders[m] = {p}
  /\ ~Holding(q)
  /\ holders' = [holders EXCEPT ![m] = {q}]

Release(m, p) ==
  /\ holders[m] = {p}
  /\ holders' = [holders EXCEPT ![m] = {}]

Next ==
  \E m \in Markets, p \in Threads :
    \/ Take(m, p) \/ Release(m, p)
    \/ \E q \in Threads : Pass(m, p, q)

Spec == Init /\ [][Next]_holders
=============================================================================
