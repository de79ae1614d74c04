---------------------------- MODULE RequestClock ----------------------------
(***************************************************************************)
(* nextMonotonicMs (kalshi_env.hpp): one atomic per venue holds the last   *)
(* stamp a request was signed with.  A thread reads the wall clock, loads  *)
(* the last stamp, and swaps in the later of the two with a weak           *)
(* compare-exchange, which may fail for no reason; after a failure it      *)
(* tries again with the stamp it found.                                    *)
(*                                                                         *)
(* The wall clock is the system's: it may stand still or step back, so a   *)
(* reading is any time up to a bound.                                      *)
(***************************************************************************)
EXTENDS Pricing

CONSTANTS
  Threads,
  MaxWall    \* bound: the latest wall clock reading

ASSUME MaxWallAssumption == MaxWall \in Nat

VARIABLES
  last,     \* the last stamp of each venue's clock
  signing,  \* where each thread is in nextMonotonicMs
  stamp     \* the last stamp each thread was given

clockVars == <<last, signing, stamp>>

Signing == [pc : {"idle", "load", "swap"}, venue : Venues, now : Nat, prev : Nat]

ClockTypeOK ==
  /\ last \in [Venues -> Nat]
  /\ signing \in [Threads -> Signing]
  /\ stamp \in [Threads -> Nat]

NotSigning == [pc |-> "idle", venue |-> Kalshi, now |-> 0, prev |-> 0]

ClocksAtZero ==
  /\ last = [v \in Venues |-> 0]
  /\ signing = [t \in Threads |-> NotSigning]
  /\ stamp = [t \in Threads |-> 0]

\* A stamp that is never later than the wall clock.
candidateAtWall(s) == IF s.now > s.prev THEN s.now ELSE s.prev

candidate(s) == IF s.now > s.prev THEN s.now ELSE s.prev + 1

ReadWall(t, venue) ==
  /\ signing[t].pc = "idle"
  /\ \E now \in 0..MaxWall :
       signing' = [signing EXCEPT ![t] = [pc |-> "load", venue |-> venue, now |-> now, prev |-> 0]]
  /\ UNCHANGED <<last, stamp>>

LoadLast(t) ==
  /\ signing[t].pc = "load"
  /\ signing' = [signing EXCEPT ![t].pc = "swap", ![t].prev = last[signing[t].venue]]
  /\ UNCHANGED <<last, stamp>>

\* A plain store in place of the compare-exchange.
StoreBlindly(t) ==
  /\ signing[t].pc = "swap"
  /\ last' = [last EXCEPT ![signing[t].venue] = candidate(signing[t])]
  /\ stamp' = [stamp EXCEPT ![t] = candidate(signing[t])]
  /\ signing' = [signing EXCEPT ![t] = NotSigning]

Swap(t) ==
  /\ signing[t].pc = "swap"
  /\ last[signing[t].venue] = signing[t].prev
  /\ last' = [last EXCEPT ![signing[t].venue] = candidate(signing[t])]
  /\ stamp' = [stamp EXCEPT ![t] = candidate(signing[t])]
  /\ signing' = [signing EXCEPT ![t] = NotSigning]

\* Another thread came first, or the swap failed by itself.
SwapFails(t) ==
  /\ signing[t].pc = "swap"
  /\ signing' = [signing EXCEPT ![t].prev = last[signing[t].venue]]
  /\ UNCHANGED <<last, stamp>>

-----------------------------------------------------------------------------
Dispenser == INSTANCE StampDispenser WITH Clocks <- Venues, highest <- last

(* No two requests to a venue are signed with the same stamp, and stamps are
   handed out in increasing order, whatever the wall clock does and however the
   loads and swaps of two threads interleave (kalshi_env.hpp:36). *)
StampsRefined == Dispenser!Spec
=============================================================================
