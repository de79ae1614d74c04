----------------------------- MODULE MCFitLoop -----------------------------
(* Sizing every pair of venues, over prices that reach both rounding edges
   of the three fee schedules. *)
EXTENDS FitLoop

LegAt(v, s, p) == [venue |-> v, side |-> s, buy |-> TRUE, size |-> 1, price |-> p]

MCYesPrices == {1, 2, 5, 8, 13, 31, 44, 50, 62, 90, 99}
MCNoPrices  == {1, 40, 94}
MCQuotes ==
  {[yes |-> LegAt(u, YesSided, p), no |-> LegAt(v, NoSided, q)] :
     u \in Venues, v \in Venues, p \in MCYesPrices, q \in MCNoPrices}
MCSizes == {0, 1, 2, 3, 7, 20}
MCCaps  == {-10, 0, 1, 98, 150, 700, 100000}
=============================================================================
