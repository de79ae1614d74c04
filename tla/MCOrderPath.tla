---------------------------- MODULE MCOrderPath ----------------------------
(* Two jobs on two markets and as many slots.  One order in each word of
   each venue that differs in how it is built or read, for one or three
   contracts, so that an average has a third of a cent. *)
EXTENDS OrderPath, TLC

Order(venue, side, buy, size, price) ==
  [venue |-> venue, side |-> side, buy |-> buy, size |-> size, price |-> price]

MCOrders ==
  {Order(Kalshi, NoSided, TRUE, 3, 41), Order(Kalshi, NoSided, FALSE, 1, 1),
   Order(Polymarket, NoSided, TRUE, 3, 41), Order(Gemini, YesSided, TRUE, 3, 41)}
MCBookPrices == {40, 41, 59, 60}
MCKeyed == {Kalshi, Polymarket, Gemini}
ThreadSymmetry == Permutations(Threads)
=============================================================================
