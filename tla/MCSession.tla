----------------------------- MODULE MCSession ------------------------------
(* Two requests of the page at a time and three in all, one feed: enough for
   a start and a replay to overlap, or two starts in different modes, and for
   a request that was let through to act after trading has begun. *)
EXTENDS SessionClaims
=============================================================================
