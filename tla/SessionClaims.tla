--------------------------- MODULE SessionClaims ----------------------------
(* What the repository's README says of the session and the code does not keep. *)
EXTENDS Session

(* "After a UI replay the portfolio holds paper fills, so Paper / Clock / Live
   are refused (409) until the process restarts" (README.md:37).  The page
   refuses a start while replay_done is up, but a later tape that cannot be
   opened takes replay_done down again (main.cpp:576). *)
StartsRefusedAfterReplay ==
  [][\A c \in Connections :
       page[c].pc = "replay?" /\ page'[c].pc = "clockOnly" => ~replayFills]_vars
=============================================================================
