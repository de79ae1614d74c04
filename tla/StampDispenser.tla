--------------------------- MODULE StampDispenser ---------------------------
(***************************************************************************)
(* What the request clocks promise (kalshi_env.hpp): "If two sends sign in *)
(* the same millisecond, bump so the second gets last+1."  Each clock      *)
(* hands out stamps one at a time, every one higher than all before it.    *)
(***************************************************************************)
EXTENDS Integers

CONSTANTS Clocks, Threads

VARIABLES
  highest,   \* the last stamp each clock has handed out
  stamp      \* the last stamp each thread was given

Init == highest = [c \in Clocks |-> 0] /\ stamp = [t \in Threads |-> 0]

\* How much higher the stamp is, is not said.
Issue(c, t) ==
  LET s == stamp'[t]
  IN  /\ s > highest[c]
      /\ highest' = [highest EXCEPT ![c] = s]
      /\ stamp' = [stamp EXCEPT ![t] = s]

Next == \E c \in Clocks, t \in Threads : Issue(c, t)

Spec == Init /\ [][Next]_<<highest, stamp>>
=============================================================================
