------------------------------- MODULE Session -------------------------------
(***************************************************************************)
(* The control of the process: the main thread (main.cpp) polls for work,  *)
(* the control page (monitor.cpp) answers requests on threads of its own,  *)
(* and once trading has begun the feeds read the mode flags                *)
(* (kalshi_env.hpp) at every tick.                                         *)
(*                                                                         *)
(* The flags are plain or atomic variables read and written one at a time, *)
(* so each access is a step.  Tapes are not told apart: a replay request   *)
(* is one whose name passed the page's checks, and the tape may still fail *)
(* to open.  A process launched with --replay never gets here.             *)
(***************************************************************************)
EXTENDS Integers

CONSTANTS
  Connections,   \* threads of the page's server
  Feeds,         \* feed threads
  MaxRequests    \* bound: start requests the operator sends

ASSUME MaxRequestsAssumption == MaxRequests \in Nat

VARIABLES
  launch,         \* the flag on the command line: "ui" (none), "trade", "clock"
  permitted,      \* ASSISI_LIVE is exactly 1, if it is read now
  granted,        \* history: it has been 1 at some moment since the launch
  main,           \* where the main thread is
  page,           \* what each connection is doing
  feed,           \* where each feed is in on_tick
  requests,       \* start requests so far
  tradeRequested, replayRequested, replayRunning, replayDone, trading, halted,
                  \* the monitor's state
  clockOnly, liveOverride, replayFlag,
                  \* the mode flags
  hasCash,        \* the portfolio holds some cash: approve_pair may accept
  replayFills,    \* the portfolio holds paper fills of a replay
  asked,          \* start modes the page accepted
  sent            \* the orders sent: live or paper, and on replay fills or not

launchVars  == <<launch, permitted, granted>>
replayVars  == <<replayRequested, replayRunning, replayDone>>
modeVars    == <<clockOnly, liveOverride, replayFlag>>
bookVars    == <<hasCash, replayFills>>
vars == <<launchVars, main, page, feed, requests, tradeRequested, replayVars, trading,
          halted, modeVars, bookVars, asked, sent>>

Modes == {"paper", "clock", "live", "replay"}
IdlePage == [pc |-> "idle", mode |-> "paper"]

Init ==
  /\ launch \in {"ui", "trade", "clock"}
  /\ permitted \in BOOLEAN /\ granted = permitted
  /\ main = "lots"
  /\ page = [c \in Connections |-> IdlePage]
  /\ feed = [t \in Feeds |-> "idle"]
  /\ requests = 0
  /\ tradeRequested = FALSE /\ trading = FALSE /\ halted = FALSE
  /\ replayRequested = FALSE /\ replayRunning = FALSE /\ replayDone = FALSE
  /\ clockOnly = (launch = "clock") /\ liveOverride = -1 /\ replayFlag = FALSE
  /\ hasCash = FALSE /\ replayFills = FALSE
  /\ asked = {} /\ sent = {}

\* envValue: when ASSISI_LIVE is not in the process's environment, every call
\* reads .env, which may be edited at any time.  When it is, nothing changes it,
\* and this step is not taken.
EditEnv ==
  /\ permitted' = ~permitted
  /\ granted' = (granted \/ permitted')
  /\ UNCHANGED <<launch, main, page, feed, requests, tradeRequested, replayVars, trading,
                 halted, modeVars, bookVars, asked, sent>>

\* assisiLiveOrders: the page's choice, or else assisiLiveAllowed, read again.
liveOrders == IF liveOverride >= 0 THEN liveOverride = 1 ELSE permitted

\* The order on_tick sends now.
NextOrder == [kind |-> IF liveOrders /\ ~replayFlag THEN "live" ELSE "paper",
              onReplay |-> replayFills]

-----------------------------------------------------------------------------
(* The main thread *)

MainGoes(from, to) == main = from /\ main' = to

\* Reconcile positions and refresh the cash of the venues, unless --clock.
Reconcile ==
  /\ MainGoes("lots", "request")
  /\ hasCash' = ~clockOnly
  /\ UNCHANGED <<launchVars, page, feed, requests, tradeRequested, replayVars, trading,
                 halted, modeVars, replayFills, asked, sent>>

\* --trade and --clock start by themselves.
StartNow ==
  /\ MainGoes("request", "poll")
  /\ tradeRequested' = (tradeRequested \/ launch # "ui")
  /\ UNCHANGED <<launchVars, page, feed, requests, replayVars, trading, halted, modeVars,
                 bookVars, asked, sent>>

Poll ==
  /\ MainGoes("poll", IF tradeRequested THEN "begin" ELSE "take")
  /\ UNCHANGED <<launchVars, page, feed, requests, tradeRequested, replayVars, trading,
                 halted, modeVars, bookVars, asked, sent>>

\* The request is read but stays up.
TakeReplayPeeks ==
  /\ MainGoes("take", IF replayRequested THEN "mark" ELSE "refresh")
  /\ UNCHANGED <<launchVars, page, feed, requests, tradeRequested, replayVars, trading,
                 halted, modeVars, bookVars, asked, sent>>

\* monitorReplayRequested takes the request down as it reads it.
TakeReplay ==
  /\ MainGoes("take", IF replayRequested THEN "mark" ELSE "refresh")
  /\ replayRequested' = FALSE
  /\ UNCHANGED <<launchVars, page, feed, requests, tradeRequested, replayRunning, replayDone,
                 trading, halted, modeVars, bookVars, asked, sent>>

monitorReplayState(running, done) == replayRunning' = running /\ replayDone' = done

MarkReplay ==
  /\ MainGoes("mark", "open")
  /\ monitorReplayState(TRUE, FALSE)
  /\ UNCHANGED <<launchVars, page, feed, requests, tradeRequested, replayRequested, trading,
                 halted, modeVars, bookVars, asked, sent>>

\* A failed open that leaves the replay marked as running.
OpenFailsUnmarked ==
  /\ MainGoes("open", "refresh")
  /\ UNCHANGED <<launchVars, page, feed, requests, tradeRequested, replayVars, trading,
                 halted, modeVars, bookVars, asked, sent>>

\* runReplay returns -1.
OpenFails ==
  /\ MainGoes("open", "refresh")
  /\ monitorReplayState(FALSE, FALSE)
  /\ UNCHANGED <<launchVars, page, feed, requests, tradeRequested, replayRequested, trading,
                 halted, modeVars, bookVars, asked, sent>>

\* runReplay opens the tape, raises the replay flag and seeds the cash.
Replay ==
  /\ MainGoes("open", "replaying")
  /\ replayFlag' = TRUE
  /\ hasCash' = TRUE
  /\ UNCHANGED <<launchVars, page, feed, requests, tradeRequested, replayVars, trading,
                 halted, clockOnly, liveOverride, replayFills, asked, sent>>

\* A tick of the tape that pays: on_tick, called by the main thread.
ReplayTick ==
  /\ main = "replaying" /\ ~clockOnly /\ ~halted
  /\ replayFills' = TRUE
  /\ sent' = sent \cup {NextOrder}
  /\ UNCHANGED <<launchVars, main, page, feed, requests, tradeRequested, replayVars, trading,
                 halted, modeVars, hasCash, asked>>

\* The flag comes down with the replay.
ReplayEndsDropsFlag ==
  /\ MainGoes("replaying", "refresh")
  /\ monitorReplayState(FALSE, TRUE)
  /\ replayFlag' = FALSE
  /\ UNCHANGED <<launchVars, page, feed, requests, tradeRequested, replayRequested, trading,
                 halted, clockOnly, liveOverride, bookVars, asked, sent>>

\* The replay flag stays up for good.
ReplayEnds ==
  /\ MainGoes("replaying", "refresh")
  /\ monitorReplayState(FALSE, TRUE)
  /\ UNCHANGED <<launchVars, page, feed, requests, tradeRequested, replayRequested, trading,
                 halted, modeVars, bookVars, asked, sent>>

\* The end of the polling loop's body: refresh, and sleep.
Refresh ==
  /\ MainGoes("refresh", "poll")
  /\ hasCash' = (hasCash \/ (~clockOnly /\ ~replayFlag))
  /\ UNCHANGED <<launchVars, page, feed, requests, tradeRequested, replayVars, trading,
                 halted, modeVars, replayFills, asked, sent>>

\* monitorSetTrading, then the feeds start.
BeginTrading ==
  /\ MainGoes("begin", "trading")
  /\ trading' = TRUE
  /\ UNCHANGED <<launchVars, page, feed, requests, tradeRequested, replayVars, halted,
                 modeVars, bookVars, asked, sent>>

Main ==
  \/ Reconcile \/ StartNow \/ Poll \/ TakeReplay \/ MarkReplay
  \/ OpenFails \/ Replay \/ ReplayTick \/ ReplayEnds \/ Refresh \/ BeginTrading

-----------------------------------------------------------------------------
(* The control page: /api/start and /api/stop *)

Answer(c) == page' = [page EXCEPT ![c] = IdlePage]
PageGoes(c, to) == page' = [page EXCEPT ![c].pc = to]

Request(c, mode) ==
  /\ page[c].pc = "idle"
  /\ requests < MaxRequests
  /\ requests' = requests + 1
  /\ page' = [page EXCEPT ![c] = [pc |-> "trading?", mode |-> mode]]
  /\ UNCHANGED <<launchVars, main, feed, tradeRequested, replayVars, trading, halted,
                 modeVars, bookVars, asked, sent>>

\* Trading already: the answer is ok and nothing happens.
CheckTrading(c) ==
  /\ page[c].pc = "trading?"
  /\ IF trading THEN Answer(c) ELSE PageGoes(c, "replay?")
  /\ UNCHANGED <<launchVars, main, feed, requests, tradeRequested, replayVars, trading,
                 halted, modeVars, bookVars, asked, sent>>

\* Starting live without asking assisiLiveAllowed.
acceptsAnyMode(c) == page[c].mode # "replay" => ~replayDone

\* A start is refused after a replay, and a live one while ASSISI_LIVE is not 1.
acceptsStart(c) ==
  page[c].mode # "replay" =>
    ~replayDone /\ (page[c].mode = "live" => permitted)

\* replay_busy and replay_done are read together, under the lock.
CheckReplay(c) ==
  /\ page[c].pc = "replay?"
  /\ IF replayRunning \/ ~acceptsStart(c) THEN Answer(c)
     ELSE PageGoes(c, IF page[c].mode = "replay" THEN "ask" ELSE "clockOnly")
  /\ UNCHANGED <<launchVars, main, feed, requests, tradeRequested, replayVars, trading,
                 halted, modeVars, bookVars, asked, sent>>

RequestReplay(c) ==
  /\ page[c].pc = "ask"
  /\ replayRequested' = TRUE
  /\ Answer(c)
  /\ UNCHANGED <<launchVars, main, feed, requests, tradeRequested, replayRunning, replayDone,
                 trading, halted, modeVars, bookVars, asked, sent>>

\* Trading is requested before the mode is complete.
SetClockOnlyAndStart(c) ==
  /\ page[c].pc = "clockOnly"
  /\ clockOnly' = (page[c].mode = "clock")
  /\ tradeRequested' = TRUE
  /\ asked' = asked \cup {page[c].mode}
  /\ PageGoes(c, "override")
  /\ UNCHANGED <<launchVars, main, feed, requests, replayVars, trading, halted, liveOverride,
                 replayFlag, bookVars, sent>>

SetClockOnly(c) ==
  /\ page[c].pc = "clockOnly"
  /\ clockOnly' = (page[c].mode = "clock")
  /\ asked' = asked \cup {page[c].mode}
  /\ PageGoes(c, "override")
  /\ UNCHANGED <<launchVars, main, feed, requests, tradeRequested, replayVars, trading,
                 halted, liveOverride, replayFlag, bookVars, sent>>

SetOverride(c) ==
  /\ page[c].pc = "override"
  /\ liveOverride' = IF page[c].mode = "live" THEN 1 ELSE 0
  /\ PageGoes(c, "start")
  /\ UNCHANGED <<launchVars, main, feed, requests, tradeRequested, replayVars, trading,
                 halted, clockOnly, replayFlag, bookVars, asked, sent>>

RequestTrade(c) ==
  /\ page[c].pc = "start"
  /\ tradeRequested' = TRUE
  /\ Answer(c)
  /\ UNCHANGED <<launchVars, main, feed, requests, replayVars, trading, halted, modeVars,
                 bookVars, asked, sent>>

Stop ==
  /\ halted' = TRUE
  /\ UNCHANGED <<launchVars, main, page, feed, requests, tradeRequested, replayVars, trading,
                 modeVars, bookVars, asked, sent>>

Handle(c) ==
  \/ CheckTrading(c) \/ CheckReplay(c) \/ RequestReplay(c)
  \/ SetClockOnly(c) \/ SetOverride(c) \/ RequestTrade(c)

-----------------------------------------------------------------------------
(* on_tick, for a tick that pays.  The replay flag is only written before   *)
(* the feeds start, so it is read with the live flag.                       *)

FeedGoes(t, from, to) == feed[t] = from /\ feed' = [feed EXCEPT ![t] = to]

\* approve_pair needs cash; then the clock flag is read.
Tick(t) ==
  /\ main = "trading" /\ hasCash
  /\ FeedGoes(t, "idle", IF clockOnly THEN "idle" ELSE "halted?")
  /\ UNCHANGED <<launchVars, main, page, requests, tradeRequested, replayVars, trading,
                 halted, modeVars, bookVars, asked, sent>>

CheckHalted(t) ==
  /\ FeedGoes(t, "halted?", IF halted THEN "idle" ELSE "send")
  /\ UNCHANGED <<launchVars, main, page, requests, tradeRequested, replayVars, trading,
                 halted, modeVars, bookVars, asked, sent>>

Send(t) ==
  /\ FeedGoes(t, "send", "idle")
  /\ sent' = sent \cup {NextOrder}
  /\ UNCHANGED <<launchVars, main, page, requests, tradeRequested, replayVars, trading,
                 halted, modeVars, bookVars, asked>>

-----------------------------------------------------------------------------
Next ==
  \/ Main
  \/ \E c \in Connections : (\E mode \in Modes : Request(c, mode)) \/ Handle(c)
  \/ Stop \/ EditEnv
  \/ \E t \in Feeds : Tick(t) \/ CheckHalted(t) \/ Send(t)

Spec == Init /\ [][Next]_vars

\* The main thread is scheduled, and a tape has an end.
FairSpec == Spec /\ WF_vars(Main) /\ WF_vars(ReplayEnds)

-----------------------------------------------------------------------------
(* Properties *)

(* Types, and: the page shows a replay as running exactly while the main
   thread works on one, and the session as trading exactly once it does. *)
TypeOK ==
  /\ main \in {"lots", "request", "poll", "take", "mark", "open", "replaying", "refresh",
               "begin", "trading"}
  /\ page \in [Connections -> [pc : {"idle", "trading?", "replay?", "ask", "clockOnly",
                                    "override", "start"}, mode : Modes]]
  /\ feed \in [Feeds -> {"idle", "halted?", "send"}]
  /\ liveOverride \in {-1, 0, 1}
  /\ asked \subseteq Modes
  /\ sent \subseteq [kind : {"live", "paper"}, onReplay : BOOLEAN]
  /\ replayRunning <=> main \in {"open", "replaying"}
  /\ trading <=> main = "trading"

SentLive == \E order \in sent : order.kind = "live"

(* No live order is ever sent from a portfolio that holds the paper fills of a
   replay, whatever starts slipped past the page's refusal: the replay flag
   outlives the replay (main.cpp:339, 388). *)
NoLiveOrderOnReplayFills ==
  ~ \E order \in sent : order.kind = "live" /\ order.onReplay

(* No live order is sent before ASSISI_LIVE has been 1, in whatever order starts,
   replays, ticks and edits of .env interleave: never, if the process's environment
   has another value.  That the permission has been withdrawn since does not hold
   orders back (kalshi_env.hpp:12-32, 65-78, monitor.cpp:416). *)
LiveNeedsPermission == SentLive => granted

(* Without --trade or --clock, live orders are sent only after the page accepted
   a live start: with ASSISI_LIVE=1, at launch or in .env by now, the default is
   live, so every other start must have overridden it before the feeds run,
   whatever starts overlap (monitor.cpp:411-427). *)
LiveOnlyIfAsked == launch = "ui" /\ SentLive => "live" \in asked

(* A requested start begins the session, and a requested replay is taken up
   unless a start comes first: a replay that cannot be opened or that is followed
   by another keeps the main loop going (main.cpp:575-604). *)
RequestsServed ==
  /\ tradeRequested ~> trading
  /\ replayRequested ~> (~replayRequested \/ trading)
=============================================================================
