--------------------------- MODULE SessionProofs ----------------------------
(***************************************************************************)
(* What keeps live orders back, for any number of connections, feeds and   *)
(* start requests.                                                         *)
(***************************************************************************)
EXTENDS Session, TLAPS

PagePcs == {"idle", "trading?", "replay?", "ask", "clockOnly", "override", "start"}

\* Where a connection stands once the page has let its start through.
LetThrough == {"clockOnly", "override", "start"}

\* A live start is let through, and becomes the mode, only once there has been
\* a permission.
Permission ==
  /\ page \in [Connections -> [pc : PagePcs, mode : Modes]]
  /\ \A c \in Connections :
       page[c].pc \in LetThrough /\ page[c].mode = "live" => granted
  /\ liveOverride \in {-1, 0, 1}
  /\ liveOverride = 1 => granted
  /\ permitted => granted

PermissionInv == Permission /\ LiveNeedsPermission

LEMMA PermissionInit == Init => PermissionInv
  BY DEF Init, PermissionInv, Permission, LiveNeedsPermission, SentLive, LetThrough,
         IdlePage, Modes, PagePcs

\* Steps that touch neither the page, nor the mode, nor the permission, nor what
\* was sent.
Quiet == UNCHANGED <<page, liveOverride, sent, permitted, granted>>

LEMMA PermissionQuiet == PermissionInv /\ Quiet => PermissionInv'
  BY DEF Quiet, PermissionInv, Permission, LiveNeedsPermission, SentLive

\* The order sent next is live only once there has been a permission.
LEMMA NextOrderPermitted == Permission /\ NextOrder.kind = "live" => granted
  BY DEF Permission, NextOrder, liveOrders

LEMMA PermissionSend ==
  ASSUME PermissionInv, sent' = sent \cup {NextOrder},
         UNCHANGED <<page, liveOverride, permitted, granted>>
  PROVE  PermissionInv'
<1>1. Permission'
  BY DEF PermissionInv, Permission
<1>2. ASSUME SentLive' PROVE granted
  <2>1. PICK order \in sent' : order.kind = "live"
    BY <1>2 DEF SentLive
  <2>2. CASE order \in sent
    BY <2>1, <2>2 DEF PermissionInv, LiveNeedsPermission, SentLive
  <2>3. CASE order = NextOrder
    BY <2>1, <2>3, NextOrderPermitted DEF PermissionInv
  <2>. QED BY <2>1, <2>2, <2>3
<1>. QED BY <1>1, <1>2 DEF PermissionInv, LiveNeedsPermission

LEMMA PermissionPage ==
  ASSUME PermissionInv, NEW c \in Connections,
         (\E mode \in Modes : Request(c, mode)) \/ Handle(c)
  PROVE  PermissionInv'
<1>. USE DEF PermissionInv, Permission, LiveNeedsPermission, SentLive, LetThrough, PagePcs, launchVars
<1>1. ASSUME NEW mode \in Modes, Request(c, mode) PROVE PermissionInv'
  BY <1>1 DEF Request, modeVars
<1>2. CASE CheckTrading(c)
  BY <1>2 DEF CheckTrading, Answer, PageGoes, IdlePage, Modes, modeVars
<1>3. CASE CheckReplay(c)
  BY <1>3 DEF CheckReplay, acceptsStart, Answer, PageGoes, IdlePage, Modes, modeVars
<1>4. CASE RequestReplay(c)
  BY <1>4 DEF RequestReplay, Answer, IdlePage, Modes, modeVars
<1>5. CASE SetClockOnly(c)
  BY <1>5 DEF SetClockOnly, PageGoes
<1>6. CASE SetOverride(c)
  BY <1>6 DEF SetOverride, PageGoes
<1>7. CASE RequestTrade(c)
  BY <1>7 DEF RequestTrade, Answer, IdlePage, Modes, modeVars
<1>. QED BY <1>1, <1>2, <1>3, <1>4, <1>5, <1>6, <1>7 DEF Handle

LEMMA PermissionMain == PermissionInv /\ Main => PermissionInv'
<1>. SUFFICES ASSUME PermissionInv, Main PROVE PermissionInv'
  OBVIOUS
<1>1. CASE ReplayTick
  BY <1>1, PermissionSend DEF ReplayTick, launchVars, modeVars
<1>2. CASE Main /\ ~ReplayTick
  <2>1. Quiet
    BY <1>2 DEF Main, Quiet, Reconcile, StartNow, Poll, TakeReplay, MarkReplay, OpenFails,
                Replay, ReplayEnds, Refresh, BeginTrading, launchVars, modeVars
  <2>. QED BY <2>1, PermissionQuiet
<1>. QED BY <1>1, <1>2

LEMMA PermissionNext == PermissionInv /\ [Next]_vars => PermissionInv'
<1>. SUFFICES ASSUME PermissionInv, [Next]_vars PROVE PermissionInv'
  OBVIOUS
<1>1. CASE Main
  BY <1>1, PermissionMain
<1>2. ASSUME NEW c \in Connections, (\E mode \in Modes : Request(c, mode)) \/ Handle(c)
      PROVE  PermissionInv'
  BY <1>2, PermissionPage
<1>3. CASE Stop
  BY <1>3, PermissionQuiet DEF Stop, Quiet, launchVars, modeVars
<1>7. CASE EditEnv
  BY <1>7 DEF EditEnv, PermissionInv, Permission, LiveNeedsPermission, SentLive, modeVars
<1>4. ASSUME NEW t \in Feeds, Tick(t) \/ CheckHalted(t) PROVE PermissionInv'
  BY <1>4, PermissionQuiet DEF Tick, CheckHalted, Quiet, launchVars, modeVars
<1>5. ASSUME NEW t \in Feeds, Send(t) PROVE PermissionInv'
  BY <1>5, PermissionSend DEF Send, launchVars, modeVars
<1>6. CASE UNCHANGED vars
  BY <1>6, PermissionQuiet DEF vars, Quiet, launchVars, modeVars
<1>. QED BY <1>1, <1>2, <1>3, <1>4, <1>5, <1>6, <1>7 DEF Next

(* However starts, replays, ticks and edits of .env interleave, no live order is
   sent before ASSISI_LIVE has been 1 (kalshi_env.hpp:12-32, 65-78,
   monitor.cpp:416). *)
THEOREM LiveNeedsPermissionHolds == Spec => []LiveNeedsPermission
<1>1. PermissionInv => LiveNeedsPermission
  BY DEF PermissionInv
<1>. QED BY PermissionInit, PermissionNext, <1>1, PTL DEF Spec

-----------------------------------------------------------------------------
(* The portfolio holds paper fills of a replay only while the replay flag is up,
   and nothing takes the flag down. *)
FlagUp ==
  /\ replayFills => replayFlag
  /\ main = "replaying" => replayFlag

FlagInv == FlagUp /\ NoLiveOrderOnReplayFills

LEMMA FlagInit == Init => FlagInv
  BY DEF Init, FlagInv, FlagUp, NoLiveOrderOnReplayFills

\* Every order sent is a paper one if the portfolio holds a replay's fills.
LEMMA NextOrderOnReplay ==
  FlagUp => ~(NextOrder.kind = "live" /\ NextOrder.onReplay)
  BY DEF FlagUp, NextOrder

LEMMA FlagSend ==
  ASSUME FlagInv, sent' = sent \cup {NextOrder} PROVE NoLiveOrderOnReplayFills'
  BY NextOrderOnReplay DEF FlagInv, NoLiveOrderOnReplayFills

\* Steps that send nothing keep the flag up where it has to be.
LEMMA FlagQuiet ==
  ASSUME FlagInv, FlagUp', sent' = sent PROVE FlagInv'
  BY DEF FlagInv, NoLiveOrderOnReplayFills

LEMMA FlagMain == FlagInv /\ Main => FlagInv'
<1>. SUFFICES ASSUME FlagInv, Main PROVE FlagInv'
  OBVIOUS
<1>1. CASE ReplayTick
  BY <1>1, FlagSend DEF ReplayTick, FlagInv, FlagUp, modeVars
<1>2. CASE Main /\ ~ReplayTick
  <2>1. FlagUp' /\ sent' = sent
    <3>1. CASE Replay
      BY <3>1 DEF FlagInv, FlagUp, Replay, MainGoes
    <3>2. CASE Reconcile \/ Refresh
      BY <3>2 DEF FlagInv, FlagUp, MainGoes, Reconcile, Refresh, modeVars
    <3>3. CASE StartNow \/ Poll \/ TakeReplay \/ MarkReplay
      BY <3>3 DEF FlagInv, FlagUp, MainGoes, StartNow, Poll, TakeReplay, MarkReplay, monitorReplayState,
                  modeVars, bookVars
    <3>4. CASE OpenFails \/ ReplayEnds \/ BeginTrading
      BY <3>4 DEF FlagInv, FlagUp, MainGoes, OpenFails, ReplayEnds, BeginTrading, monitorReplayState,
                  modeVars, bookVars
    <3>. QED BY <1>2, <3>1, <3>2, <3>3, <3>4 DEF Main
  <2>. QED BY <2>1, FlagQuiet
<1>. QED BY <1>1, <1>2

LEMMA FlagNext == FlagInv /\ [Next]_vars => FlagInv'
<1>. SUFFICES ASSUME FlagInv, [Next]_vars PROVE FlagInv'
  OBVIOUS
<1>1. CASE Main
  BY <1>1, FlagMain
<1>2. ASSUME NEW t \in Feeds, Send(t) PROVE FlagInv'
  BY <1>2, FlagSend DEF Send, FlagInv, FlagUp, modeVars, bookVars
<1>3. ASSUME NEW t \in Feeds, Tick(t) \/ CheckHalted(t) PROVE FlagInv'
  BY <1>3, FlagQuiet DEF Tick, CheckHalted, FlagInv, FlagUp, modeVars, bookVars
<1>4. ASSUME NEW c \in Connections, NEW mode \in Modes, Request(c, mode) PROVE FlagInv'
  BY <1>4, FlagQuiet DEF Request, FlagInv, FlagUp, modeVars, bookVars
<1>5. ASSUME NEW c \in Connections, Handle(c) PROVE FlagInv'
  BY <1>5, FlagQuiet DEF Handle, CheckTrading, CheckReplay, RequestReplay, SetClockOnly,
       SetOverride, RequestTrade, FlagInv, FlagUp, modeVars, bookVars
<1>6. CASE Stop \/ EditEnv \/ UNCHANGED vars
  BY <1>6, FlagQuiet DEF Stop, EditEnv, vars, FlagInv, FlagUp, modeVars, bookVars
<1>. QED BY <1>1, <1>2, <1>3, <1>4, <1>5, <1>6 DEF Next

(* No live order is sent from a portfolio that holds the paper fills of a
   replay, even by a session whose start slipped past the page's refusal
   (main.cpp:339, 388, and main.cpp:424, which is never undone). *)
THEOREM NoLiveOrderOnReplayFillsHolds == Spec => []NoLiveOrderOnReplayFills
<1>1. FlagInv => NoLiveOrderOnReplayFills
  BY DEF FlagInv
<1>. QED BY FlagInit, FlagNext, <1>1, PTL DEF Spec

-----------------------------------------------------------------------------
(* Types, and what the page shows.  An order carries a flag of the portfolio,
   which has a type too. *)

Typed == TypeOK /\ replayFills \in BOOLEAN

LEMMA TypedInit == Init => Typed
<1>. SUFFICES ASSUME Init PROVE Typed
  OBVIOUS
<1>1. replayFills \in BOOLEAN /\ ~replayRunning /\ ~trading /\ main = "lots"
  BY Zenon DEF Init
<1>2. /\ page \in [Connections -> [pc : PagePcs, mode : Modes]]
      /\ feed \in [Feeds -> {"idle", "halted?", "send"}]
      /\ liveOverride \in {-1, 0, 1} /\ asked \subseteq Modes
      /\ sent \subseteq [kind : {"live", "paper"}, onReplay : BOOLEAN]
  BY DEF Init, IdlePage, Modes, PagePcs
<1>. QED BY <1>1, <1>2 DEF Typed, TypeOK, PagePcs

LEMMA NextOrderType ==
  replayFills \in BOOLEAN => NextOrder \in [kind : {"live", "paper"}, onReplay : BOOLEAN]
  BY Zenon DEF NextOrder

LEMMA TypedMain == Typed /\ Main => Typed'
<1>. SUFFICES ASSUME Typed, Main PROVE Typed'
  OBVIOUS
<1>. USE DEF Typed, TypeOK, MainGoes, launchVars, replayVars, modeVars, bookVars, monitorReplayState
<1>1. CASE Reconcile \/ StartNow \/ Refresh \/ BeginTrading
  BY <1>1 DEF Reconcile, StartNow, Refresh, BeginTrading
<1>2. CASE Poll \/ TakeReplay
  BY <1>2 DEF Poll, TakeReplay
<1>3. CASE MarkReplay \/ OpenFails \/ Replay \/ ReplayEnds
  BY <1>3 DEF MarkReplay, OpenFails, Replay, ReplayEnds
<1>4. CASE ReplayTick
  BY <1>4, NextOrderType DEF ReplayTick
<1>. QED BY <1>1, <1>2, <1>3, <1>4 DEF Main

LEMMA TypedPage ==
  ASSUME Typed, NEW c \in Connections,
         (\E mode \in Modes : Request(c, mode)) \/ Handle(c)
  PROVE  Typed'
<1>. USE DEF Typed, TypeOK, launchVars, replayVars, modeVars, bookVars
<1>1. ASSUME NEW mode \in Modes, Request(c, mode) PROVE Typed'
  BY <1>1 DEF Request
<1>2. CASE CheckTrading(c)
  BY <1>2 DEF CheckTrading, Answer, PageGoes, IdlePage, Modes
<1>5. CASE CheckReplay(c)
  <2>1. \/ page' = [page EXCEPT ![c] = IdlePage]
        \/ page' = [page EXCEPT ![c].pc = "ask"]
        \/ page' = [page EXCEPT ![c].pc = "clockOnly"]
    BY <1>5 DEF CheckReplay, Answer, PageGoes
  <2>2. page' \in [Connections -> [pc : PagePcs, mode : Modes]]
    BY <2>1 DEF PagePcs, IdlePage, Modes
  <2>3. UNCHANGED <<main, feed, replayVars, trading, modeVars, bookVars, asked, sent>>
    BY <1>5 DEF CheckReplay
  <2>. QED BY <2>2, <2>3 DEF PagePcs
<1>3. CASE RequestReplay(c) \/ RequestTrade(c)
  <2>1. page' \in [Connections -> [pc : PagePcs, mode : Modes]]
    BY <1>3 DEF RequestReplay, RequestTrade, Answer, IdlePage, Modes, PagePcs
  <2>2. UNCHANGED <<main, feed, replayRunning, trading, liveOverride, replayFills, asked, sent>>
    BY <1>3 DEF RequestReplay, RequestTrade
  <2>. QED BY <2>1, <2>2 DEF PagePcs
<1>4. CASE SetClockOnly(c) \/ SetOverride(c)
  <2>1. page[c].mode \in Modes
    OBVIOUS
  <2>. QED BY <1>4, <2>1 DEF SetClockOnly, SetOverride, PageGoes
<1>. QED BY <1>1, <1>2, <1>3, <1>4, <1>5 DEF Handle

(* The page shows a replay as running, and the session as trading, exactly
   while the main thread is at it (main.cpp:414-450, 575-604). *)
THEOREM SessionTypesHold == Spec => []TypeOK
<1>1. Typed /\ [Next]_vars => Typed'
  <2>. SUFFICES ASSUME Typed, [Next]_vars PROVE Typed'
    OBVIOUS
  <2>. USE DEF Typed, TypeOK, launchVars, replayVars, modeVars, bookVars
  <2>1. CASE Stop \/ EditEnv
    BY <2>1 DEF Stop, EditEnv
  <2>2. ASSUME NEW t \in Feeds, Tick(t) \/ CheckHalted(t) PROVE Typed'
    BY <2>2 DEF Tick, CheckHalted, FeedGoes
  <2>3. ASSUME NEW t \in Feeds, Send(t) PROVE Typed'
    BY <2>3, NextOrderType DEF Send, FeedGoes
  <2>4. CASE UNCHANGED vars
    BY <2>4 DEF vars
  <2>. QED BY <2>1, <2>2, <2>3, <2>4, TypedMain, TypedPage DEF Next
<1>2. Typed => TypeOK
  BY DEF Typed
<1>. QED BY TypedInit, <1>1, <1>2, PTL DEF Spec

-----------------------------------------------------------------------------
(* Live orders are asked for.  With ASSISI_LIVE=1 the default is live, so the
   feeds must not run before a start has overridden it. *)

Asked ==
  /\ \A c \in Connections :
       page[c].pc \in {"override", "start"} /\ page[c].mode = "live" => "live" \in asked
  /\ liveOverride = 1 => "live" \in asked

Overridden ==
  /\ \A c \in Connections : page[c].pc = "start" => liveOverride # -1
  /\ launch = "ui" /\ (tradeRequested \/ main \in {"begin", "trading"}) => liveOverride # -1
  /\ \A t \in Feeds : feed[t] # "idle" => main = "trading"

AskedInv == TypeOK /\ FlagUp /\ Asked /\ Overridden /\ LiveOnlyIfAsked

LEMMA AskedInit == Init => Asked /\ Overridden /\ LiveOnlyIfAsked
  BY DEF Init, Asked, Overridden, LiveOnlyIfAsked, SentLive, IdlePage

\* Once the default is overridden, the next order is live only if asked for.
LEMMA NextOrderAsked ==
  ASSUME TypeOK, Asked, liveOverride # -1, NextOrder.kind = "live"
  PROVE  "live" \in asked
  BY DEF TypeOK, Asked, NextOrder, liveOrders

LEMMA AskedSends ==
  ASSUME LiveOnlyIfAsked, launch = "ui" /\ NextOrder.kind = "live" => "live" \in asked,
         sent' = sent \cup {NextOrder}, UNCHANGED <<launch, asked>>
  PROVE  LiveOnlyIfAsked'
  BY DEF LiveOnlyIfAsked, SentLive

\* A replay sends only paper orders, and trading begins only when requested.
LEMMA AskedMain == AskedInv /\ Main => Asked' /\ Overridden' /\ LiveOnlyIfAsked'
<1>. SUFFICES ASSUME AskedInv, Main PROVE Asked' /\ Overridden' /\ LiveOnlyIfAsked'
  OBVIOUS
<1>. USE DEF AskedInv, launchVars, replayVars, modeVars, bookVars, MainGoes
<1>1. UNCHANGED <<page, feed, liveOverride, asked, launch>>
  BY DEF Main, Reconcile, StartNow, Poll, TakeReplay, MarkReplay, OpenFails, Replay, ReplayTick,
         ReplayEnds, Refresh, BeginTrading
<1>2. Asked'
  BY <1>1 DEF Asked
<1>3. Overridden'
  <2>1. main # "trading"
    BY DEF Main, Reconcile, StartNow, Poll, TakeReplay, MarkReplay, OpenFails, Replay, ReplayTick,
           ReplayEnds, Refresh, BeginTrading
  <2>2. launch = "ui" /\ tradeRequested' => tradeRequested
    BY DEF Main, Reconcile, StartNow, Poll, TakeReplay, MarkReplay, OpenFails, Replay, ReplayTick,
           ReplayEnds, Refresh, BeginTrading
  <2>3. main' \in {"begin", "trading"} => tradeRequested \/ main = "begin"
    BY DEF Main, Reconcile, StartNow, Poll, TakeReplay, MarkReplay, OpenFails, Replay, ReplayTick,
           ReplayEnds, Refresh, BeginTrading
  <2>. QED BY <1>1, <2>1, <2>2, <2>3 DEF Overridden
<1>4. LiveOnlyIfAsked'
  <2>1. CASE ReplayTick
    <3>1. NextOrder.kind # "live"
      BY <2>1 DEF ReplayTick, FlagUp, NextOrder
    <3>. QED BY <1>1, <2>1, <3>1, AskedSends DEF ReplayTick
  <2>2. CASE ~ReplayTick
    <3>1. sent' = sent
      BY <2>2 DEF Main, Reconcile, StartNow, Poll, TakeReplay, MarkReplay, OpenFails, Replay,
                  ReplayEnds, Refresh, BeginTrading
    <3>. QED BY <1>1, <3>1 DEF LiveOnlyIfAsked, SentLive
  <2>. QED BY <2>1, <2>2
<1>. QED BY <1>2, <1>3, <1>4

LEMMA AskedPage ==
  ASSUME AskedInv, NEW c \in Connections,
         (\E mode \in Modes : Request(c, mode)) \/ Handle(c)
  PROVE  Asked' /\ Overridden' /\ LiveOnlyIfAsked'
<1>. USE DEF AskedInv, Asked, Overridden, LiveOnlyIfAsked, SentLive, TypeOK, launchVars, modeVars,
             Answer, PageGoes, IdlePage
<1>1. ASSUME NEW mode \in Modes, Request(c, mode) PROVE Asked' /\ Overridden' /\ LiveOnlyIfAsked'
  BY <1>1 DEF Request
<1>2. CASE CheckTrading(c) \/ CheckReplay(c)
  BY <1>2 DEF CheckTrading, CheckReplay
<1>3. CASE RequestReplay(c) \/ RequestTrade(c)
  BY <1>3 DEF RequestReplay, RequestTrade
<1>4. CASE SetClockOnly(c)
  BY <1>4 DEF SetClockOnly
<1>5. CASE SetOverride(c)
  BY <1>5 DEF SetOverride
<1>. QED BY <1>1, <1>2, <1>3, <1>4, <1>5 DEF Handle

LEMMA AskedNext == AskedInv /\ [Next]_vars => Asked' /\ Overridden' /\ LiveOnlyIfAsked'
<1>. SUFFICES ASSUME AskedInv, [Next]_vars PROVE Asked' /\ Overridden' /\ LiveOnlyIfAsked'
  OBVIOUS
<1>. USE DEF AskedInv, launchVars, modeVars
<1>1. CASE Stop \/ EditEnv \/ UNCHANGED vars
  BY <1>1 DEF Stop, EditEnv, vars, Asked, Overridden, LiveOnlyIfAsked, SentLive
<1>2. ASSUME NEW t \in Feeds, Tick(t) \/ CheckHalted(t)
      PROVE  Asked' /\ Overridden' /\ LiveOnlyIfAsked'
  BY <1>2 DEF Tick, CheckHalted, FeedGoes, TypeOK, Asked, Overridden, LiveOnlyIfAsked, SentLive
<1>3. ASSUME NEW t \in Feeds, Send(t)
      PROVE  Asked' /\ Overridden' /\ LiveOnlyIfAsked'
  <2>1. launch = "ui" => liveOverride # -1
    BY <1>3 DEF Send, FeedGoes, Overridden
  <2>2. LiveOnlyIfAsked'
    BY <1>3, <2>1, NextOrderAsked, AskedSends DEF Send
  <2>3. Asked' /\ Overridden'
    BY <1>3 DEF Send, FeedGoes, TypeOK, Asked, Overridden
  <2>. QED BY <2>2, <2>3
<1>. QED BY <1>1, <1>2, <1>3, AskedMain, AskedPage DEF Next

(* Without --trade or --clock, live orders are sent only after the page accepted
   a live start, however starts overlap: the mode is overridden before trading
   is requested (monitor.cpp:410-427). *)
THEOREM LiveOnlyIfAskedHolds == Spec => []LiveOnlyIfAsked
<1>1. Spec => []TypeOK
  BY SessionTypesHold
<1>2. Spec => []FlagInv
  BY FlagInit, FlagNext, PTL DEF Spec
<1>3. TypeOK /\ FlagInv /\ Asked /\ Overridden /\ LiveOnlyIfAsked /\ [Next]_vars
        => (Asked /\ Overridden /\ LiveOnlyIfAsked)'
  BY AskedNext DEF AskedInv, FlagInv
<1>. QED BY <1>1, <1>2, <1>3, AskedInit, PTL DEF Spec
=============================================================================
