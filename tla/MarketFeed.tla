----------------------------- MODULE MarketFeed -----------------------------
(***************************************************************************)
(* From a venue's websocket to the view of a market that on_tick trades    *)
(* on: the market table (market_data.hpp), filled from markets.csv by the  *)
(* main thread, and one feed thread per venue (the three *_ws.cpp), each   *)
(* with a connection whose callbacks run on a thread of the websocket      *)
(* library.                                                                *)
(*                                                                         *)
(* The library is external, as the code uses it: start() returns before    *)
(* its thread has run, the connection still reads as closed then, and      *)
(* stop() closes it and waits for a callback in progress.  A message is a  *)
(* ticker and the best bid and ask of its yes contracts; one that does not *)
(* parse or whose ticker is unknown is dropped, which is no step here.     *)
(***************************************************************************)
EXTENDS Strategy, Sequences, FiniteSets

CONSTANTS
  Rows,         \* the rows of markets.csv
  MaxMarkets,   \* markets the table has room for (16 in the code)
  Tickers,      \* the venues' names for markets
  NoTicker,     \* a row without a name on a venue
  Keyed,        \* the venues whose keys are set (Gemini needs none)
  Books         \* the books a message may carry

Row  == [market : Nat, ticker : [Venues -> Tickers \cup {NoTicker}]]
Book == [yesBid : 0..kDollarCents, yesAsk : 0..kDollarCents, yesBidSize : Nat, yesAskSize : Nat]

ASSUME RowsAssumption == Rows \in Seq(Row) /\ NoTicker \notin Tickers
\* No ticker is listed twice (Gemini's differ in more than case): a later row would take it from the first.
ASSUME TickersAssumption ==
  \A i, k \in DOMAIN Rows : \A v \in Venues :
    i # k /\ Rows[i].ticker[v] = Rows[k].ticker[v] => Rows[i].ticker[v] = NoTicker
\* The parsers drop a book with neither a bid nor an ask.
ASSUME BooksAssumption == Books \subseteq {b \in Book : b.yesBid > 0 \/ b.yesAsk > 0}
ASSUME MaxMarketsAssumption == MaxMarkets \in Nat

VARIABLES
  loaded,     \* rows of markets.csv read so far
  nextVid,    \* the next venue id to hand out
  ids,        \* per venue: the venue id of each ticker
  table,      \* the markets, in slots, with the last quote of each venue
  slotByVid,  \* the slot and venue of a venue id
  pc,         \* where each feed thread is
  link,       \* what its connection is doing
  backoff,    \* its backoff, in ms
  wait,       \* the wait it has read from the backoff
  callback,   \* where the message callback is
  view,       \* the market on_tick has copied
  sleeps,     \* history: sleeps since the connection was last open, up to 6
  last        \* history: the last quote sent by each venue for each market

tableVars == <<loaded, nextVid, ids, table, slotByVid>>
feedVars  == <<pc, link, backoff, wait, sleeps>>
readVars  == <<callback, view>>
vars == <<tableVars, feedVars, readVars, last>>

NoQuote(listed) ==
  [listed |-> listed, ask |-> [s \in Sides |-> 0], depth |-> [s \in Sides |-> 0]]
NoMarketRead == [market |-> 0, quote |-> [v \in Venues |-> NoQuote(FALSE)]]
IdleCallback == [pc |-> "idle", vid |-> 0, market |-> 0]

\* The map with each entry of `new` assigned to its key.
assign(map, new) ==
  [x \in DOMAIN new \cup DOMAIN map |-> IF x \in DOMAIN new THEN new[x] ELSE map[x]]

Init ==
  /\ loaded = 0 /\ nextVid = 1
  /\ ids = [v \in Venues |-> <<>>]
  /\ table = <<>> /\ slotByVid = <<>>
  /\ pc = [v \in Venues |-> "load"]
  /\ link = [v \in Venues |-> "none"]
  /\ backoff = [v \in Venues |-> 1000] /\ wait = [v \in Venues |-> 0]
  /\ callback = [v \in Venues |-> IdleCallback]
  /\ view = [v \in Venues |-> NoMarketRead]
  /\ sleeps = [v \in Venues |-> 0]
  /\ last = <<>>

-----------------------------------------------------------------------------
(* Loading markets.csv *)

\* Venue ids are handed out in column order, to the tickers a row has.
RowVid(row) ==
  [v \in Venues |->
     IF row.ticker[v] = NoTicker THEN 0
     ELSE nextVid + Cardinality({u \in Venues : u < v /\ row.ticker[u] # NoTicker})]

\* A table that registers as long as there is room, whatever is in it.
canRegisterTwice(market) == Len(table) < MaxMarkets

\* There is room, and the market is new.
canRegister(market) ==
  Len(table) < MaxMarkets /\ \A i \in DOMAIN table : table[i].market # market

Register(market, vid) ==
  IF ~canRegister(market) THEN UNCHANGED <<table, slotByVid>>
  ELSE LET slot == Len(table) + 1
           \* the venue whose id x is
           venueOf(x) == CHOOSE v \in Venues : vid[v] = x
           new == {vid[v] : v \in Venues} \ {0}
       IN  /\ table' = Append(table, [market |-> market,
                                      quote  |-> [v \in Venues |-> NoQuote(vid[v] # 0)]])
           /\ slotByVid' = assign(slotByVid, [x \in new |-> [slot |-> slot, venue |-> venueOf(x)]])

\* A row is named in `ids` whether it is registered or not.  The portfolio
\* registers its positions by the same rule.
LoadRow ==
  /\ loaded < Len(Rows)
  /\ LET row == Rows[loaded + 1]
         vid == RowVid(row)
     IN  /\ ids' = [v \in Venues |->
                      IF vid[v] = 0 THEN ids[v]
                      ELSE assign(ids[v], [ticker \in {row.ticker[v]} |-> vid[v]])]
         /\ nextVid' = nextVid + Cardinality({v \in Venues : vid[v] # 0})
         /\ Register(row.market, vid)
  /\ loaded' = loaded + 1
  /\ UNCHANGED <<feedVars, readVars, last>>

\* What the table should hold: the first row of each market, while there is room.
Registered(i) ==
  LET before == {Rows[k].market : k \in 1 .. (i - 1)}
  IN  Rows[i].market \notin before /\ Cardinality(before) < MaxMarkets

-----------------------------------------------------------------------------
(* The life of a connection *)

Goes(v, from, to) == pc[v] = from /\ pc' = [pc EXCEPT ![v] = to]

\* Which feeds run at all.
startKalshi     == Kalshi \in Keyed
startPolymarket == ids[Polymarket] # <<>> /\ Polymarket \in Keyed
startGemini     == ids[Gemini] # <<>>
Starts(v) ==
  \/ v = Kalshi /\ startKalshi
  \/ v = Polymarket /\ startPolymarket
  \/ v = Gemini /\ startGemini

Start(v) ==
  /\ loaded = Len(Rows)
  /\ Goes(v, "load", IF Starts(v) THEN "sign" ELSE "ended")
  /\ UNCHANGED <<tableVars, link, backoff, wait, sleeps, readVars, last>>

\* The headers are signed (Gemini's need no signature), start() is called.
Connect(v) ==
  /\ Goes(v, "sign", "watch")
  /\ link' = [link EXCEPT ![v] = "starting"]
  /\ UNCHANGED <<tableVars, backoff, wait, sleeps, readVars, last>>

Sleep(v) ==
  /\ wait' = [wait EXCEPT ![v] = backoff[v]]
  /\ sleeps' = [sleeps EXCEPT ![v] = IF @ < 6 THEN @ + 1 ELSE 6]

\* A failure to sign ends the feed, like missing keys.
SignFailsForGood(v) ==
  /\ v # Gemini
  /\ Goes(v, "sign", "ended")
  /\ UNCHANGED <<tableVars, link, backoff, wait, sleeps, readVars, last>>

SignFails(v) ==
  /\ v # Gemini
  /\ Goes(v, "sign", "sleep")
  /\ Sleep(v)
  /\ UNCHANGED <<tableVars, link, backoff, readVars, last>>

\* waitUntilWsClosed, which also sees a connection not yet started as closed.
SeesClosed(v) ==
  /\ link[v] \in {"starting", "closed"}
  /\ Goes(v, "watch", "stop")
  /\ UNCHANGED <<tableVars, link, backoff, wait, sleeps, readVars, last>>

\* stop() joins the library's thread; the backoff is read after it.
StopLink(v) ==
  /\ callback[v].pc = "idle"
  /\ Goes(v, "stop", "sleep")
  /\ link' = [link EXCEPT ![v] = "none"]
  /\ Sleep(v)
  /\ UNCHANGED <<tableVars, backoff, readVars, last>>

\* A backoff that never stops doubling.
nextWsBackoffUncapped(ms) == IF ms < 1000 THEN 1000 ELSE IF ms > 90000 THEN ms ELSE 2 * ms

nextWsBackoffMs(ms) ==
  IF ms < 1000 THEN 1000 ELSE IF 2 * ms > 30000 THEN 30000 ELSE 2 * ms

Wakes(v) ==
  /\ Goes(v, "sleep", "sign")
  /\ backoff' = [backoff EXCEPT ![v] = nextWsBackoffMs(wait[v])]
  /\ UNCHANGED <<tableVars, link, wait, sleeps, readVars, last>>

-----------------------------------------------------------------------------
(* The library's thread *)

LinkGoes(v, from, to) == link[v] \in from /\ link' = [link EXCEPT ![v] = to]

Begins(v) ==
  /\ LinkGoes(v, {"starting"}, "opening")
  /\ UNCHANGED <<tableVars, pc, backoff, wait, sleeps, readVars, last>>

\* An open that leaves the backoff as it is.
OpensOnly(v) ==
  /\ LinkGoes(v, {"opening"}, "open")
  /\ sleeps' = [sleeps EXCEPT ![v] = 0]
  /\ UNCHANGED <<tableVars, pc, backoff, wait, readVars, last>>

\* The open callback: reset the backoff and subscribe.
Opens(v) ==
  /\ LinkGoes(v, {"opening"}, "open")
  /\ backoff' = [backoff EXCEPT ![v] = 1000]
  /\ sleeps' = [sleeps EXCEPT ![v] = 0]
  /\ UNCHANGED <<tableVars, pc, wait, readVars, last>>

\* The handshake fails or times out, or the connection is lost.
Closes(v) ==
  /\ callback[v].pc = "idle"
  /\ LinkGoes(v, {"opening", "open"}, "closed")
  /\ UNCHANGED <<tableVars, pc, backoff, wait, sleeps, readVars, last>>

-----------------------------------------------------------------------------
(* Messages *)

\* Buying no is selling yes: its ask is the complement of the yes bid.
toQuote(book) ==
  [listed |-> TRUE,
   ask    |-> [s \in Sides |-> IF s = YesSided THEN book.yesAsk ELSE complementCents(book.yesBid)],
   depth  |-> [s \in Sides |-> IF s = YesSided THEN book.yesAskSize ELSE book.yesBidSize]]

\* Only the first quote of a market is taken.
acceptsFirstOnly(v, vid) ==
  /\ vid \in DOMAIN slotByVid /\ slotByVid[vid].venue = v
  /\ table[slotByVid[vid].slot].quote[v].ask = NoQuote(TRUE).ask

\* The venue id is known, and is one of this venue.
accepts(v, vid) == vid \in DOMAIN slotByVid /\ slotByVid[vid].venue = v

price_update(v, vid, quote) ==
  table' = IF accepts(v, vid) THEN [table EXCEPT ![slotByVid[vid].slot].quote[v] = quote]
           ELSE table

\* The market a ticker of a row should lead to, if the row was registered.
MarketsNamed(v, ticker) ==
  {Rows[i].market : i \in {k \in DOMAIN Rows : Rows[k].ticker[v] = ticker /\ Registered(k)}}

\* The message callback, up to on_tick: the venue sends what is subscribed.
Receive(v) ==
  /\ link[v] = "open"
  /\ callback[v].pc = "idle"
  /\ \E ticker \in DOMAIN ids[v] : \E book \in Books :
       LET vid == ids[v][ticker]
           quote == toQuote(book)
           named == MarketsNamed(v, ticker)
       IN  /\ price_update(v, vid, quote)
           /\ last' = assign(last, [key \in {<<v, m>> : m \in named} |-> quote])
           /\ callback' = [callback EXCEPT ![v] =
                [pc |-> "read", vid |-> vid, market |-> IF named = {} THEN 0 ELSE CHOOSE m \in named : TRUE]]
  /\ UNCHANGED <<loaded, nextVid, ids, slotByVid, feedVars, view>>

\* on_tick returns at once for a venue id without a slot.
CallbackReturns(v) == callback' = [callback EXCEPT ![v] = IdleCallback]

NoSlot(v) ==
  /\ callback[v].pc = "read"
  /\ callback[v].vid \notin DOMAIN slotByVid
  /\ CallbackReturns(v)
  /\ UNCHANGED <<tableVars, feedVars, view, last>>

\* getMarketAt: a copy of the whole market, made under the table's lock.
CopyMarket(v) ==
  /\ callback[v].pc = "read"
  /\ callback[v].vid \in DOMAIN slotByVid
  /\ view' = [view EXCEPT ![v] = table[slotByVid[callback[v].vid].slot]]
  /\ callback' = [callback EXCEPT ![v].pc = "decide"]
  /\ UNCHANGED <<tableVars, feedVars, last>>

\* The rest of on_tick is the subject of LiveTrading.
Decide(v) ==
  /\ callback[v].pc = "decide"
  /\ view' = [view EXCEPT ![v] = NoMarketRead]
  /\ CallbackReturns(v)
  /\ UNCHANGED <<tableVars, feedVars, last>>

-----------------------------------------------------------------------------
Feed(v) == Start(v) \/ Connect(v) \/ SignFails(v) \/ SeesClosed(v) \/ StopLink(v) \/ Wakes(v)
Library(v) == Begins(v) \/ Opens(v) \/ Closes(v)
Callback(v) == NoSlot(v) \/ CopyMarket(v) \/ Decide(v)

Next ==
  \/ LoadRow
  \/ \E v \in Venues : Feed(v) \/ Library(v) \/ Receive(v) \/ Callback(v)

Spec == Init /\ [][Next]_vars

(* Threads are scheduled; and signing, the library's start (before the first
   look at its state) and the handshake do not fail for ever. *)
FairSpec ==
  /\ Spec
  /\ WF_vars(LoadRow)
  /\ \A v \in Venues :
       /\ WF_vars(Feed(v)) /\ WF_vars(Callback(v)) /\ WF_vars(Begins(v))
       /\ SF_vars(Connect(v))
       /\ SF_vars(pc[v] = "watch" /\ Begins(v))
       /\ SF_vars(pc[v] = "watch" /\ Opens(v))

-----------------------------------------------------------------------------
(* Properties *)

MarketView == [market : Nat, quote : View]

\* A backoff, and the wait a thread took from one: 0 before the first.
Backoffs == 1000..30000
Waits    == 0..30000

(* Types.  In particular every market in the table, and every copy of one, is
   a view strategize accepts: prices between 0 and 100 cents, sizes not
   negative. *)
TypeOK ==
  /\ loaded \in 0..Len(Rows) /\ nextVid \in Nat
  /\ table \in Seq(MarketView) /\ Len(table) <= MaxMarkets
  /\ \A x \in DOMAIN slotByVid : slotByVid[x].slot \in DOMAIN table /\ slotByVid[x].venue \in Venues
  /\ pc \in [Venues -> {"load", "sign", "watch", "stop", "sleep", "ended"}]
  /\ link \in [Venues -> {"none", "starting", "opening", "open", "closed"}]
  /\ backoff \in [Venues -> Backoffs] /\ wait \in [Venues -> Waits]
  /\ callback \in [Venues -> [pc : {"idle", "read", "decide"}, vid : Nat, market : Nat]]
  /\ view \in [Venues -> MarketView]

(* The table holds, for each market and venue, the last quote that venue sent
   for that market and no other: not one of a row that was left out, of another
   venue, or of an earlier message, whatever the other feeds are doing
   (market_data.hpp:146-170). *)
QuoteIsLastSent ==
  \A i \in DOMAIN table : \A v \in Venues :
    LET key == <<v, table[i].market>>
    IN  IF key \in DOMAIN last THEN table[i].quote[v] = last[key]
        ELSE table[i].quote[v].ask = NoQuote(FALSE).ask

(* on_tick decides on the market its message was about, and sees the quote of
   that message even though the other feeds update the market in between
   (main.cpp:314-318, after price_update in the callback). *)
TickSeesItsQuote ==
  \A v \in Venues :
    callback[v].pc = "decide" =>
      /\ view[v].market = callback[v].market
      /\ view[v].quote[v] = last[<<v, callback[v].market>>]

Delays == <<1000, 2000, 4000, 8000, 16000, 30000>>

(* "If a price feed drops, we wait 1s then 2s, 4s, ... up to 30s" (README.md:114):
   the wait depends only on how often the feed slept since it was last open,
   whether the attempts failed to sign, to start, to shake hands, or opened
   just as the feed gave them up. *)
WaitFollowsFailures ==
  \A v \in Venues : pc[v] = "sleep" => wait[v] = Delays[sleeps[v]]

(* A feed with its keys and tickers has an open connection again and again, however often it
   is lost (the loops of the *_ws.cpp). *)
FeedsReturn ==
  \A v \in Venues : []<>(~Starts(v) \/ link[v] = "open")
=============================================================================
