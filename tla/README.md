# A TLA+ model of the cross-venue prediction market engine

The engine watches the same yes/no markets on Kalshi, Polymarket and Gemini.
When the cheapest *yes* and the cheapest *no*, fees included, cost less than the
dollar the pair pays, it buys one of each. This directory holds TLA+ modules
translated from the C++ under `src/src`, the TLC configurations that check them,
and theorems about them proved with TLAPS.

## 1. Inventory

| Component (source) | State | Operations | Interacts with | Modules |
| --- | --- | --- | --- | --- |
| Pricing and fees (`money.hpp`, `strategy.hpp:8`, `risk.hpp:92-131`) | none | cents, complements, `takerFee`, `legCost`, `chaseCeiling`, `fitSize`, `parseCents` | everything | Pricing, FitLoop, OrderClient |
| Strategy (`strategy.hpp`) | none | `strategize` | reads a `Market`, proposes two legs | Strategy |
| Risk (`risk.hpp`) | `RiskState`: halted, realized loss | `approve_pair`, `reserve_pair`, `release_pair`, `riskNoteFill` | reads a portfolio copy; reserves in the portfolio | Risk, and the two paths below |
| Portfolio (`portfolio.hpp`) | per venue: cash, exposure, reserved; per market: a position; one mutex | reservations, fills, cash refresh, startup lots | feeds, workers, page | Positions, PortfolioManager, Restart |
| Live order path (`main.cpp:64-196`, `258-419`) | one detached thread per job | `on_tick`, `liveSendPair`, `liveFlatten`, `sendVenueOrder`, `applyFill`, `flattenSurplus`, `refreshVenueCash` | all of the above and the venues over HTTP | LiveTrading |
| Busy flags (`live_busy.hpp`) | 16 slots (id, on), one mutex | `tryAcquire`, `release` | feeds take, workers clear | LiveBusy, MarketLock |
| Order clients (`*_order.cpp`) | none | build a request, read the reply | the venues | OrderClient, OrderPath |
| Request clocks (`kalshi_env.hpp:36`) | last stamp per venue (atomic) | `nextMonotonicMs` | every signed request | RequestClock, StampDispenser |
| Paper and replay (`main.cpp:348-357`, `401-456`, `execution.hpp`) | the same portfolio | local fills, `runReplay` | portfolio, risk | PaperTrading |
| Startup (`main.cpp:198-256`, `458-558`) | market tables | load markets, positions, first cash | portfolio, balance clients | MarketFeed, Restart, PaperTrading, Session |
| Balance and position clients (`*_http.cpp`) | none | one request, one number or a list | startup, `refreshVenueCash` | Restart, PaperTrading, LiveTrading (what they return) |
| Control page and main loop (`monitor.cpp`, `main.cpp:458-607`) | halted, trading, trade request, replay request/running/done, job count, mode flags | start, stop, replay, status | main thread, feeds, kill switch | Session |
| Market data (`market_data.hpp`) | up to 16 markets, three snapshots each, one mutex | `Register`, `price_update`, copies | feeds write, `on_tick` reads | MarketFeed |
| Feeds (`*_ws.cpp`, `ws_backoff.hpp`, `ws_reconnect.hpp`) | a connection and a backoff each | subscribe, message, reconnect | `price_update`, then `on_tick` | MarketFeed |
| Log worker, latency, tape files, parsers, benchmark, page | queues and counters | output | nothing decides on them | none |

### What is hard

* **Concurrency.** Three feed threads run `on_tick`; every job is a detached
  thread; the page has its own threads. Each lock covers one call, so anything
  read under one lock is old by the next: the portfolio copy of `on_tick`, the
  position read by `flattenSurplus`, the balance read by `refreshVenueCash`. On
  paper there is no busy flag at all.
* **Failure.** An order may be missed, filled at another price, or executed
  with its reply lost; a balance request may fail; the second leg may never
  fill; the sale of the leftover may be missed; the process may die at any step
  and keeps nothing on disk.
* **Ordering.** Fills are executed by a venue, reported and booked in three
  separate steps; the ceiling of one leg depends on the fill of the other; cash
  is given back at the prices it was reserved at, after the legs have moved.
* **Translation.** A leg is a different order on each venue (a Kalshi *no* is a
  *yes* at the complement), and the reply must be turned back.
* **Arithmetic.** Fees are rounded per order (up on Kalshi, to nearest
  elsewhere), so costs are not proportional to size and the one-contract test
  of the strategy and of the chase says little by itself about size *n*.
* **Halting.** The kill switch is tripped in the middle of a job; Stop comes at
  any time.

### What makes each component correct

* Pricing: `fitSize` returns the largest size that fits and its loops end; a
  chased pair does not cost more than it pays.
* Busy flags: one job per market, every flag is cleared in the end, and a market
  without a job can always be taken.
* Request clocks: no two requests to a venue carry one stamp.
* Order clients: a request asks for nothing worse than the leg; a fill is booked
  once, whole, and never as better than it was.
* Portfolio and risk: what is set aside is exactly what running jobs reserved;
  positions follow what the venues executed; the fee gate halts the engine.
* Live path: a pair bought with both legs keeps its edge; a leftover is sold,
  for the amount that is left, and reported sold only when the market balances.
* Startup: after a crash the book and the venues agree again.
* Paper and replay: whatever holdings a replay starts from, the markets it
  trades end in whole pairs and what it buys is within every limit; on paper the
  markets settle.
* Control page: a replay's paper fills are never traded on; no live order is
  sent unless `ASSISI_LIVE` has been 1; an accepted request is served.
* Feeds: a lost connection is re-established, backing off 1 s to 30 s; quotes
  land in the market and venue they belong to.

The hazards behind these, each at its line, are under `hazards` in
`PROJECT.json`; a hazard without a property carries a note.

## 2. Modules

```
Pricing ── FitLoop ── MCFitLoop
 │   └──── OrderClient ─┐
 │         RequestClock ┼─ OrderPath ── MCOrderPath
 │         LiveBusy ────┘     :  implements MarketLock and StampDispenser
Strategy ── MarketFeed ── MCMarketFeed
 │
Risk
 │
Positions
 │
PortfolioManager
 │        └── PaperTrading ── MCPaper
LiveTrading ── MCLive, MCUnreliable    :  implements MarketLock
 │        └── LiveClaims ── MCClaims
Restart ── MCRestart

Session ── SessionClaims ── MCSession
```

### The parts without threads

* **Pricing** – integer cents, the three fee schedules, leg and pair cost, the
  chase ceiling and `fitSize` as the place where its two walks stop.
* **FitLoop** – the same `fitSize` with one loop iteration per step.
* **Strategy**, **Risk** – `strategize` and `approve_pair` as functions of what
  they read (a view of a market; a copy of the book, the limits, the gate).
* **Positions** – what `portfolio.hpp` computes of one position: the blend of a
  bought lot, the cut of a sale, the surplus and the order that sells it.
* **PortfolioManager** – the variables `cash`, `exposure`, `reserved`, `pos` and
  one operator per public method. A method holds the mutex for its whole body,
  so each is atomic. A fill that sells more than is held is cut, as in the code.
* **OrderClient** – `Request` turns a leg into the words each venue uses;
  `Result` and `takeReportedFill` turn a reply (a status, and an average or a list
  of executions) into the fill that is booked, with the rounding of `parseCents`.

### The abstract specifications

* **MarketLock** – a market is held by no thread or by one: `Take`, `Pass` (a feed
  hands it to the worker it starts) and `Release`. Both `LiveTrading` (busy flags as
  a set, feeds and workers as threads) and `OrderPath` (the slot table, whole
  jobs) implement it; each states so as `LocksRefined`, with `holders` mapped to
  the threads that are working on each market.
* **StampDispenser** – a clock hands out stamps one at a time, each above all
  before. `RequestClock` implements it with `highest` mapped to the atomic
  (`StampsRefined`).

### The concurrent parts

* **LiveTrading** – the live engine.
  `feed[t]` is where a feed thread stands in `on_tick`: idle, at `tryBusy`, or
  holding the flag and about to reserve. `job[w]` is a detached thread with
  its local variables: the two legs at their current prices, the copy made
  at the reservation, the stage (first leg, second leg, flatten) and the
  pending fill or balance. A step is the code between two points where another
  thread can get in:

  | Action | Code |
  | --- | --- |
  | `FlattenTick`, `PairTick`, `QuietTick` | `on_tick` up to the busy flag, on one portfolio copy |
  | `TryBusy*`, `ReserveFails`, `Reserve` | `tryBusy`, `reserve_pair`, starting the thread |
  | `SendGivesUp`, `SendMissed`, `SendFilled`, `SendLost` | one turn of `sendSide`/`sendVenueOrder`: refused by the ceiling, no fill, a fill on its way back, an executed order whose reply is lost |
  | `ApplyFill`, `NoteFill`, `NoteFillTooLate`, `KillSwitch` | `applyFill`: the book, the fee gate, the halt |
  | `Release`, `Flatten` | `release_pair`, then `flattenSurplus` |
  | `GetBalance`, `GetBalanceFails`, `SetBalance` | `refreshVenueCash`, venue by venue |
  | `ClearBusy`, `WorkingEnd` | the end of both job bodies |
  | `Stop`, `Expire` | the page's stop; a market's expiration passing |

  `funds` and `owned` are the venues' own ledgers. The code never reads them
  except through a balance or position request; they are there to state what
  the book should agree with.
* **Restart** – `LiveTrading` inside a process that dies (`Crash`, between any two
  steps) and is started again. `boot` is `main` before the feeds run: it asks each
  venue for its positions (`LoadLots`, which adds them to an empty book by
  `addVenueLot`) and its cash (`FirstCash`), and goes on when a venue does not
  answer. `unseen` is history: the surplus the venues hold that no answer told of.
* **OrderPath** – one order from the busy flag to the book, in the detail
  `LiveTrading` leaves out. `order[t]` goes through `tryAcquire`, the request, the
  stamp (`signing[t]`: the wall clock, the load, the weak compare-exchange, each a
  step), the venue, the reply and `release`. Venues see requests only and
  decide by their words. Orders that may rest (paper's time in force) can be filled in
  part. `inYesCents` is a choice made at the start: in which side's cents Kalshi
  reports the price of a *no* fill, which the repository does not settle.
* **PaperTrading** – `on_tick` without live orders, after `main` has loaded the
  book. `Reports` are the sets of lots the venues may report (a venue that does not
  answer reports none); `unloaded` is what `main` has yet to add with
  `addVenueLot`, venue by venue (`LoadLot`), before it takes the venues' cash
  (`refreshVenueCash`) and is `up`. The lots are any: one side only, over the contract
  cap, one side on two venues, worth more than a tape's cash. A pair is filled by
  `Execute` at once, but booked leg by leg, each with its own pass over the fee gate
  (`ApplyFill`, `NoteFill`, `KillSwitch`), so feeds interleave between the legs.
  With `replay` one thread ticks at a time, and `StartReplay` sets each venue's cash to
  $100 and leaves positions and exposure as the venues reported and earlier tapes
  left them. `--replay`, which asks no venue, plays one tape and ends, is the case of
  an empty report and of nothing happening after the first tape. `found` is history: the total cash
  in the copy of the book that a buying tick has read.
* **Session** – the process around the engine: the main thread's polling loop
  and replays (`main`), each connection of the control page (`page[c]`), and the
  mode flags a running feed reads (`feed[t]`). The flags are separate variables
  of the program, so a start writes them in separate steps (`SetClockOnly`,
  `SetOverride`, `RequestTrade`) and `on_tick` reads them in separate steps
  (`Tick`, `CheckHalted`, `Send`). `sent` records which kinds of orders were
  sent and whether the portfolio held a replay's paper fills then. `permitted` is what
  `assisiLiveAllowed` would answer now: `envValue` looks for `ASSISI_LIVE` in the
  environment and, when it is not there, reads `.env` again at every call, so it
  may change at any time (`EditEnv`); with the variable in the environment it does
  not, and those are the behaviours without `EditEnv`. `granted` is history: it has been
  true at some moment since the launch. What the
  orders are is the business of `LiveTrading` and `PaperTrading`; the modules meet in
  `on_tick`, where `Session` decides whether an order is live.
* **MarketFeed** – from a venue's websocket to the view a tick trades on. The
  main thread fills `table` and `ids` from `markets.csv` (`LoadRow`, `Register`);
  then each feed thread goes round `sign`, `watch`, `stop`, `sleep` (`pc[v]`),
  while the library's thread moves its connection (`link[v]`) and runs the
  callbacks (`Opens`, `Receive`, `CopyMarket`, `Decide`). What `CopyMarket` reads
  is a `View` of `Strategy`; `TypeOK` says so, and this is what `LiveTrading` and
  `PaperTrading` assume of the views their ticks choose from. `sleeps` and `last`
  are history: the failures since the connection was open, and the last quote sent.
* **LiveClaims, SessionClaims** – statements of the repository's README that the
  code does not keep, one run each (section 4).
* The **MC** modules give quotes, orders, limits and bounds.

Some definitions stand next to a modelled one and are used by nothing
(`TakesBusyAlways`, `CeilingAtQuote`, `addVenueLotReplaces`, ...). Each is a plausible
slip in that piece of code; `mutants` in `PROJECT.json` names the run and the
property that notices it.

### Assumptions about what is outside `src/`

* Live orders are fill-or-kill (`*_order.cpp` ask for that), so a venue
  fills an order whole or not at all, a buy at or below its limit, and never
  lets its cash go below zero. It charges the fee `takerFee` computes.
  `OrderPath` derives the first half of this from the request, and checks as
  `FillIsWholeWithinLimit` what `LiveTrading` takes a reply for.
* A reply carries the number of contracts filled and possibly no price
  (`takeReportedFill` then books the limit, or its complement for a Kalshi NO
  sale).
* A balance request returns the venue's cash at the moment it is answered, a
  position request what the venue holds then. A crashed order was either
  executed or not before the next process asks.
* The wall clock may stand still or step back.
* The websocket library runs a connection and its callbacks on one thread.
  `start()` returns before that thread has run, and until then the connection
  reads as closed; `stop()` closes it and waits for a callback in progress. A
  venue sends quotes of the tickers that were subscribed.
* Closing a NO on Kalshi is buying a YES and costs its price plus the fee, as
  `updatePortfolio` books it.

## 3. Passing runs

| Run | Question | Size |
| --- | --- | --- |
| `fit_loops` | Do the loops of `fitSize` end at the largest size that fits, and does a chased pair still pay for itself at that size? | all nine venue pairs, prices at both rounding edges of the schedules, caps below, at and far above the cost; 27,404 states |
| `live_two_markets` | Does the live path keep its invariants when two feeds and two jobs share the cash of two venues? | two markets, two feeds, two workers, two counted ticks; 270,591 states |
| `live_unreliable` | Which of them survive lost replies, missing prices, failed balance requests, Stop and expiry, and is the lock still one? | one market, two feeds, two workers, two tries per leg; 403,618 states |
| `live_progress` | After a crash, does the book agree with the venues again? Do jobs end, does a halt drain the engine, is a leftover sold, by one process or the next? | one market, one feed, one worker, one crash, venues that may not answer; 39,064 states |
| `order_path` | Do slots and stamps do what they promise, do requests mean what legs say, is a fill booked as it was executed? | two jobs, two markets, two slots, four kinds of orders on three venues; 314,126 states |
| `paper_and_replay` | Whatever the venues reported, is what a replay buys within the limits, tape after tape, and does it leave whole pairs? Do paper positions settle although feeds book leg by leg with no flag? | one market, two feeds, three reports, two pairs, two tapes; 177,886 states |
| `session_modes` | Can starts, replays and stops that overlap, and edits of `.env`, make the process send live orders it should not send, or lose a request? | two connections, three start requests, one feed, all launch flags; 694,474 states |
| `market_feeds` | Do quotes land in the market and venue they belong to, does a tick see its own quote, do waits follow the documented schedule? | Kalshi and Gemini, four rows of which two are not registered, two books; 938,588 states |
| `feeds_return` | Is a lost connection opened again? | the same feeds, no messages, under fairness; 13,449 states |

What some properties except, and why.

* `IdleCashIsVenueCash` says that between jobs the cash in the book is the
  venue's. It is stated for jobs that do not overlap (one worker): with two, a
  balance answered before another job's fill and assigned after it is off until
  the next refresh. The README of the repository says that cash comes from the
  venues, not that it is never late.
* `LeftoverIsSold` excepts a halt and an expired market, after which `on_tick`
  starts no job, and a leftover that is not all at the venue the position
  remembers (`~Sellable`): a position has one venue per side, so contracts
  loaded from two venues after a crash, or bought on two (the second finding in
  section 4), are offered for sale where only some of them are.
* `BookNeverFlatters` and `FillIsWholeWithinLimit` except, on Kalshi's *no*, the one
  of buying and closing whose price is reported in the other side's cents
  (`ReadAsOtherSide`): the code reads the two in different units, so whichever
  unit Kalshi uses, one of them is read wrong, and the repository has no reply
  that would tell which.
* `ReplayKeepsLimits` is about ticks that trade. A book loaded over the contract
  cap, or with exposure that a tape's cash does not support, stays so while ticks only
  refuse: the limits gate what is bought and nothing reduces a holding but the sale of
  a leftover. So a tick that sells a leftover is only held to whole pairs, and a
  tick that buys to every limit, with all lots of its market and all exposure counted. The
  reserve is demanded of the two venues of the pair, the ones `approve_pair` looks at.
* `LiveNeedsPermission` does not say that a permission withdrawn later holds
  orders back: the live override of an accepted start stays (section 4).
* `PositionMatchesVenue` and `FlattenSellsSurplus` are checked where replies
  arrive; after a lost reply `SurplusMatchesVenue` says what a restart repairs.

What the bounds leave in. Two markets with cash for about one pair each make
the jobs of `live_two_markets` compete for both venues. The quotes are chosen so
that a leg can be chased by one cent and then reaches its ceiling, so that both
send orders occur (*yes* first; *no* first because only it is on Kalshi), and so
that the fees of a pair reach `max_drawdown`, which trips the kill switch inside
a job. Two counted ticks are enough for a second job to start during the first
one or to follow it on the same market; a job itself is not bounded except by
the chase. `live_unreliable` quotes one pair that is over its ceiling before the
first order and one with room for more tries than are allowed, to reach both
ways of giving up. Threads are symmetric in the safety runs; symmetry is not
used for liveness.

`SellPrices` has one price, 30 cents: a leftover offered at one cent is sold at
whatever the venue bids. `ChaseTries` is 15 in the code; the ceiling stops the
chase earlier in `live_two_markets`, and the other runs set it low to reach the
limit. `MaxTicks` bounds the ticks that start something. In `live_progress`
only ticks that lead to a pair are counted (`BoundFlattens` is false): ticks that
start a flatten are free, so "in the end" is not cut off by the bound. One
crash at any step is allowed: nothing survives it but the venues' ledgers and
what no answer told of (`unseen`), which the next process starts from.

`order_path` has as many slots as markets, the tightest table the registration
limit allows (sixteen of each in the code). Orders are for one contract and for
three, whose average has thirds of a cent; executions come in one part or two;
the wall clock shows two times, so that it stands still, steps back and forward;
the threads send two orders in all, on markets of their choice. The run may
end: `CHECK_DEADLOCK` is off because orders are bounded.

`paper_and_replay` prices its first pair so that the limits on money cut the
size of the next, and its second so that it runs into the contract cap; the fees
of a few fills reach `max_drawdown`. The reports are nothing; a pair and a leftover,
so that a pair is bought on loaded lots once the leftover is sold; and eleven contracts
against a cap of nine, one side of them from two venues, from which a tape can
only sell the leftover. Two pairs are enough for one to be booked between the legs
of another, and for one of each tape.

`session_modes` allows three start requests because the deepest mistake takes
three: a replay, another replay whose tape cannot be opened, and a start. Stop
is always possible. With one feed every interleaving of a tick with the writers
of the flags occurs; feeds do not interact in this module.

`market_feeds` has a table of two markets instead of sixteen, so that a row finds
it full, and one row that repeats a market. The backoff takes all its values.
The feeds share nothing but the table, so two of them meet in every way three
do; Polymarket's keys are missing, which is the third way to start. Messages
are left out of `feeds_return`, where only the connection matters.

**Fairness**, and nothing more than this:

* `FairProcess` (`Restart`): `main`, a started worker and a feed that has decided
  go on (threads are scheduled, no lock is held across a step, and the HTTP
  clients time out after 15 seconds); quotes keep arriving for a one-sided
  market; and a venue that is offered a leftover at one cent again and again
  takes it in the end. The last is strong fairness of one outcome of one request
  and is used by `LeftoverIsSold` only. Nothing says that an ordinary order
  fills, that the process crashes or does not, or that Stop is not pressed.
* `PaperTrading`: `main` loads the book (every request ends, answered or not),
  threads are scheduled, and on paper quotes keep arriving for a
  one-sided market. A tape may end at any row, so nothing is assumed of a
  replay's ticks.
* `Session`: the main thread is scheduled and a tape has an end; nothing is
  assumed of the page or the feeds.
* `MarketFeed`: threads are scheduled, and signing, the race of the library's
  start with the first look at the connection, and the handshake do not go wrong
  for ever: the network and the library decide these, not the code, and without
  them no loop of attempts succeeds.
* `FitLoop`: the loop goes on.

## 4. Runs that find the code and its documentation apart

| Run | Documentation | What happens |
| --- | --- | --- |
| `claim_contract_cap` | README "Cap on yes+no contracts per market" | A feed copies the portfolio; another feed's job buys a pair, ends and frees the flag; the first feed, still holding its approval, buys a full pair on top. |
| `claim_leftover_venue` | README "If the pair is still one-sided (live or paper), sell the leftover" | In the same way a pair is bought on top of a leftover, with the venues exchanged. The leftover is now on two venues, and the order that sells it asks the last one for contracts it does not hold. |
| `claim_replay_refused` | README "After a UI replay ... Paper / Clock / Live are refused (409) until the process restarts" | A second replay whose tape cannot be opened clears `replay_done`, and the next start is accepted. `NoLiveOrderOnReplayFills` shows that the orders of that session are paper ones, because the replay flag never comes down. |

One more sentence differs from the code and has no run of its own. The README says that
"Live is off unless `ASSISI_LIVE` is exactly `1` at launch" and that the UI cannot enable
it. When the variable is not in the environment, `envValue` reads `.env` at every
call (`kalshi_env.hpp:20-32`, `65-78`; `monitor.cpp:416`): writing `ASSISI_LIVE=1` into
the file makes a process launched without it send live orders, either because no
mode was chosen on the page (`--trade`) or because a live start is now accepted. Taking
it out again stops the former and not the latter, whose override stays.
`Session` models this, and `LiveNeedsPermission` states what holds: live orders only
if the permission was there at some moment since the launch, and so never when the
environment itself has another value.

## 5. Proofs

TLC shows a property for two threads of each kind; the theorems below hold for
any sets of feeds, workers, connections and markets, any limits, any quotes and
any number of ticks, orders, tapes, crashes and requests. Every invariant and
action property that a passing run checks, and the refinements, are theorems. They assume the `ASSUME`s of
the modules they are about and nothing else, except where a hypothesis is named
below. The `ASSUME`s give the constants their types and say that `NoMarket` is not
a market; that a thread is a feed or a worker, not both (`LiveTrading`); that the
threads (`OrderPath`) and the markets (`Restart`, `LiveBusy`) are finitely many; that there
are no more markets than slots (`LiveBusy`), orders are for at least one contract
(`OrderPath`), no ticker is listed twice and a book has a bid or an ask
(`MarketFeed`, where the parsers drop the others).

```
PricingProofs ─┬─ FitProofs
               ├─ LiveTradingProofs ── PortfolioProofs
               ├─ PaperProofs
               └─ OrderProofs
FeedProofs        SessionProofs
```

### Pure parts (`PricingProofs`, `FitProofs`)

`PricingProofs` holds the lemmas the others cite: fees are natural numbers, a
dearer contract never costs less with its fee, costs and sizes have their types,
`strategize` proposes pairs of priced buys and `approve_pair` approves a size within
every limit, a blended average is a natural number, selling a leftover balances the
position, and contracts that are held name a venue. Sums over finite sets
(`SumFunction`) have their laws there too. The sum is a fold whose order is a
`CHOOSE`; that it does not depend on the order is shown by a least
counterexample (the naturals are well-founded), because the induction theorems of the
library cannot be instantiated.

* **`FitSizeType`** – `fitSize` never exceeds the size asked for, and a positive
  result fits the cap, for any cost function.
* **`FitTyped`, `ReturnsLargestFitHolds`, `LoopsReturnFitSizeHolds`** – the invariant is
  what the walks have seen (`FitInv`): going down, every size between the loop variable
  and the estimate was over the cap; going up, every size since the turn fits. That
  the result is the *largest* needs that one more contract never costs less, with the
  fee rounded for the whole order.
* **`ChasedPairBreaksEvenHolds`** – hypothesis: a chase reserve of at least one
  cent. Rounding the fee of *n* contracts at once instead of *n* times costs at
  most half a cent a contract and leg, which the reserve covers.

### The live path (`LiveTradingProofs`)

* **`OneJobPerMarketHolds`**. `OneJobPerMarket` alone is not inductive: it says
  nothing of a feed that has taken the flag and has not yet started its worker.
  The invariant is *ownership* (`OneOwner`): feeds at the reservation and active
  workers own their market, no two owners share one, and the flag of every owned
  market is on. `Shape` and `Phases` say which fields a thread record has and which
  stages go with which steps. Each step of a job but the last two keeps its
  market (`JobStepStillRunning`), so only `tryBusy`, `Reserve` and `ClearBusy` matter.
* **`TypesHold`**. `TypeOK` is not inductive either: an average in the book is a
  natural number only if a fill's price is not negative, and a position can be
  read only for a registered market. `Ready` adds that, and that pairs are buys and
  leftovers sales at one cent.
* **`LocksRefinedHolds`**. Under ownership every step of the engine is a step of
  `MarketLock` or a stutter: taking the flag is `Take` (the flag is off, so no one
  holds the market), `Reserve` is `Pass`, a refused reservation and `ClearBusy`
  are `Release`, and every other step leaves the holders alone.
* **`PairKeepsEdgeHolds`**. What the ceiling was compared with is still so when the
  fill is booked (`EdgeOf`): the first leg's price is final when the second is
  chased, a buy is filled at its limit or cheaper, and a fee does not grow by more
  than the price falls, so a pair within the ceiling stays within it.

### The portfolio, and restarts (`PortfolioProofs`)

* **`ReservedIsHeldHolds`**. The cents each worker holds, tagged with the worker,
  form a set; `reserved[v]` is its cardinality. A worker holds its pair's cost
  exactly from `Reserve` to `Release` (`HoldOK`), and its copy of the legs does not
  change in between, however often the legs do. Then `Reserve` is a disjoint
  union (`CentsAdded`) and `Release` a difference (`CentsRemoved`), and the floor at
  zero in `releaseReserveUnlocked` is never reached.
* **`FlattenSellsSurplusHolds`, `FlattenBalancesHolds`**. The invariant follows the
  sale from the reading of the position to its booking (`SellsLeftoverOf`): the
  order is for the surplus of the position *now*, the fill is for the order, and
  after booking nothing is left. It survives the steps of other jobs because they
  are on other markets (`LockInv`). A leftover always has a venue to be sold on
  (`VenuesKnown`: contracts in the book were bought somewhere).
* **`KillSwitchHaltsHolds`**. The property is inductive over `LockInv`: a tripped
  gate is never reset, the losses only grow because fees are natural numbers, and
  only the worker at `KillSwitch` leaves that place.
* **`PositionMatchesVenueHolds`** – hypothesis: replies arrive (`~LostReplies`). The
  *lag*, what the venues hold less what the book holds and what is on its way to
  it, does not change (`LagStays`). At most one worker is active on a market, so
  at most one fill is on its way to it; an executed order puts it there, and
  `ApplyFill` books all of it: a sale is never cut, because it is for the surplus.
* **`SurplusMatchesVenueHolds`** – hypothesis: replies arrive. Across crashes the lag
  is what `unseen` records: a crash sets both to what the venues hold, loading a
  venue's positions takes the same from both, and no other step moves either.
  A process that is not yet up rests (`Loading`), so what the live path keeps true
  of running jobs is true of none.
* **`RestartsKeepPromises`**. All safety properties of `LiveTrading` hold in every
  process. `Init` starts from an empty book, a restart from what the venues report:
  positions on one or both sides, averages, cash. The theorem says that
  no invariant needs the empty book.
* **`IdleCashIsVenueCashHolds`** – hypotheses: balance requests are answered
  (`~RefreshFails`) and jobs do not overlap (`[]NoOverlap`; one worker satisfies it).
  A refresh that is at venue *n* has left the venues before *n* right (`CashKnown`),
  because nobody else moves money meanwhile.

### Paper and replays (`PaperProofs`)

* **`PaperTypesHold`**. As on the live path, but legs of several feeds may be
  booked between each other, and sales may be cut to what is left.
* **`ReplayKeepsLimitsHolds`**. In the middle of a tick that buys, a replay's book is
  within no limit: one leg of a pair is booked and the other due. The invariant
  (`ReplayInv`) is about the book as it *will* be, held and due together (`Keeps`):
  booking a fill moves its cents from cash to exposure and its contracts from due to
  held, so what `approve_pair` approved at the start of the tick is still so at its
  end. It speaks of the tick's own market and of the venues of its legs only, and
  of nothing between ticks, because the book a replay starts from may break every
  limit elsewhere: all that is kept of other markets and venues is their types, and that
  contracts in the book name a venue. A tick that sells a leftover has booked
  nothing yet, or has left its market balanced. It needs that one thread ticks at a time in
  a replay, and says nothing of paper trading, where feeds interleave. Reports,
  averages and cash are any.

### One order (`OrderProofs`)

* **`SlotsRefineLock`, `SlotForEveryMarketHolds`**. The slots are in order
  (`SlotsInOrder`: no market has two, a free one is off) and a working thread keeps
  its market's flag on. That a market without a slot always finds a free one is
  the pigeonhole principle: the used slots map one to one into the other markets,
  of which there are fewer than `kMax`.
* **`StampsRefinedHolds`**. A swap succeeds only if the atomic still is what was
  loaded, and the candidate is above that.
* **`RequestMeansLegHolds`, `BookNeverFlattersHolds`, `FillIsWholeWithinLimitHolds`**. A
  fill is followed from the leg to the book: what the request asks for
  (`RequestIs`), what its executions can be (`ExecutionsAreFair`), what they cost or earn
  (`NothingWorse`), what the reply says of them (`ResultIs`) and what is booked of it
  (`FillIsGood`). The arithmetic is that the mean of prices within a limit, rounded
  to a cent, is within the limit and at most half a cent from the mean.
* **`ReportedIsBookedHolds`**. The contracts on their way are a sum over the threads
  whose reply is being read; one step adds or removes one of them.

### Feeds (`FeedProofs`)

* **`WaitFollowsFailuresHolds`**. Between two sleeps the backoff already holds the
  next wait (`BackoffInv`); the open callback resets it only while the feed
  watches, never while it sleeps, as the connection is stopped before.
* **`FeedTypesHold`, `QuoteIsLastSentHolds`, `TickSeesItsQuoteHolds`**. A ticker leads
  to the row it is listed in, a venue id to the slot of that row's market, and
  rows loaded later take neither away (`TableInv`, `IdsInv`); a slot's quote of a venue is
  written only by that venue's callback, which runs on one thread.

### The page (`SessionProofs`)

* **`LiveNeedsPermissionHolds`**. The property says nothing of a start that was let
  through and has not yet written the mode; `Permission` adds that such a start,
  a live mode, and the permission itself, come with the history `granted`. The
  permission may be withdrawn at any step between the page's check and an order,
  so the argument cannot be about `permitted`, which such a start no longer has.
* **`NoLiveOrderOnReplayFillsHolds`**. The portfolio holds paper fills only while the
  replay flag is up (`FlagUp`), and no step takes it down.
* **`LiveOnlyIfAskedHolds`, `SessionTypesHold`**. With `ASSISI_LIVE=1` the default mode
  is live, so the argument needs that no feed runs before a start has overridden
  it (`Overridden`), and that a live override was asked for (`Asked`).

### Only model-checked

* All liveness (`Terminates`, `JobsFinish`, `StopDrains`, `LeftoverIsSold`, `PaperSettles`,
  `RequestsServed`, `FeedsReturn`): it needs fairness and `ENABLED`, which are beyond
  the provers used here.
* The three claims of section 4, which are false.
* What `MarketViews` contains. That every view a tick reads is a `View` is proved
  (`FeedTypesHold`), but `LiveTrading` and `PaperTrading` take the views as a constant; the
  modules are not composed into one specification.

## 6. What could be added

* Names of tapes in `Session`: `monitorReplayState` writes the name of the tape
  and may overwrite that of a request made since.
* That `LiveTrading`'s `SendFilled` and `ApplyFill` are an abstraction of one round of
  `OrderPath`, as a refinement instead of the property `FillIsWholeWithinLimit`.

## 7. Not modelled

* String parsing and formatting (`json_find.hpp`, `parse_book.hpp`, tickers and keys),
  request signing, HTTP and TLS: a request fails or returns a value, and the
  values are enumerated. Which JSON field of a balance is read is therefore not
  covered.
* The tape and log writers, the latency ring, the benchmark and the page's
  markup: no decision of the engine depends on their state.
* How long a quote may be old: quotes of a venue whose feed is down stay in
  the table and are traded on; nothing in the repository limits their age.
* Integers are unbounded: 32-bit overflow in `approve_pair` would need an equity of
  some 300,000 dollars. The data race on `expired_logged` only affects a log line.
