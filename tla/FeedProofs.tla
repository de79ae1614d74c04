----------------------------- MODULE FeedProofs -----------------------------
(***************************************************************************)
(* The feeds and the market table, for any rows of markets.csv and any     *)
(* books.  First the reconnect delays: between two sleeps the backoff      *)
(* already holds the next wait, and it is reset only by an open, which     *)
(* cannot come while the feed sleeps.  Then the table: a ticker leads to   *)
(* the row it is listed in, a venue id to the slot of that row's market,   *)
(* and what a venue sent stays in that slot until it sends again.          *)
(***************************************************************************)
EXTENDS MarketFeed, FiniteSetTheorems, SequenceTheorems, TLAPS

\* The wait that follows n sleeps since the connection was last open.
NextDelay(n) == Delays[IF n < 6 THEN n + 1 ELSE 6]

BackoffInv ==
  /\ DOMAIN pc = Venues /\ DOMAIN link = Venues /\ DOMAIN backoff = Venues
  /\ DOMAIN wait = Venues /\ DOMAIN sleeps = Venues
  /\ \A v \in Venues :
       /\ sleeps[v] \in 0..6
       /\ pc[v] # "sleep" => backoff[v] = NextDelay(sleeps[v])
       /\ pc[v] = "sleep" => sleeps[v] \in 1..6 /\ wait[v] = Delays[sleeps[v]]
       /\ link[v] # "none" => pc[v] \in {"watch", "stop"}

LEMMA DelayValues ==
  /\ NextDelay(0) = 1000 /\ NextDelay(1) = 2000 /\ NextDelay(2) = 4000
  /\ NextDelay(3) = 8000 /\ NextDelay(4) = 16000 /\ NextDelay(5) = 30000
  /\ NextDelay(6) = 30000
  /\ Delays[1] = 1000 /\ Delays[2] = 2000 /\ Delays[3] = 4000
  /\ Delays[4] = 8000 /\ Delays[5] = 16000 /\ Delays[6] = 30000
  BY DEF NextDelay, Delays

\* nextWsBackoffMs steps through the delays and stays at the last.
LEMMA BackoffSteps ==
  ASSUME NEW n \in 1..6
  PROVE  nextWsBackoffMs(Delays[n]) = NextDelay(n)
  BY DelayValues DEF nextWsBackoffMs

LEMMA SleepSteps ==
  ASSUME NEW n \in 0..6
  PROVE  /\ (IF n < 6 THEN n + 1 ELSE 6) \in 1..6
         /\ NextDelay(n) = Delays[IF n < 6 THEN n + 1 ELSE 6]
  BY DEF NextDelay

LEMMA BackoffInit == Init => BackoffInv
  BY DelayValues DEF Init, BackoffInv

LEMMA BackoffFeed ==
  ASSUME BackoffInv, NEW v \in Venues, Feed(v)
  PROVE  BackoffInv'
  <1>1. CASE Start(v) \/ Connect(v) \/ SeesClosed(v)
    BY <1>1 DEF Start, Connect, SeesClosed, Goes, BackoffInv
  <1>2. CASE SignFails(v)
    BY <1>2, SleepSteps DEF SignFails, Goes, Sleep, BackoffInv
  <1>3. CASE StopLink(v)
    BY <1>3, SleepSteps DEF StopLink, Goes, Sleep, BackoffInv
  <1>4. CASE Wakes(v)
    BY <1>4, BackoffSteps DEF Wakes, Goes, BackoffInv
  <1> QED
    BY <1>1, <1>2, <1>3, <1>4 DEF Feed

LEMMA BackoffLibrary ==
  ASSUME BackoffInv, NEW v \in Venues, Library(v)
  PROVE  BackoffInv'
  <1>1. CASE Begins(v) \/ Closes(v)
    BY <1>1 DEF Begins, Closes, LinkGoes, BackoffInv
  <1>2. CASE Opens(v)
    BY <1>2, DelayValues DEF Opens, LinkGoes, BackoffInv
  <1> QED
    BY <1>1, <1>2 DEF Library

LEMMA BackoffNext == BackoffInv /\ [Next]_vars => BackoffInv'
  <1> SUFFICES ASSUME BackoffInv, [Next]_vars PROVE BackoffInv'
    OBVIOUS
  <1>1. CASE UNCHANGED feedVars
    BY <1>1 DEF feedVars, BackoffInv
  <1>2. ASSUME NEW v \in Venues, Receive(v) \/ Callback(v) PROVE UNCHANGED feedVars
    BY <1>2 DEF Receive, Callback, NoSlot, CopyMarket, Decide
  <1> QED
    BY <1>1, <1>2, BackoffFeed, BackoffLibrary DEF Next, LoadRow, vars

(* A feed waits 1 s, 2 s, 4 s, 8 s, 16 s and then 30 s, by the number of its
   sleeps since the connection was last open, however the attempts failed
   (kalshi_ws.cpp and its siblings, README.md:114). *)
THEOREM WaitFollowsFailuresHolds == Spec => []WaitFollowsFailures
  <1>1. BackoffInv => WaitFollowsFailures
    BY DEF BackoffInv, WaitFollowsFailures
  <1> QED
    BY <1>1, BackoffInit, BackoffNext, PTL DEF Spec

-----------------------------------------------------------------------------
(* The table of markets *)

\* The markets of the first n rows.
Before(n) == {Rows[k].market : k \in 1..n}

TableMarkets == {table[i].market : i \in DOMAIN table}

(* While there is room, the table has the market of every row that was read,
   once each. *)
TableInv ==
  /\ loaded \in 0..Len(Rows)
  /\ table \in Seq(MarketView) /\ Len(table) <= MaxMarkets
  /\ \A i, k \in DOMAIN table : table[i].market = table[k].market => i = k
  /\ IsFiniteSet(Before(loaded)) /\ TableMarkets \subseteq Before(loaded)
  /\ Cardinality(TableMarkets) = Len(table)
  /\ Len(table) < MaxMarkets => TableMarkets = Before(loaded)

\* Venue id x is the one row i has on venue v, and leads to its market if the
\* row was registered.
IdOfRow(v, x, i, slots, markets) ==
  /\ x \in DOMAIN slots <=> Registered(i)
  /\ x \in DOMAIN slots =>
       slots[x].venue = v /\ markets[slots[x].slot].market = Rows[i].market

(* Every ticker that is subscribed is that of a row that was read. *)
IdsInv ==
  /\ nextVid \in Nat \ {0} /\ DOMAIN ids = Venues
  /\ \A v \in Venues : \A ticker \in DOMAIN ids[v] :
       /\ ticker # NoTicker /\ ids[v][ticker] \in 1..(nextVid - 1)
       /\ \E i \in 1..loaded : Rows[i].ticker[v] = ticker
                                /\ IdOfRow(v, ids[v][ticker], i, slotByVid, table)
  /\ \A x \in DOMAIN slotByVid :
       /\ x \in 1..(nextVid - 1)
       /\ slotByVid[x].slot \in DOMAIN table /\ slotByVid[x].venue \in Venues

(* What was sent was sent for a market of the table. *)
SentInv ==
  \A key \in DOMAIN last : \E v \in Venues : \E i \in DOMAIN table : key = <<v, table[i].market>>

(* A callback between price_update and its decision: its quote is the last one
   of its venue for its market, in the table and then in its copy. *)
OwnQuote(v, market, copy) ==
  /\ <<v, market>> \in DOMAIN last
  /\ copy.market = market /\ copy.quote[v] = last[<<v, market>>]

CallsInv ==
  /\ callback \in [Venues -> [pc : {"idle", "read", "decide"}, vid : Nat, market : Nat]]
  /\ view \in [Venues -> MarketView]
  /\ \A v \in Venues :
       /\ callback[v].pc = "read" =>
            /\ callback[v].vid \in 1..(nextVid - 1)
            /\ callback[v].vid \in DOMAIN slotByVid =>
                 OwnQuote(v, callback[v].market, table[slotByVid[callback[v].vid].slot])
       /\ callback[v].pc = "decide" => OwnQuote(v, callback[v].market, view[v])

LinkInv ==
  /\ pc \in [Venues -> {"load", "sign", "watch", "stop", "sleep", "ended"}]
  /\ link \in [Venues -> {"none", "starting", "opening", "open", "closed"}]
  /\ backoff \in [Venues -> Backoffs] /\ wait \in [Venues -> Waits]

QuoteInv == TableInv /\ IdsInv /\ QuoteIsLastSent /\ SentInv /\ CallsInv /\ LinkInv

LEMMA TableShape ==
  ASSUME TableInv
  PROVE  /\ Len(table) \in Nat /\ DOMAIN table = 1..Len(table)
         /\ table \in [1..Len(table) -> MarketView]
  BY LenProperties DEF TableInv

LEMMA RowType ==
  ASSUME NEW i \in 1..Len(Rows)
  PROVE  Rows[i] \in Row
  BY RowsAssumption, ElementOfSeq

LEMMA AssignAt ==
  ASSUME NEW map, NEW new
  PROVE  /\ DOMAIN assign(map, new) = DOMAIN new \cup DOMAIN map
         /\ \A x \in DOMAIN new : assign(map, new)[x] = new[x]
         /\ \A x \in DOMAIN map \ DOMAIN new : assign(map, new)[x] = map[x]
  BY DEF assign

-----------------------------------------------------------------------------
(* Loading a row *)

One(b) == IF b THEN 1 ELSE 0

LEMMA VenueCount ==
  ASSUME NEW N \in SUBSET Venues
  PROVE  Cardinality(N) = One(Kalshi \in N) + One(Polymarket \in N) + One(Gemini \in N)
  <1> DEFINE A == N \cap {Kalshi}
             B == N \cap {Kalshi, Polymarket}
  <1>0. IsFiniteSet({}) /\ Cardinality({}) = 0
    BY FS_EmptySet
  <1>1. IsFiniteSet(A) /\ Cardinality(A) = One(Kalshi \in N)
    <2>1. CASE Kalshi \in N
      <3>1. A = {} \cup {Kalshi} /\ Kalshi \notin {}
        BY <2>1
      <3> HIDE DEF A
      <3>2. IsFiniteSet({} \cup {Kalshi}) /\ Cardinality({} \cup {Kalshi}) = 0 + 1
        BY <1>0, <3>1, FS_AddElement
      <3> QED
        BY <2>1, <3>1, <3>2 DEF One
    <2>2. CASE Kalshi \notin N
      <3>1. A = {}
        BY <2>2
      <3> HIDE DEF A
      <3> QED
        BY <1>0, <2>2, <3>1 DEF One
    <2> QED
      BY <2>1, <2>2
  <1>2. IsFiniteSet(B) /\ Cardinality(B) = Cardinality(A) + One(Polymarket \in N)
    <2>1. CASE Polymarket \in N
      <3>1. B = A \cup {Polymarket} /\ Polymarket \notin A
        BY <2>1 DEF Kalshi, Polymarket
      <3> HIDE DEF A, B
      <3> QED
        BY <1>1, <2>1, <3>1, FS_AddElement DEF One
    <2>2. CASE Polymarket \notin N
      <3>1. B = A
        BY <2>2
      <3> HIDE DEF A, B
      <3>2. Cardinality(A) \in Nat
        BY <1>1, FS_CardinalityType
      <3> QED
        BY <1>1, <2>2, <3>1, <3>2 DEF One
    <2> QED
      BY <2>1, <2>2
  <1>3. Cardinality(N) = Cardinality(B) + One(Gemini \in N)
    <2>1. CASE Gemini \in N
      <3>1. N = B \cup {Gemini}
        BY <2>1 DEF Venues
      <3>2. Gemini \notin B
        BY DEF Kalshi, Polymarket, Gemini
      <3> HIDE DEF B
      <3> QED
        BY <1>2, <2>1, <3>1, <3>2, FS_AddElement DEF One
    <2>2. CASE Gemini \notin N
      <3>1. N = B
        BY <2>2 DEF Venues
      <3> HIDE DEF B
      <3>2. Cardinality(B) \in Nat
        BY <1>2, FS_CardinalityType
      <3> QED
        BY <2>2, <3>1, <3>2 DEF One
    <2> QED
      BY <2>1, <2>2
  <1> QED
    BY <1>1, <1>2, <1>3

\* The ids handed out to the next row.
NewVid == RowVid(Rows[loaded + 1])
VidsUsed == Cardinality({v \in Venues : NewVid[v] # 0})

LEMMA NewVidIs ==
  ASSUME nextVid \in Nat \ {0}
  PROVE  /\ VidsUsed \in Nat
         /\ \A v \in Venues :
              /\ NewVid[v] \in Nat
              /\ NewVid[v] = 0 <=> Rows[loaded + 1].ticker[v] = NoTicker
              /\ NewVid[v] # 0 => NewVid[v] \in nextVid..(nextVid + VidsUsed - 1)
         /\ \A u, v \in Venues : NewVid[u] = NewVid[v] /\ NewVid[u] # 0 => u = v
  <1> DEFINE named(v) == Rows[loaded + 1].ticker[v] # NoTicker
             under(v) == {u \in Venues : u < v /\ named(u)}
  <1>1. /\ Cardinality(under(Kalshi)) = 0
        /\ Cardinality(under(Polymarket)) = One(named(Kalshi))
        /\ Cardinality(under(Gemini)) = One(named(Kalshi)) + One(named(Polymarket))
    <2>1. \A v \in Venues : under(v) \in SUBSET Venues
      OBVIOUS
    <2>2. /\ \A u \in Venues : u \notin under(Kalshi)
          /\ \A u \in Venues : u \in under(Polymarket) <=> u = Kalshi /\ named(u)
          /\ \A u \in Venues : u \in under(Gemini) <=> u # Gemini /\ named(u)
      BY DEF Venues, Kalshi, Polymarket, Gemini
    <2>3. \A b : One(b) \in Nat
      BY DEF One
    <2>4. Kalshi \in Venues /\ Polymarket \in Venues /\ Gemini \in Venues
          /\ Kalshi # Polymarket /\ Polymarket # Gemini /\ Kalshi # Gemini
      BY DEF Venues, Kalshi, Polymarket, Gemini
    <2> HIDE DEF under, named
    <2>5. Cardinality(under(Kalshi)) = 0
      BY <2>1, <2>2, <2>4, VenueCount DEF One
    <2>6. Cardinality(under(Polymarket)) = One(named(Kalshi))
      BY <2>1, <2>2, <2>4, VenueCount DEF One
    <2>7. Cardinality(under(Gemini)) = One(named(Kalshi)) + One(named(Polymarket))
      BY <2>1, <2>2, <2>4, VenueCount DEF One
    <2> QED
      BY <2>5, <2>6, <2>7
  <1>2. \A v \in Venues : NewVid[v] = IF named(v) THEN nextVid + Cardinality(under(v)) ELSE 0
    BY DEF NewVid, RowVid
  <1> HIDE DEF named, under
  <1>3. \A v \in Venues : Cardinality(under(v)) \in Nat
    BY <1>1 DEF One, Venues
  <1>4. \A v \in Venues : NewVid[v] \in Nat /\ (NewVid[v] # 0 <=> named(v))
    BY <1>2, <1>3
  <1>5. VidsUsed = One(named(Kalshi)) + One(named(Polymarket)) + One(named(Gemini))
    <2> DEFINE N == {v \in Venues : NewVid[v] # 0}
    <2>1. N \in SUBSET Venues /\ VidsUsed = Cardinality(N)
      BY DEF VidsUsed
    <2>2. (Kalshi \in N <=> named(Kalshi)) /\ (Polymarket \in N <=> named(Polymarket))
          /\ (Gemini \in N <=> named(Gemini))
      BY <1>4 DEF Venues
    <2> HIDE DEF N
    <2> QED
      BY <2>1, <2>2, VenueCount DEF One
  <1>6. /\ named(Kalshi) => NewVid[Kalshi] = nextVid
        /\ named(Polymarket) => NewVid[Polymarket] = nextVid + One(named(Kalshi))
        /\ named(Gemini) => NewVid[Gemini] = nextVid + One(named(Kalshi)) + One(named(Polymarket))
    BY <1>1, <1>2, <1>3 DEF Venues, One
  <1>7. \A u, v \in Venues : NewVid[u] = NewVid[v] /\ NewVid[u] # 0 => u = v
    BY <1>4, <1>6 DEF Venues, One, Kalshi, Polymarket, Gemini
  <1>8. \A v \in Venues : NewVid[v] # 0 => NewVid[v] \in nextVid..(nextVid + VidsUsed - 1)
    BY <1>4, <1>5, <1>6 DEF Venues, One, Kalshi, Polymarket, Gemini
  <1> QED
    BY <1>4, <1>5, <1>7, <1>8 DEF named, One

CanRegister == canRegister(Rows[loaded + 1].market)
NewSlot == Len(table) + 1

\* A row that is read changes nothing of the earlier ones.
LEMMA LoadSlots ==
  ASSUME TableInv, IdsInv, LoadRow
  PROVE  /\ loaded + 1 \in 1..Len(Rows) /\ Rows[loaded + 1] \in Row
         /\ \A i \in DOMAIN table : i \in DOMAIN table' /\ table'[i] = table[i]
         /\ \A i \in DOMAIN table' : i \in DOMAIN table \/ (CanRegister /\ i = NewSlot)
         /\ CanRegister =>
              /\ NewSlot \in DOMAIN table'
              /\ table'[NewSlot] = [market |-> Rows[loaded + 1].market,
                                    quote  |-> [v \in Venues |-> NoQuote(NewVid[v] # 0)]]
         /\ \A x \in 1..(nextVid - 1) :
              /\ x \in DOMAIN slotByVid' <=> x \in DOMAIN slotByVid
              /\ x \in DOMAIN slotByVid => slotByVid'[x] = slotByVid[x]
         /\ \A v \in Venues : NewVid[v] # 0 =>
              /\ NewVid[v] \in DOMAIN slotByVid' <=> CanRegister
              /\ CanRegister => slotByVid'[NewVid[v]] = [slot |-> NewSlot, venue |-> v]
         /\ \A x \in DOMAIN slotByVid' :
              x \in DOMAIN slotByVid \/ (CanRegister /\ \E v \in Venues : x = NewVid[v] /\ x # 0)
  <1> DEFINE row == Rows[loaded + 1]
             venueOf(x) == CHOOSE v \in Venues : NewVid[v] = x
             new == {NewVid[v] : v \in Venues} \ {0}
             slots == [x \in new |-> [slot |-> NewSlot, venue |-> venueOf(x)]]
             entry == [market |-> row.market, quote |-> [v \in Venues |-> NoQuote(NewVid[v] # 0)]]
  <1>1. loaded + 1 \in 1..Len(Rows) /\ row \in Row
    <2>1. loaded + 1 \in 1..Len(Rows)
      BY RowsAssumption, LenProperties DEF LoadRow, TableInv
    <2> QED
      BY <2>1, RowType
  <1>2. /\ nextVid \in Nat \ {0} /\ \A x \in DOMAIN slotByVid : x \in 1..(nextVid - 1)
        /\ Len(table) \in Nat /\ DOMAIN table = 1..Len(table) /\ table \in Seq(MarketView)
    BY TableShape DEF IdsInv, TableInv
  <1>3. /\ \A v \in Venues : NewVid[v] # 0 => NewVid[v] >= nextVid /\ NewVid[v] \in Nat
        /\ \A u, v \in Venues : NewVid[u] = NewVid[v] /\ NewVid[u] # 0 => u = v
    BY <1>2, NewVidIs
  <1>4. Register(row.market, NewVid)
    BY DEF LoadRow, NewVid
  <1>5. CASE ~CanRegister
    <2>1. UNCHANGED <<table, slotByVid>>
      BY <1>4, <1>5 DEF Register, CanRegister
    <2>2. \A v \in Venues : NewVid[v] # 0 => NewVid[v] \notin DOMAIN slotByVid
      BY <1>2, <1>3
    <2> QED
      BY <1>1, <1>5, <2>1, <2>2
  <1>6. CASE CanRegister
    <2>1. table' = Append(table, entry) /\ slotByVid' = assign(slotByVid, slots)
      BY <1>4, <1>6 DEF Register, CanRegister, NewSlot
    <2>2. DOMAIN slots = new /\ \A x \in new : slots[x] = [slot |-> NewSlot, venue |-> venueOf(x)]
      OBVIOUS
    <2> HIDE DEF slots, new, venueOf, entry
    <2>3. /\ DOMAIN slotByVid' = new \cup DOMAIN slotByVid
          /\ \A x \in new : slotByVid'[x] = [slot |-> NewSlot, venue |-> venueOf(x)]
          /\ \A x \in DOMAIN slotByVid \ new : slotByVid'[x] = slotByVid[x]
      <3>1. /\ DOMAIN assign(slotByVid, slots) = DOMAIN slots \cup DOMAIN slotByVid
            /\ \A x \in DOMAIN slots : assign(slotByVid, slots)[x] = slots[x]
            /\ \A x \in DOMAIN slotByVid \ DOMAIN slots : assign(slotByVid, slots)[x] = slotByVid[x]
        BY AssignAt, Zenon
      <3>2. slotByVid' = assign(slotByVid, slots)
        BY <2>1
      <3> QED
        BY <2>2, <3>1, <3>2
    <2>4. \A v \in Venues : NewVid[v] # 0 => venueOf(NewVid[v]) = v
      BY <1>3 DEF venueOf
    <2>5. \A x \in 1..(nextVid - 1) : x \notin new
      BY <1>2, <1>3 DEF new
    <2>6. /\ DOMAIN table' = 1..(Len(table) + 1)
          /\ \A i \in 1..Len(table) : table'[i] = table[i]
          /\ table'[Len(table) + 1] = entry
      <3>1. Seq(MarketView) \subseteq Seq(MarketView \cup {entry})
        BY SeqMonotonic
      <3>2. table \in Seq(MarketView \cup {entry}) /\ entry \in MarketView \cup {entry}
        BY <1>2, <3>1
      <3> QED
        BY <2>1, <3>2, <1>2
    <2>7. \A v \in Venues : NewVid[v] # 0 =>
            /\ NewVid[v] \in new
            /\ slotByVid'[NewVid[v]] = [slot |-> NewSlot, venue |-> v]
      BY <2>3, <2>4 DEF new
    <2>8. \A x \in DOMAIN slotByVid' : x \in DOMAIN slotByVid \/ \E v \in Venues : x = NewVid[v] /\ x # 0
      BY <2>3 DEF new
    <2>9. \A x \in 1..(nextVid - 1) :
            /\ x \in DOMAIN slotByVid' <=> x \in DOMAIN slotByVid
            /\ x \in DOMAIN slotByVid => slotByVid'[x] = slotByVid[x]
      BY <2>3, <2>5
    <2> QED
      BY <1>1, <1>2, <1>6, <2>3, <2>6, <2>7, <2>8, <2>9 DEF entry, NewSlot
  <1> QED
    BY <1>5, <1>6

\* The table has room for the market of the next row exactly if that is the
\* first row of the market and few enough came before.
LEMMA LoadTable ==
  ASSUME TableInv, IdsInv, LoadRow
  PROVE  TableInv' /\ (CanRegister <=> Registered(loaded + 1))
  <1> DEFINE m == Rows[loaded + 1].market
  <1>0. /\ loaded + 1 \in 1..Len(Rows) /\ loaded \in Nat /\ m \in Nat /\ loaded' = loaded + 1
        /\ \A v \in Venues : Rows[loaded + 1].ticker[v] \in Tickers \cup {NoTicker}
    <2>1. Rows[loaded + 1] \in Row /\ loaded + 1 \in 1..Len(Rows)
      BY LoadSlots
    <2> QED
      BY <2>1 DEF Row, LoadRow, TableInv
  <1>1. Before(loaded + 1) = Before(loaded) \cup {m}
    BY <1>0 DEF Before
  <1>2. IsFiniteSet(Before(loaded)) /\ TableMarkets \subseteq Before(loaded)
        /\ Cardinality(TableMarkets) = Len(table) /\ Len(table) <= MaxMarkets
        /\ (Len(table) < MaxMarkets => TableMarkets = Before(loaded))
        /\ Len(table) \in Nat /\ MaxMarkets \in Nat
    BY TableShape, MaxMarketsAssumption DEF TableInv
  <1>3. IsFiniteSet(Before(loaded + 1)) /\ Cardinality(Before(loaded)) \in Nat
        /\ IsFiniteSet(TableMarkets) /\ Cardinality(TableMarkets) <= Cardinality(Before(loaded))
    BY <1>1, <1>2, FS_AddElement, FS_Subset, FS_CardinalityType
  <1>4. CanRegister <=> Len(table) < MaxMarkets /\ m \notin TableMarkets
    BY DEF CanRegister, canRegister, TableMarkets
  <1>5. Registered(loaded + 1) <=> m \notin Before(loaded) /\ Cardinality(Before(loaded)) < MaxMarkets
    <2>1. (loaded + 1) - 1 = loaded
      BY <1>0
    <2> QED
      BY <2>1 DEF Registered, Before
  <1>6. CanRegister <=> Registered(loaded + 1)
    BY <1>2, <1>3, <1>4, <1>5
  <1>7. CASE ~CanRegister
    <2>1. table' = table
      BY <1>7 DEF LoadRow, Register, CanRegister
    <2>2. TableMarkets' = TableMarkets
      BY <2>1 DEF TableMarkets
    <2>3. Len(table) < MaxMarkets => TableMarkets = Before(loaded + 1)
      BY <1>1, <1>2, <1>4, <1>7
    <2>4. Before(loaded)' = Before(loaded + 1)
      BY <1>0 DEF Before
    <2>5. TableMarkets \subseteq Before(loaded + 1)
      BY <1>1, <1>2
    <2> HIDE DEF m
    <2> QED
      BY <1>0, <1>2, <1>3, <1>6, <2>1, <2>2, <2>3, <2>4, <2>5 DEF TableInv
  <1>8. CASE CanRegister
    <2>1. /\ \A i \in DOMAIN table : i \in DOMAIN table' /\ table'[i] = table[i]
          /\ \A i \in DOMAIN table' : i \in DOMAIN table \/ i = NewSlot
          /\ NewSlot \in DOMAIN table' /\ table'[NewSlot].market = m
      BY <1>8, LoadSlots
    <2>2. TableMarkets' = TableMarkets \cup {m}
      BY <2>1 DEF TableMarkets
    <2>3. Cardinality(TableMarkets') = Len(table) + 1 /\ TableMarkets' = Before(loaded + 1)
      <3>1. Cardinality(TableMarkets \cup {m}) = Cardinality(TableMarkets) + 1
        BY <1>3, <1>4, <1>8, FS_AddElement
      <3> QED
        BY <1>1, <1>2, <1>4, <1>8, <2>2, <3>1
    <2>4. table' \in Seq(MarketView) /\ Len(table') = Len(table) + 1
      <3> DEFINE entry == [market |-> m, quote |-> [v \in Venues |-> NoQuote(NewVid[v] # 0)]]
      <3>1. table' = Append(table, entry)
        BY <1>8 DEF LoadRow, Register, CanRegister, NewVid
      <3>2. entry \in MarketView
        BY <1>0 DEF MarketView, View, NoQuote, kDollarCents
      <3> HIDE DEF entry
      <3> QED
        BY <3>1, <3>2 DEF TableInv
    <2>5. \A i, k \in DOMAIN table' : table'[i].market = table'[k].market => i = k
      <3>1. \A i \in DOMAIN table : table'[i].market # m
        BY <1>4, <1>8, <2>1 DEF TableMarkets
      <3> QED
        BY <2>1, <3>1 DEF TableInv
    <2>6. Before(loaded)' = Before(loaded + 1)
      BY <1>0 DEF Before
    <2>7. loaded' \in 0..Len(Rows)
      BY <1>0
    <2>8. Len(table') <= MaxMarkets
      BY <1>2, <1>4, <1>8, <2>4
    <2> HIDE DEF m
    <2> QED
      BY <1>3, <1>6, <2>3, <2>4, <2>5, <2>6, <2>7, <2>8 DEF TableInv
  <1> QED
    BY <1>7, <1>8

LEMMA LoadIds ==
  ASSUME TableInv, IdsInv, LoadRow
  PROVE  IdsInv'
  <1> DEFINE row == Rows[loaded + 1]
  <1>1. /\ nextVid \in Nat \ {0} /\ loaded \in Nat /\ loaded' = loaded + 1
        /\ nextVid' = nextVid + VidsUsed /\ VidsUsed \in Nat
    BY NewVidIs DEF LoadRow, IdsInv, TableInv, VidsUsed, NewVid
  <1>2. DOMAIN ids' = Venues
    BY DEF LoadRow
  <1>3. ASSUME NEW v \in Venues, NEW ticker \in DOMAIN ids'[v]
        PROVE  /\ ticker # NoTicker /\ ids'[v][ticker] \in 1..(nextVid' - 1)
               /\ \E i \in 1..loaded' : Rows[i].ticker[v] = ticker
                                         /\ IdOfRow(v, ids'[v][ticker], i, slotByVid', table')
    <2> DEFINE one == [name \in {row.ticker[v]} |-> NewVid[v]]
    <2>1. ids'[v] = IF NewVid[v] = 0 THEN ids[v] ELSE assign(ids[v], one)
      BY DEF LoadRow, NewVid
    <2>2. \/ ticker \in DOMAIN ids[v] /\ ids'[v][ticker] = ids[v][ticker]
          \/ NewVid[v] # 0 /\ ticker = row.ticker[v] /\ ids'[v][ticker] = NewVid[v]
      <3>1. CASE NewVid[v] = 0
        BY <2>1, <3>1
      <3>2. CASE NewVid[v] # 0
        <4>1. DOMAIN one = {row.ticker[v]} /\ one[row.ticker[v]] = NewVid[v]
          OBVIOUS
        <4> HIDE DEF one
        <4>2. /\ DOMAIN assign(ids[v], one) = DOMAIN one \cup DOMAIN ids[v]
              /\ \A x \in DOMAIN one : assign(ids[v], one)[x] = one[x]
              /\ \A x \in DOMAIN ids[v] \ DOMAIN one : assign(ids[v], one)[x] = ids[v][x]
          BY AssignAt, Zenon
        <4>3. ids'[v] = assign(ids[v], one)
          BY <2>1, <3>2
        <4> HIDE DEF row
        <4> QED
          BY <3>2, <4>1, <4>2, <4>3
      <3> QED
        BY <3>1, <3>2
    <2>3. CASE ticker \in DOMAIN ids[v] /\ ids'[v][ticker] = ids[v][ticker]
      <3> DEFINE x == ids[v][ticker]
      <3>1. ticker # NoTicker /\ x \in 1..(nextVid - 1)
        BY <2>3 DEF IdsInv
      <3>2. PICK i \in 1..loaded : Rows[i].ticker[v] = ticker /\ IdOfRow(v, x, i, slotByVid, table)
        BY <2>3 DEF IdsInv
      <3> HIDE DEF x
      <3>3. /\ x \in DOMAIN slotByVid' <=> x \in DOMAIN slotByVid
            /\ x \in DOMAIN slotByVid =>
                 /\ slotByVid'[x] = slotByVid[x]
                 /\ table'[slotByVid[x].slot] = table[slotByVid[x].slot]
        BY <3>1, LoadSlots DEF IdsInv
      <3>4. /\ x \in DOMAIN slotByVid' <=> Registered(i)
            /\ x \in DOMAIN slotByVid' =>
                 slotByVid'[x].venue = v /\ table'[slotByVid'[x].slot].market = Rows[i].market
        BY <3>2, <3>3 DEF IdOfRow
      <3>5. i \in 1..loaded'
        BY <1>1
      <3>6. ids'[v][ticker] = x
        BY <2>3 DEF x
      <3> QED
        BY <1>1, <3>1, <3>2, <3>4, <3>5, <3>6 DEF IdOfRow
    <2>4. CASE NewVid[v] # 0 /\ ticker = row.ticker[v] /\ ids'[v][ticker] = NewVid[v]
      <3>1. ticker # NoTicker /\ NewVid[v] \in 1..(nextVid' - 1)
        BY <1>1, <2>4, NewVidIs
      <3>2. /\ NewVid[v] \in DOMAIN slotByVid' <=> CanRegister
            /\ CanRegister =>
                 /\ slotByVid'[NewVid[v]] = [slot |-> NewSlot, venue |-> v]
                 /\ table'[NewSlot].market = row.market
        BY <2>4, LoadSlots
      <3>3. CanRegister <=> Registered(loaded + 1)
        BY LoadTable
      <3>4. /\ NewVid[v] \in DOMAIN slotByVid' <=> Registered(loaded + 1)
            /\ NewVid[v] \in DOMAIN slotByVid' =>
                 /\ slotByVid'[NewVid[v]].venue = v
                 /\ table'[slotByVid'[NewVid[v]].slot].market = Rows[loaded + 1].market
        BY <3>2, <3>3
      <3>5. loaded + 1 \in 1..loaded'
        BY <1>1
      <3> QED
        BY <2>4, <3>1, <3>4, <3>5 DEF IdOfRow
    <2> QED
      BY <2>2, <2>3, <2>4
  <1>4. ASSUME NEW x \in DOMAIN slotByVid'
        PROVE  /\ x \in 1..(nextVid' - 1)
               /\ slotByVid'[x].slot \in DOMAIN table' /\ slotByVid'[x].venue \in Venues
    <2>1. CASE x \in DOMAIN slotByVid
      <3>1. x \in 1..(nextVid - 1) /\ slotByVid[x].slot \in DOMAIN table /\ slotByVid[x].venue \in Venues
        BY <2>1 DEF IdsInv
      <3>2. slotByVid'[x] = slotByVid[x]
        BY <2>1, <3>1, LoadSlots
      <3> QED
        BY <1>1, <3>1, <3>2, LoadSlots
    <2>2. CASE x \notin DOMAIN slotByVid
      <3>1. PICK v \in Venues : x = NewVid[v] /\ x # 0 /\ CanRegister
        BY <2>2, LoadSlots
      <3>2. slotByVid'[x] = [slot |-> NewSlot, venue |-> v] /\ NewSlot \in DOMAIN table'
        BY <3>1, LoadSlots
      <3>3. x \in nextVid..(nextVid + VidsUsed - 1)
        BY <1>1, <3>1, NewVidIs
      <3> QED
        BY <1>1, <3>2, <3>3
    <2> QED
      BY <2>1, <2>2
  <1>5. nextVid' \in Nat \ {0}
    BY <1>1
  <1> HIDE DEF row
  <1> QED
    BY <1>2, <1>3, <1>4, <1>5 DEF IdsInv

\* A market that is registered is new, and nothing was sent for it.
LEMMA LoadQuotes ==
  ASSUME TableInv, IdsInv, QuoteIsLastSent, SentInv, CallsInv, LoadRow
  PROVE  QuoteIsLastSent' /\ SentInv' /\ CallsInv'
  <1>0. UNCHANGED <<last, callback, view>> /\ nextVid' = nextVid + VidsUsed /\ VidsUsed \in Nat
        /\ nextVid \in Nat \ {0}
    BY NewVidIs DEF LoadRow, IdsInv, readVars, VidsUsed, NewVid
  <1>1. SentInv'
    BY <1>0, LoadSlots DEF SentInv
  <1>2. QuoteIsLastSent'
    <2>1. ASSUME NEW i \in DOMAIN table', NEW v \in Venues
          PROVE  LET key == <<v, table'[i].market>>
                 IN  IF key \in DOMAIN last THEN table'[i].quote[v] = last[key]
                     ELSE table'[i].quote[v].ask = NoQuote(FALSE).ask
      <3>1. CASE i \in DOMAIN table
        <4>1. table'[i] = table[i]
          BY <3>1, LoadSlots
        <4> QED
          BY <3>1, <4>1 DEF QuoteIsLastSent
      <3>2. CASE i \notin DOMAIN table
        <4>1. CanRegister /\ table'[i] = [market |-> Rows[loaded + 1].market,
                                          quote |-> [u \in Venues |-> NoQuote(NewVid[u] # 0)]]
          BY <3>2, LoadSlots
        <4>2. table'[i].quote[v].ask = NoQuote(FALSE).ask
          BY <4>1 DEF NoQuote
        <4>3. \A k \in DOMAIN table : table[k].market # table'[i].market
          BY <4>1 DEF CanRegister, canRegister
        <4>4. <<v, table'[i].market>> \notin DOMAIN last
          BY <4>3 DEF SentInv
        <4> QED
          BY <4>2, <4>4
      <3> QED
        BY <3>1, <3>2
    <2> QED
      BY <1>0, <2>1 DEF QuoteIsLastSent
  <1>3. CallsInv'
    <2>1. ASSUME NEW v \in Venues, callback[v].pc = "read"
          PROVE  /\ callback[v].vid \in 1..(nextVid' - 1)
                 /\ callback[v].vid \in DOMAIN slotByVid' =>
                      OwnQuote(v, callback[v].market, table'[slotByVid'[callback[v].vid].slot])
      <3> DEFINE x == callback[v].vid
      <3>1. /\ x \in 1..(nextVid - 1)
            /\ x \in DOMAIN slotByVid => OwnQuote(v, callback[v].market, table[slotByVid[x].slot])
        BY <2>1 DEF CallsInv
      <3>2. /\ x \in DOMAIN slotByVid' <=> x \in DOMAIN slotByVid
            /\ x \in DOMAIN slotByVid =>
                 /\ slotByVid'[x] = slotByVid[x]
                 /\ table'[slotByVid[x].slot] = table[slotByVid[x].slot]
        BY <3>1, LoadSlots DEF IdsInv
      <3> HIDE DEF x
      <3>3. x \in 1..(nextVid' - 1)
        BY <1>0, <3>1
      <3>4. x \in DOMAIN slotByVid' => OwnQuote(v, callback[v].market, table'[slotByVid'[x].slot])
        BY <3>1, <3>2
      <3> QED
        BY <3>3, <3>4 DEF x
    <2> QED
      BY <1>0, <2>1 DEF CallsInv, OwnQuote
  <1> QED
    BY <1>1, <1>2, <1>3

-----------------------------------------------------------------------------
(* A message *)

LEMMA QuoteType ==
  ASSUME NEW book \in Books
  PROVE  toQuote(book) \in [listed : BOOLEAN, ask : [Sides -> 0..kDollarCents], depth : [Sides -> Nat]]
  <1>1. book \in Book
    BY BooksAssumption
  <1>2. /\ book.yesBid \in 0..100 /\ book.yesAsk \in 0..100
        /\ book.yesBidSize \in Nat /\ book.yesAskSize \in Nat
    BY <1>1 DEF Book, kDollarCents
  <1>3. complementCents(book.yesBid) \in 0..100
    BY <1>2 DEF complementCents, kDollarCents
  <1> QED
    BY <1>2, <1>3 DEF toQuote, kDollarCents

\* The market that a ticker is known by, if its row was registered.
LEMMA NamedMarket ==
  ASSUME TableInv, NEW v \in Venues, NEW ticker, ticker # NoTicker,
         NEW i \in 1..loaded, Rows[i].ticker[v] = ticker
  PROVE  MarketsNamed(v, ticker) = IF Registered(i) THEN {Rows[i].market} ELSE {}
  <1>1. i \in DOMAIN Rows
    BY RowsAssumption, LenProperties DEF TableInv
  <1>2. \A k \in DOMAIN Rows : Rows[k].ticker[v] = ticker => k = i
    BY <1>1, TickersAssumption
  <1> QED
    BY <1>1, <1>2 DEF MarketsNamed

\* What is in the slot of a venue id after a quote of venue v was put there.
WithQuote(v, slot, quote) ==
  /\ slot \in DOMAIN table /\ DOMAIN table' = DOMAIN table
  /\ \A i \in DOMAIN table \ {slot} : table'[i] = table[i]
  /\ table'[slot].market = table[slot].market
  /\ table'[slot].quote[v] = quote
  /\ \A u \in Venues \ {v} : table'[slot].quote[u] = table[slot].quote[u]

\* A message changes the quote of its venue for the market its ticker names,
\* or nothing.
LEMMA ReceiveIs ==
  ASSUME TableInv, IdsInv, NEW v \in Venues, Receive(v)
  PROVE  /\ TableInv'
         /\ \E x \in 1..(nextVid - 1), m \in Nat :
              /\ callback' = [callback EXCEPT ![v] = [pc |-> "read", vid |-> x, market |-> m]]
              /\ \/ /\ x \notin DOMAIN slotByVid /\ UNCHANGED table
                    /\ DOMAIN last' = DOMAIN last
                    /\ \A key \in DOMAIN last : last'[key] = last[key]
                 \/ /\ x \in DOMAIN slotByVid
                    /\ table[slotByVid[x].slot].market = m
                    /\ \E quote :
                         /\ WithQuote(v, slotByVid[x].slot, quote)
                         /\ DOMAIN last' = {<<v, m>>} \cup DOMAIN last
                         /\ last'[<<v, m>>] = quote
                         /\ \A key \in DOMAIN last \ {<<v, m>>} : last'[key] = last[key]
  <1>1. PICK ticker \in DOMAIN ids[v], book \in Books :
          /\ price_update(v, ids[v][ticker], toQuote(book))
          /\ last' = assign(last, [key \in {<<v, m>> : m \in MarketsNamed(v, ticker)} |-> toQuote(book)])
          /\ callback' = [callback EXCEPT ![v] =
               [pc |-> "read", vid |-> ids[v][ticker],
                market |-> IF MarketsNamed(v, ticker) = {} THEN 0
                           ELSE CHOOSE m \in MarketsNamed(v, ticker) : TRUE]]
    BY Zenon DEF Receive
  <1> DEFINE x == ids[v][ticker]
             quote == toQuote(book)
             slot == slotByVid[x].slot
  <1>2. ticker # NoTicker /\ x \in 1..(nextVid - 1)
    BY DEF IdsInv
  <1>3. PICK i \in 1..loaded : Rows[i].ticker[v] = ticker /\ IdOfRow(v, x, i, slotByVid, table)
    BY DEF IdsInv
  <1> DEFINE m == Rows[i].market
  <1>4. m \in Nat
    <2>1. i \in 1..Len(Rows)
      BY RowsAssumption, LenProperties DEF TableInv
    <2> QED
      BY <2>1, RowType DEF Row
  <1>5. MarketsNamed(v, ticker) = IF Registered(i) THEN {m} ELSE {}
    BY <1>2, <1>3, NamedMarket
  <1>6. quote \in [listed : BOOLEAN, ask : [Sides -> 0..kDollarCents], depth : [Sides -> Nat]]
    BY QuoteType
  <1>7. UNCHANGED loaded
    BY DEF Receive
  <1> HIDE DEF quote
  <1>8. CASE ~Registered(i)
    <2>1. x \notin DOMAIN slotByVid /\ MarketsNamed(v, ticker) = {}
      BY <1>3, <1>5, <1>8 DEF IdOfRow
    <2>2. table' = table
      BY <1>1, <2>1 DEF price_update, accepts
    <2>3. DOMAIN last' = DOMAIN last /\ \A key \in DOMAIN last : last'[key] = last[key]
      <3> DEFINE none == [key \in {<<v, k>> : k \in MarketsNamed(v, ticker)} |-> quote]
      <3>1. DOMAIN none = {}
        BY <2>1
      <3>2. last' = [key \in DOMAIN none \cup DOMAIN last |->
                       IF key \in DOMAIN none THEN none[key] ELSE last[key]]
        BY <1>1 DEF assign, quote
      <3> HIDE DEF none
      <3> QED
        BY <3>1, <3>2
    <2>4. callback' = [callback EXCEPT ![v] = [pc |-> "read", vid |-> x, market |-> 0]]
      BY <1>1, <2>1
    <2>5. TableInv'
      <3>1. Before(loaded)' = Before(loaded)
        BY <1>7 DEF Before
      <3>2. TableMarkets' = TableMarkets
        BY <2>2 DEF TableMarkets
      <3> QED
        BY <1>7, <2>2, <3>1, <3>2 DEF TableInv
    <2> HIDE DEF x, m
    <2> QED
      BY <1>2, <2>1, <2>2, <2>3, <2>4, <2>5
  <1>9. CASE Registered(i)
    <2>1. /\ x \in DOMAIN slotByVid /\ slotByVid[x].venue = v /\ table[slot].market = m
          /\ MarketsNamed(v, ticker) = {m} /\ slot \in DOMAIN table
      BY <1>3, <1>5, <1>9 DEF IdOfRow, IdsInv
    <2>2. table' = [table EXCEPT ![slot].quote[v] = quote]
      BY <1>1, <2>1 DEF price_update, accepts, quote
    <2>3. /\ DOMAIN last' = {<<v, m>>} \cup DOMAIN last
          /\ last'[<<v, m>>] = quote
          /\ \A key \in DOMAIN last \ {<<v, m>>} : last'[key] = last[key]
      <3> DEFINE one == [key \in {<<v, k>> : k \in MarketsNamed(v, ticker)} |-> quote]
      <3>1. DOMAIN one = {<<v, m>>} /\ one[<<v, m>>] = quote
        BY <2>1
      <3>2. last' = assign(last, one)
        BY <1>1 DEF quote
      <3> HIDE DEF one, m
      <3>3. /\ DOMAIN assign(last, one) = DOMAIN one \cup DOMAIN last
            /\ \A key \in DOMAIN one : assign(last, one)[key] = one[key]
            /\ \A key \in DOMAIN last \ DOMAIN one : assign(last, one)[key] = last[key]
        BY AssignAt, Zenon
      <3> QED
        BY <3>1, <3>2, <3>3
    <2>4. callback' = [callback EXCEPT ![v] = [pc |-> "read", vid |-> x, market |-> m]]
      BY <1>1, <2>1
    <2> HIDE DEF slot, x, m
    <2>5. table[slot] \in MarketView /\ Len(table) \in Nat /\ DOMAIN table = 1..Len(table)
          /\ table \in [1..Len(table) -> MarketView]
      BY <2>1, TableShape
    <2>6. table[slot].quote \in [Venues -> [listed : BOOLEAN, ask : [Sides -> 0..kDollarCents],
                                            depth : [Sides -> Nat]]]
          /\ table[slot].market \in Nat
      BY <2>5 DEF MarketView, View
    <2>7. table' = [table EXCEPT ![slot] = [table[slot] EXCEPT !.quote[v] = quote]]
      BY <2>2
    <2>8. WithQuote(v, slot, quote)
      <3>1. table'[slot] = [table[slot] EXCEPT !.quote[v] = quote]
        BY <2>1, <2>7
      <3>2. \A k \in DOMAIN table \ {slot} : table'[k] = table[k]
        BY <2>7
      <3>3. DOMAIN table' = DOMAIN table
        BY <2>7
      <3>4. /\ table'[slot].market = table[slot].market
            /\ table'[slot].quote = [table[slot].quote EXCEPT ![v] = quote]
        BY <2>5, <3>1 DEF MarketView
      <3> QED
        BY <2>1, <2>6, <3>2, <3>3, <3>4 DEF WithQuote
    <2>9. TableInv'
      <3>1. [table[slot] EXCEPT !.quote[v] = quote] \in MarketView
        BY <1>6, <2>5 DEF MarketView, View
      <3>2. table' \in Seq(MarketView) /\ Len(table') = Len(table)
        BY <2>1, <2>5, <2>7, <3>1, ExceptSeq DEF TableInv
      <3>3. \A k \in DOMAIN table : table'[k].market = table[k].market
        BY <2>8 DEF WithQuote
      <3>4. DOMAIN table' = DOMAIN table
        BY <2>8 DEF WithQuote
      <3>5. TableMarkets' = TableMarkets
        BY <3>3, <3>4 DEF TableMarkets
      <3> QED
        BY <1>7, <3>2, <3>3, <3>4, <3>5 DEF TableInv, Before
    <2> QED
      BY <1>2, <1>4, <2>1, <2>3, <2>4, <2>8, <2>9 DEF slot
  <1> QED
    BY <1>8, <1>9

LEMMA ReceiveQuotes ==
  ASSUME QuoteInv, NEW v \in Venues, Receive(v)
  PROVE  QuoteInv'
  <1>0. TableInv /\ IdsInv /\ QuoteIsLastSent /\ SentInv /\ CallsInv /\ LinkInv
        /\ callback[v].pc = "idle"
        /\ UNCHANGED <<loaded, nextVid, ids, slotByVid, pc, link, backoff, wait, view>>
    BY DEF QuoteInv, Receive, feedVars
  <1>1. TableInv'
    BY <1>0, ReceiveIs
  <1>2. PICK x \in 1..(nextVid - 1), m \in Nat :
          /\ callback' = [callback EXCEPT ![v] = [pc |-> "read", vid |-> x, market |-> m]]
          /\ \/ /\ x \notin DOMAIN slotByVid /\ UNCHANGED table
                /\ DOMAIN last' = DOMAIN last
                /\ \A key \in DOMAIN last : last'[key] = last[key]
             \/ /\ x \in DOMAIN slotByVid
                /\ table[slotByVid[x].slot].market = m
                /\ \E quote :
                     /\ WithQuote(v, slotByVid[x].slot, quote)
                     /\ DOMAIN last' = {<<v, m>>} \cup DOMAIN last
                     /\ last'[<<v, m>>] = quote
                     /\ \A key \in DOMAIN last \ {<<v, m>>} : last'[key] = last[key]
    BY <1>0, ReceiveIs
  <1>3. /\ DOMAIN table' = DOMAIN table
        /\ \A i \in DOMAIN table : table'[i].market = table[i].market
        /\ \A i \in DOMAIN table : \A u \in Venues \ {v} : table'[i].quote[u] = table[i].quote[u]
    BY <1>2 DEF WithQuote
  <1>4. IdsInv'
    <2>1. \A u \in Venues : \A y, i :
            (y \in DOMAIN slotByVid => slotByVid[y].slot \in DOMAIN table)
              => (IdOfRow(u, y, i, slotByVid, table') <=> IdOfRow(u, y, i, slotByVid, table))
      BY <1>3 DEF IdOfRow
    <2> QED
      BY <1>0, <1>3, <2>1 DEF IdsInv
  <1>5. /\ \A key \in DOMAIN last : key \in DOMAIN last'
        /\ \A u \in Venues \ {v} : \A k : <<u, k>> \in DOMAIN last' => <<u, k>> \in DOMAIN last
        /\ \A u \in Venues \ {v} : \A k : <<u, k>> \in DOMAIN last => last'[<<u, k>>] = last[<<u, k>>]
    BY <1>2
  <1>6. SentInv'
    BY <1>0, <1>2, <1>3 DEF SentInv, IdsInv
  <1>7. QuoteIsLastSent'
    <2> SUFFICES ASSUME NEW i \in DOMAIN table, NEW u \in Venues
                 PROVE  LET key == <<u, table[i].market>>
                        IN  IF key \in DOMAIN last' THEN table'[i].quote[u] = last'[key]
                            ELSE table'[i].quote[u].ask = NoQuote(FALSE).ask
      BY <1>3 DEF QuoteIsLastSent
    <2> DEFINE key == <<u, table[i].market>>
    <2>1. IF key \in DOMAIN last THEN table[i].quote[u] = last[key]
          ELSE table[i].quote[u].ask = NoQuote(FALSE).ask
      BY <1>0 DEF QuoteIsLastSent
    <2>2. CASE u # v
      <3>1. /\ key \in DOMAIN last' <=> key \in DOMAIN last
            /\ key \in DOMAIN last => last'[key] = last[key]
        BY <1>5, <2>2
      <3>2. table'[i].quote[u] = table[i].quote[u]
        BY <1>3, <2>2
      <3> QED
        BY <2>1, <3>1, <3>2
    <2>3. CASE u = v /\ x \notin DOMAIN slotByVid
      <3>1. table' = table /\ (key \in DOMAIN last' <=> key \in DOMAIN last)
            /\ (key \in DOMAIN last => last'[key] = last[key])
        BY <1>2, <2>3
      <3> QED
        BY <2>1, <3>1
    <2>4. CASE u = v /\ x \in DOMAIN slotByVid
      <3> DEFINE slot == slotByVid[x].slot
      <3>1. PICK quote :
              /\ table[slot].market = m /\ WithQuote(v, slot, quote)
              /\ DOMAIN last' = {<<v, m>>} \cup DOMAIN last
              /\ last'[<<v, m>>] = quote
              /\ \A k \in DOMAIN last \ {<<v, m>>} : last'[k] = last[k]
        BY <1>2, <2>4
      <3> HIDE DEF slot
      <3>2. CASE i = slot
        BY <2>4, <3>1, <3>2 DEF WithQuote
      <3>3. CASE i # slot
        <4>1. table[i].market # m
          BY <1>0, <3>1, <3>3 DEF TableInv, WithQuote
        <4>2. table'[i] = table[i]
          BY <3>1, <3>3 DEF WithQuote
        <4>3. /\ key \in DOMAIN last' <=> key \in DOMAIN last
              /\ key \in DOMAIN last => last'[key] = last[key]
          BY <3>1, <4>1
        <4> QED
          BY <2>1, <4>2, <4>3
      <3> QED
        BY <3>2, <3>3
    <2> QED
      BY <2>2, <2>3, <2>4
  <1>8. CallsInv'
    <2>1. callback' \in [Venues -> [pc : {"idle", "read", "decide"}, vid : Nat, market : Nat]]
      <3>1. x \in Nat
        BY <1>2, <1>0 DEF IdsInv
      <3> QED
        BY <1>0, <1>2, <3>1 DEF CallsInv
    <2>2. callback'[v] = [pc |-> "read", vid |-> x, market |-> m]
          /\ \A u \in Venues \ {v} : callback'[u] = callback[u]
      BY <1>0, <1>2 DEF CallsInv
    <2>3. x \in DOMAIN slotByVid =>
            /\ <<v, m>> \in DOMAIN last' /\ table'[slotByVid[x].slot].market = m
            /\ table'[slotByVid[x].slot].quote[v] = last'[<<v, m>>]
      BY <1>2 DEF WithQuote
    <2>4. ASSUME NEW u \in Venues \ {v}
          PROVE  /\ callback[u].pc = "read" =>
                      /\ callback[u].vid \in 1..(nextVid - 1)
                      /\ callback[u].vid \in DOMAIN slotByVid =>
                           LET slot == slotByVid[callback[u].vid].slot
                           IN  /\ <<u, callback[u].market>> \in DOMAIN last'
                               /\ table'[slot].market = callback[u].market
                               /\ table'[slot].quote[u] = last'[<<u, callback[u].market>>]
                 /\ callback[u].pc = "decide" =>
                      /\ <<u, callback[u].market>> \in DOMAIN last'
                      /\ view[u].market = callback[u].market
                      /\ view[u].quote[u] = last'[<<u, callback[u].market>>]
      BY <1>0, <1>3, <1>5 DEF CallsInv, IdsInv, OwnQuote
    <2> QED
      BY <1>0, <2>1, <2>2, <2>3, <2>4 DEF CallsInv, OwnQuote
  <1>9. LinkInv'
    BY <1>0 DEF LinkInv
  <1> QED
    BY <1>1, <1>4, <1>6, <1>7, <1>8, <1>9 DEF QuoteInv

-----------------------------------------------------------------------------
(* Every step *)

LEMMA QuoteInit == Init => QuoteInv
  <1> SUFFICES ASSUME Init PROVE QuoteInv
    OBVIOUS
  <1>1. Len(Rows) \in Nat /\ MaxMarkets \in Nat
    BY RowsAssumption, LenProperties, MaxMarketsAssumption
  <1>2. TableMarkets = {} /\ Before(loaded) = {}
    BY DEF Init, TableMarkets, Before
  <1>3. TableInv
    <2>1. loaded = 0 /\ table = <<>> /\ Len(table) = 0 /\ table \in Seq(MarketView)
      BY EmptySeq DEF Init
    <2>2. DOMAIN table = {}
      BY <2>1
    <2> QED
      BY <1>1, <1>2, <2>1, <2>2, FS_EmptySet DEF TableInv
  <1>4. IdsInv /\ SentInv /\ QuoteIsLastSent
    BY DEF Init, IdsInv, SentInv, QuoteIsLastSent
  <1>5. NoMarketRead \in MarketView
    BY DEF NoMarketRead, MarketView, View, NoQuote, kDollarCents
  <1>6. CallsInv
    BY <1>5 DEF Init, CallsInv, IdleCallback
  <1>7. LinkInv
    <2>1. 1000 \in Backoffs /\ 0 \in Waits
      BY DEF Backoffs, Waits
    <2> QED
      BY <2>1 DEF Init, LinkInv
  <1> QED
    BY <1>3, <1>4, <1>6, <1>7 DEF QuoteInv

LEMMA LinkNext ==
  ASSUME LinkInv, NEW v \in Venues, Feed(v) \/ Library(v)
  PROVE  LinkInv' /\ UNCHANGED <<tableVars, readVars, last>>
  <1>1. /\ \A ms \in Waits : nextWsBackoffMs(ms) \in Backoffs
        /\ \A ms \in Backoffs : ms \in Waits
    <2>1. \A ms \in Waits : nextWsBackoffMs(ms) \in Backoffs
      BY SMT DEF nextWsBackoffMs, Backoffs, Waits
    <2>2. \A ms \in Backoffs : ms \in Waits
      BY SMT DEF Backoffs, Waits
    <2> QED
      BY <2>1, <2>2
  <1>2. CASE Start(v) \/ Connect(v) \/ SeesClosed(v)
    BY <1>2 DEF Start, Connect, SeesClosed, Goes, LinkInv
  <1>3. CASE SignFails(v)
    BY <1>1, <1>3 DEF SignFails, Goes, Sleep, LinkInv
  <1>4. CASE StopLink(v)
    BY <1>1, <1>4 DEF StopLink, Goes, Sleep, LinkInv
  <1>5. CASE Wakes(v)
    BY <1>1, <1>5 DEF Wakes, Goes, LinkInv
  <1>6. CASE Library(v)
    <2>1. 1000 \in Backoffs
      BY DEF Backoffs
    <2> QED
      BY <1>6, <2>1 DEF Library, Begins, Opens, Closes, LinkGoes, LinkInv
  <1> QED
    BY <1>2, <1>3, <1>4, <1>5, <1>6 DEF Feed

LEMMA CallbackQuotes ==
  ASSUME QuoteInv, NEW v \in Venues, Callback(v)
  PROVE  QuoteInv'
  <1>1. UNCHANGED <<tableVars, pc, link, backoff, wait, last>>
    BY DEF Callback, NoSlot, CopyMarket, Decide, feedVars
  <1>2. TableInv' /\ IdsInv' /\ QuoteIsLastSent' /\ SentInv' /\ LinkInv'
    <2>1. TableMarkets' = TableMarkets /\ Before(loaded)' = Before(loaded)
      BY <1>1 DEF tableVars, TableMarkets, Before
    <2>2. TableInv'
      BY <1>1, <2>1 DEF QuoteInv, tableVars, TableInv
    <2>3. IdsInv'
      BY <1>1 DEF QuoteInv, tableVars, IdsInv, IdOfRow
    <2>4. QuoteIsLastSent' /\ SentInv'
      BY <1>1 DEF QuoteInv, tableVars, QuoteIsLastSent, SentInv
    <2>5. LinkInv'
      BY <1>1 DEF QuoteInv, LinkInv
    <2> QED
      BY <2>2, <2>3, <2>4, <2>5
  <1>3. CallsInv'
    <2>1. CallsInv /\ IdsInv /\ UNCHANGED <<table, slotByVid, nextVid, last>>
      BY <1>1 DEF QuoteInv, tableVars
    <2>2. NoMarketRead \in MarketView
      BY DEF NoMarketRead, MarketView, View, NoQuote, kDollarCents
    <2>3. CASE NoSlot(v)
      BY <2>1, <2>3 DEF NoSlot, CallbackReturns, IdleCallback, CallsInv, OwnQuote
    <2>4. CASE CopyMarket(v)
      <3> DEFINE slot == slotByVid[callback[v].vid].slot
      <3>1. /\ view' = [view EXCEPT ![v] = table[slot]]
            /\ callback' = [callback EXCEPT ![v].pc = "decide"]
            /\ callback[v].pc = "read" /\ callback[v].vid \in DOMAIN slotByVid
        BY <2>4 DEF CopyMarket
      <3>2. table[slot] \in MarketView
        BY <2>1, <3>1, TableShape DEF IdsInv, QuoteInv
      <3>3. OwnQuote(v, callback[v].market, table[slot])
        BY <2>1, <3>1 DEF CallsInv
      <3> HIDE DEF slot
      <3> QED
        BY <2>1, <3>1, <3>2, <3>3 DEF CallsInv, OwnQuote
    <2>5. CASE Decide(v)
      BY <2>1, <2>2, <2>5 DEF Decide, CallbackReturns, IdleCallback, CallsInv, OwnQuote
    <2> QED
      BY <2>3, <2>4, <2>5 DEF Callback
  <1> QED
    BY <1>2, <1>3 DEF QuoteInv

LEMMA QuoteNext == QuoteInv /\ [Next]_vars => QuoteInv'
  <1> SUFFICES ASSUME QuoteInv, [Next]_vars PROVE QuoteInv'
    OBVIOUS
  <1>0. TableInv /\ IdsInv /\ QuoteIsLastSent /\ SentInv /\ CallsInv /\ LinkInv
    BY DEF QuoteInv
  <1>1. CASE LoadRow
    <2>1. LinkInv'
      BY <1>0, <1>1 DEF LoadRow, LinkInv, feedVars
    <2> QED
      BY <1>0, <1>1, <2>1, LoadTable, LoadIds, LoadQuotes DEF QuoteInv
  <1>2. ASSUME UNCHANGED <<tableVars, readVars, last>>, LinkInv'
        PROVE  QuoteInv'
    <2>1. TableMarkets' = TableMarkets /\ Before(loaded)' = Before(loaded)
      BY <1>2 DEF tableVars, TableMarkets, Before
    <2>2. TableInv'
      BY <1>0, <1>2, <2>1 DEF tableVars, TableInv
    <2>3. IdsInv'
      BY <1>0, <1>2 DEF tableVars, IdsInv, IdOfRow
    <2>4. QuoteIsLastSent' /\ SentInv'
      BY <1>0, <1>2 DEF tableVars, QuoteIsLastSent, SentInv
    <2>5. CallsInv'
      BY <1>0, <1>2 DEF tableVars, readVars, CallsInv, OwnQuote
    <2> QED
      BY <1>2, <2>2, <2>3, <2>4, <2>5 DEF QuoteInv
  <1>3. ASSUME NEW v \in Venues, Feed(v) \/ Library(v) PROVE QuoteInv'
    BY <1>0, <1>2, <1>3, LinkNext
  <1>4. CASE UNCHANGED vars
    <2>1. LinkInv'
      BY <1>0, <1>4 DEF vars, feedVars, LinkInv
    <2> QED
      BY <1>2, <1>4, <2>1 DEF vars
  <1> QED
    BY <1>1, <1>3, <1>4, ReceiveQuotes, CallbackQuotes DEF Next

(* Whatever the rows, the messages and the order in which the feeds run, the
   market table and every copy of a market hold prices and sizes that
   strategize accepts, and the table never has more markets than slots
   (market_data.hpp:123-175). *)
THEOREM FeedTypesHold == Spec => []TypeOK
  <1>1. QuoteInv => TypeOK
    <2> SUFFICES ASSUME QuoteInv PROVE TypeOK
      OBVIOUS
    <2>1. LinkInv /\ TableInv /\ IdsInv /\ CallsInv
      BY DEF QuoteInv
    <2>2. nextVid \in Nat
      BY <2>1 DEF IdsInv
    <2> QED
      BY <2>1, <2>2, Zenon DEF TableInv, IdsInv, CallsInv, LinkInv, TypeOK
  <1> QED
    BY <1>1, QuoteInit, QuoteNext, PTL DEF Spec

(* The table holds the last quote each venue sent for each market, and no
   other: a ticker leads to the row it is listed in, and its venue id to the
   slot of that row's market or nowhere (market_data.hpp:133-164). *)
THEOREM QuoteIsLastSentHolds == Spec => []QuoteIsLastSent
  <1>1. QuoteInv => QuoteIsLastSent
    BY DEF QuoteInv
  <1> QED
    BY <1>1, QuoteInit, QuoteNext, PTL DEF Spec

(* on_tick decides on the market its message was about and sees the quote of
   that message: until it has copied the market only its own feed could write
   that quote (main.cpp:314-318, market_data.hpp:133-148). *)
THEOREM TickSeesItsQuoteHolds == Spec => []TickSeesItsQuote
  <1>1. QuoteInv => TickSeesItsQuote
    BY DEF QuoteInv, CallsInv, OwnQuote, TickSeesItsQuote
  <1> QED
    BY <1>1, QuoteInit, QuoteNext, PTL DEF Spec
=============================================================================
