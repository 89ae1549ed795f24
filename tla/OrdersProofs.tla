---------------------------- MODULE OrdersProofs ----------------------------
(***************************************************************************)
(* What createTrade promises about the dates of a user's trades and about  *)
(* the open interest, and what a limit order is submitted at, for any      *)
(* number of requests, restarts and failures.                              *)
(***************************************************************************)
EXTENDS Orders, WellFoundedInduction, FiniteSetTheorems, TLAPS

(* The latest of a set of dates *)

LEMMA HasLatest ==
    ASSUME NEW n \in Nat, NEW S, S \subseteq 0..n, S # {}
    PROVE  Max(S) \in S /\ \A x \in S : Max(S) >= x
<1> DEFINE T == {n - x : x \in S}
           Less == {p \in Nat \X Nat : p[1] < p[2]}
<1>0. \A x \in S : x \in Int /\ x >= 0 /\ n - x \in Nat
  OBVIOUS
<1>1. T \subseteq Nat /\ T # {}
  BY <1>0
<1>2. PICK m \in T : \A y \in T : ~(<<y, m>> \in Less)
  <2>1. IsWellFoundedOn(Less, Nat)
    BY NatLessThanWellFounded DEF OpToRel
  <2> QED
    BY <1>1, <2>1, WFMin, Zenon
<1>3. ASSUME NEW y \in T PROVE y >= m
  <2>1. y \in Nat /\ m \in Nat /\ ~(<<y, m>> \in Less)
    BY <1>1, <1>2
  <2> QED
    BY <2>1
<1>4. PICK x \in S : m = n - x
  BY <1>2
<1>5. ASSUME NEW y \in S PROVE x >= y
  <2>1. n - y >= n - x
    BY <1>3, <1>4
  <2> QED
    BY <1>0, <2>1
<1> QED
  BY <1>4, <1>5 DEF Max

-----------------------------------------------------------------------------
(* The shape of trades and requests *)

Doc(state, date, strike, old) ==
    [state |-> state, queuedDate |-> date, strike |-> strike, strikeOld |-> old]
Dated(r) ==
    \E date, state, strike, old : date \in 0..MaxClock /\ r = Doc(state, date, strike, old)
Ask(phase, now, strike, toRead, last, total) ==
    [phase |-> phase, now |-> now, strike |-> strike, toRead |-> toRead, lastTrade |-> last,
     totalTrade |-> total]
Asks(r) ==
    \E phase, now, strike, toRead, last, total :
       /\ phase \in {"check", "create"} /\ now \in 0..MaxClock /\ last \subseteq 0..MaxClock
       /\ r = Ask(phase, now, strike, toRead, last, total)

\* Only a stored trade has an object or a call, and only one that is not stored a request.
Shape ==
    /\ clock \in 0..MaxClock
    /\ DOMAIN trades = Trade /\ DOMAIN req = Trade /\ DOMAIN seen = Trade
    /\ DOMAIN queue = Trade /\ DOMAIN calls = Trade
    /\ \A t \in Trade : trades[t] = NoTrade \/ Dated(trades[t])
    /\ \A t \in Trade : req[t] = NoReq \/ (Asks(req[t]) /\ trades[t] = NoTrade)
    /\ \A t \in Trade : queue[t] # NoObject \/ calls[t] # NoCall => trades[t] # NoTrade

LEMMA DatedFields ==
    ASSUME NEW r, Dated(r)
    PROVE  r # NoTrade /\ r.queuedDate \in 0..MaxClock
<1>1. PICK date, state, strike, old :
          date \in 0..MaxClock /\ r = Doc(state, date, strike, old)
  BY DEF Dated
<1>2. DOMAIN r # DOMAIN NoTrade
  <2>1. "queuedDate" \in DOMAIN r
    BY <1>1 DEF Doc
  <2> QED
    BY <2>1 DEF NoTrade
<1> QED
  BY <1>1, <1>2 DEF Doc

LEMMA DatedState ==
    ASSUME NEW r, Dated(r), NEW x
    PROVE  Dated([r EXCEPT !.state = x]) /\ [r EXCEPT !.state = x].queuedDate = r.queuedDate
<1>1. PICK date, state, strike, old :
          date \in 0..MaxClock /\ r = Doc(state, date, strike, old)
  BY DEF Dated
<1>2. [r EXCEPT !.state = x] = Doc(x, date, strike, old)
  BY <1>1 DEF Doc
<1>3. Dated([r EXCEPT !.state = x])
  BY <1>1, <1>2 DEF Dated
<1>4. r.queuedDate = date /\ Doc(x, date, strike, old).queuedDate = date
  BY <1>1 DEF Doc
<1> QED
  BY <1>2, <1>3, <1>4

LEMMA DatedWritten ==
    ASSUME NEW r, Dated(r), NEW w
    PROVE  Dated(Written(r, w)) /\ Written(r, w).queuedDate = r.queuedDate
<1>1. PICK date, state, strike, old :
          date \in 0..MaxClock /\ r = Doc(state, date, strike, old)
  BY DEF Dated
<1>2. Written(r, w) = Doc(state, date, w.strike, IF w.by = "job" THEN old ELSE w.strike)
  BY <1>1 DEF Doc, Written
<1>3. Dated(Written(r, w))
  BY <1>1, <1>2 DEF Dated
<1>4. r.queuedDate = date /\ \A s, o : Doc(state, date, s, o).queuedDate = date
  BY <1>1 DEF Doc
<1> QED
  BY <1>2, <1>3, <1>4

LEMMA NotWritten == \A w : Written(NoTrade, w) = NoTrade
  BY DEF Written, NoTrade

LEMMA AskFields ==
    ASSUME NEW r, Asks(r)
    PROVE  /\ r # NoReq /\ r.phase \in {"check", "create"} /\ r.now \in 0..MaxClock
           /\ r.lastTrade \subseteq 0..MaxClock
<1>1. PICK phase, now, strike, toRead, last, total :
          /\ phase \in {"check", "create"} /\ now \in 0..MaxClock /\ last \subseteq 0..MaxClock
          /\ r = Ask(phase, now, strike, toRead, last, total)
  BY DEF Asks
<1>2. "now" \in DOMAIN r
  BY <1>1 DEF Ask
<1>3. r # NoReq
  BY <1>2 DEF NoReq
<1> QED
  BY <1>1, <1>3 DEF Ask

\* What a step may make of a request of one trade: nothing, none, one that begins, one that
\* has read the last trade or the total, one that passed the checks.
ReadLast(r, rest, last) == [r EXCEPT !.toRead = rest, !.lastTrade = last]
ReadTotal(r, rest, total) == [r EXCEPT !.toRead = rest, !.totalTrade = total]
Passed(r) == [r EXCEPT !.phase = "create"]

LEMMA AskReadLast ==
    ASSUME NEW r, Asks(r), NEW rest, NEW last \in SUBSET (0..MaxClock)
    PROVE  LET q == ReadLast(r, rest, last)
           IN  Asks(q) /\ q.phase = r.phase /\ q.now = r.now /\ q.lastTrade = last
<1>1. PICK phase, now, strike, toRead, old, total :
          /\ phase \in {"check", "create"} /\ now \in 0..MaxClock /\ old \subseteq 0..MaxClock
          /\ r = Ask(phase, now, strike, toRead, old, total)
  BY DEF Asks
<1> DEFINE mid == [r EXCEPT !.toRead = rest]
<1>a. mid = Ask(phase, now, strike, rest, old, total)
  BY <1>1 DEF Ask
<1> HIDE DEF mid
<1>b. [mid EXCEPT !.lastTrade = last] = Ask(phase, now, strike, rest, last, total)
  BY <1>a DEF Ask
<1>2. ReadLast(r, rest, last) = Ask(phase, now, strike, rest, last, total)
  BY <1>b DEF ReadLast, mid
<1>3. Asks(ReadLast(r, rest, last))
  BY <1>1, <1>2 DEF Asks
<1> QED
  BY <1>1, <1>2, <1>3 DEF Ask

LEMMA AskReadTotal ==
    ASSUME NEW r, Asks(r), NEW rest, NEW n
    PROVE  LET q == ReadTotal(r, rest, n)
           IN  /\ Asks(q) /\ q.phase = r.phase /\ q.now = r.now /\ q.lastTrade = r.lastTrade
               /\ q.toRead = rest
<1>1. PICK phase, now, strike, toRead, last, total :
          /\ phase \in {"check", "create"} /\ now \in 0..MaxClock /\ last \subseteq 0..MaxClock
          /\ r = Ask(phase, now, strike, toRead, last, total)
  BY DEF Asks
<1> DEFINE mid == [r EXCEPT !.toRead = rest]
<1>a. mid = Ask(phase, now, strike, rest, last, total)
  BY <1>1 DEF Ask
<1> HIDE DEF mid
<1>b. [mid EXCEPT !.totalTrade = n] = Ask(phase, now, strike, rest, last, n)
  BY <1>a DEF Ask
<1>2. ReadTotal(r, rest, n) = Ask(phase, now, strike, rest, last, n)
  BY <1>b DEF ReadTotal, mid
<1>3. Asks(ReadTotal(r, rest, n))
  BY <1>1, <1>2 DEF Asks
<1> QED
  BY <1>1, <1>2, <1>3 DEF Ask

LEMMA AskPassed ==
    ASSUME NEW r, Asks(r)
    PROVE  LET q == Passed(r)
           IN  Asks(q) /\ q.phase = "create" /\ q.now = r.now
<1>1. PICK phase, now, strike, toRead, last, total :
          /\ phase \in {"check", "create"} /\ now \in 0..MaxClock /\ last \subseteq 0..MaxClock
          /\ r = Ask(phase, now, strike, toRead, last, total)
  BY DEF Asks
<1>2. Passed(r) = Ask("create", now, strike, toRead, last, total)
  BY <1>1 DEF Ask, Passed
<1>3. Asks(Passed(r))
  BY <1>1, <1>2 DEF Asks
<1> QED
  BY <1>1, <1>2, <1>3 DEF Ask

-----------------------------------------------------------------------------
(* The steps keep the shape, and the dates of stored trades *)

KeepsTrades ==
    \A t \in Trade : \/ trades[t] = NoTrade /\ trades'[t] = NoTrade
                     \/ /\ Dated(trades[t]) /\ Dated(trades'[t])
                        /\ trades'[t].queuedDate = trades[t].queuedDate
Domains == /\ DOMAIN trades = Trade /\ DOMAIN req = Trade /\ DOMAIN seen = Trade
           /\ DOMAIN queue = Trade /\ DOMAIN calls = Trade

LEMMA SameTrades == Shape /\ UNCHANGED trades => KeepsTrades
  BY DEF Shape, KeepsTrades

LEMMA JobShape ==
    ASSUME Shape, JobStep PROVE Shape' /\ KeepsTrades
<1>0. UNCHANGED <<clock, req, seen>>
  BY DEF JobStep, feeds
<1>1. ASSUME KeepsTrades, Domains',
             \A t \in Trade : queue'[t] # NoObject \/ calls'[t] # NoCall =>
                                 queue[t] # NoObject \/ calls[t] # NoCall
      PROVE  Shape' /\ KeepsTrades
  <2>1. \A t \in Trade : trades[t] # NoTrade => trades'[t] # NoTrade
    BY <1>1, DatedFields DEF KeepsTrades
  <2>2. \A t \in Trade : trades[t] = NoTrade => trades'[t] = NoTrade
    BY <1>1, DatedFields DEF KeepsTrades
  <2>3. \A t \in Trade : trades'[t] = NoTrade \/ Dated(trades'[t])
    BY <1>1 DEF KeepsTrades
  <2>4. \A t \in Trade : req'[t] = NoReq \/ (Asks(req'[t]) /\ trades'[t] = NoTrade)
    BY <1>0, <2>2 DEF Shape
  <2>5. clock' \in 0..MaxClock
    BY <1>0 DEF Shape
  <2> QED
    BY <1>1, <2>1, <2>3, <2>4, <2>5 DEF Shape, Domains
<1>d. Domains
  BY DEF Shape, Domains
<1>2. CASE ProcessTradeMarket \/ ProcessTradeLimit
  <2>1. UNCHANGED trades
    BY <1>2 DEF ProcessTradeMarket, ProcessTradeLimit
  <2>2. /\ DOMAIN queue' = Trade /\ DOMAIN calls' = Trade
        /\ \E batch : /\ \A t \in batch : queue[t] # NoObject
                      /\ \A t \in Trade : /\ queue'[t] # NoObject => queue[t] # NoObject
                                          /\ t \notin batch => calls'[t] = calls[t]
    <3>1. CASE ProcessTradeMarket
      BY <3>1 DEF ProcessTradeMarket, OpenTradeContract, Queued
    <3>2. CASE ProcessTradeLimit
      BY <3>2 DEF ProcessTradeLimit, OpenTradeContract, Queued
    <3> QED
      BY <1>2, <3>1, <3>2
  <2> QED
    BY <1>0, <1>1, <1>d, <2>1, <2>2, SameTrades DEF Domains
<1>3. ASSUME NEW t \in Trade, CallFails(t) PROVE Shape' /\ KeepsTrades
  BY <1>0, <1>1, <1>3, <1>d, SameTrades DEF CallFails, Domains
<1>4. ASSUME NEW t \in Trade, TradeOpens(t) PROVE Shape' /\ KeepsTrades
  <2>1. trades[t] # NoTrade
    BY <1>4 DEF TradeOpens, Shape
  <2>2. Dated(trades[t])
    BY <2>1 DEF Shape
  <2>3. KeepsTrades
    BY <1>4, <1>d, <2>2, DatedState DEF TradeOpens, KeepsTrades, Shape, Domains
  <2> QED
    BY <1>0, <1>1, <1>4, <1>d, <2>3 DEF TradeOpens, Domains
<1>5. ASSUME NEW w \in writes, WriteLands(w) PROVE Shape' /\ KeepsTrades
  <2>1. \A t \in Trade : trades'[t] = IF t = w.trade THEN Written(trades[t], w) ELSE trades[t]
    BY <1>5, <1>d DEF WriteLands, Domains
  <2>2. KeepsTrades
    BY <2>1, DatedWritten, NotWritten DEF KeepsTrades, Shape
  <2> QED
    BY <1>0, <1>1, <1>5, <1>d, <2>2 DEF WriteLands, Domains
<1> QED
  BY <1>2, <1>3, <1>4, <1>5 DEF JobStep

LEMMA OtherShape ==
    ASSUME Shape,
           FeedStep \/ Restart \/ (\E t \in Trade, s \in NewStrikes : UpdateTrade(t, s)) \/ UNCHANGED vars
    PROVE  Shape' /\ UNCHANGED <<trades, seen>>
<1>1. CASE FeedStep
  BY <1>1, OrdersAssumption DEF FeedStep, Tick, UpdatePairPriceToMem, SyncMaxOI, Shape, history
<1>2. CASE Restart
  <2>1. \A t \in Trade : Loaded(t) # NoObject => trades[t] # NoTrade
    BY DEF Loaded, NoTrade
  <2> QED
    BY <1>2, <2>1 DEF Restart, Shape
<1>3. ASSUME NEW t \in Trade, NEW s \in NewStrikes, UpdateTrade(t, s)
      PROVE  Shape' /\ UNCHANGED <<trades, seen>>
  <2>1. trades[t] # NoTrade
    BY <1>3 DEF UpdateTrade, Queued, Shape
  <2> QED
    BY <1>3, <2>1 DEF UpdateTrade, Shape, feeds
<1>4. CASE UNCHANGED vars
  BY <1>4 DEF vars, feeds, history, Shape
<1> QED
  BY <1>1, <1>2, <1>3, <1>4

\* What a step of one request does to it, while no trade changes.
LEMMA RequestShape ==
    ASSUME Shape, UNCHANGED <<clock, trades, queue, calls>>,
           DOMAIN seen' = Trade, DOMAIN req' = Trade, NEW t \in Trade,
           \A u \in Trade \ {t} : req'[u] = req[u],
           req'[t] = NoReq \/ (Asks(req'[t]) /\ trades[t] = NoTrade)
    PROVE  Shape'
  BY DEF Shape

LEMMA LatestDate ==
    ASSUME Shape, MaxClock \in Nat
    PROVE  /\ Latest \in SUBSET (0..MaxClock)
           /\ \A t \in Stored : \E date \in Latest : trades[t].queuedDate <= date
<1>1. LastDates \subseteq 0..MaxClock
  BY DatedFields DEF LastDates, Stored, Shape
<1>2. \A t \in Stored : trades[t].queuedDate \in LastDates
  BY DEF LastDates
<1>3. CASE LastDates = {}
  BY <1>2, <1>3 DEF Latest
<1>4. CASE LastDates # {}
  <2>1. Max(LastDates) \in LastDates /\ \A d \in LastDates : Max(LastDates) >= d
    BY <1>1, <1>4, HasLatest
  <2>2. Latest = {Max(LastDates)}
    BY <1>4 DEF Latest
  <2>3. \A d \in LastDates : d \in Int
    BY <1>1
  <2> QED
    BY <1>1, <1>2, <2>1, <2>2, <2>3
<1> QED
  BY <1>3, <1>4

-----------------------------------------------------------------------------
(* The dates *)

\* What a request knows of the trades it saw: the latest of their dates, then that its own is
\* a second later.
Knows(t) ==
    /\ seen[t] \subseteq Stored
    /\ req[t].phase = "check" /\ "lastTrade" \notin req[t].toRead =>
          \A o \in seen[t] : \E date \in req[t].lastTrade : trades[o].queuedDate <= date
    /\ req[t].phase = "create" =>
          \A o \in seen[t] : req[t].now >= trades[o].queuedDate + 1
DatesInv == (\A t \in Trade : Knows(t)) /\ OneSecondApart

\* What a request knows it goes on to know, unless it reads, passes or stores.
LEMMA StillKnows ==
    ASSUME Shape, KeepsTrades, NEW t \in Trade, Knows(t), seen'[t] = seen[t],
           \/ req'[t] = req[t]
           \/ req'[t] = NoReq
           \/ req'[t].phase = "check" /\ "lastTrade" \in req'[t].toRead
           \/ /\ req[t].phase = "check" /\ req'[t].phase = "check"
              /\ req'[t].lastTrade = req[t].lastTrade
              /\ "lastTrade" \in req[t].toRead => "lastTrade" \in req'[t].toRead
    PROVE  Knows(t)'
<1>1. Stored' = Stored /\ \A o \in Stored : trades'[o].queuedDate = trades[o].queuedDate
  BY DatedFields DEF Stored, KeepsTrades
<1>2. NoReq.phase = "none"
  BY DEF NoReq
<1> QED
  BY <1>1, <1>2 DEF Knows

LEMMA KeptDates ==
    ASSUME Shape, KeepsTrades, DatesInv, UNCHANGED seen PROVE OneSecondApart'
<1>1. Stored' = Stored /\ \A o \in Stored : trades'[o].queuedDate = trades[o].queuedDate
  BY DatedFields DEF Stored, KeepsTrades
<1>2. \A t \in Stored : seen[t] \subseteq Stored
  BY DEF DatesInv, Knows, Stored
<1> QED
  BY <1>1, <1>2 DEF DatesInv, OneSecondApart

LEMMA CreateDates ==
    ASSUME Shape, DatesInv, UNCHANGED <<clock, calls>>, NEW t \in Trade,
           \/ CreateTrade(t) \/ ReadLastTrade(t) \/ GetTotalTradeOfPool(t) \/ CheckTrade(t)
           \/ StoreTrade(t)
    PROVE  Shape' /\ DatesInv'
<1>0. MaxClock \in Nat /\ clock \in 0..MaxClock /\ NoReq.phase = "none"
  BY OrdersAssumption DEF Shape, NoReq
<1>r. req[t].phase \in {"check", "create"} => Asks(req[t]) /\ trades[t] = NoTrade
  BY <1>0 DEF Shape
<1>1. CASE CreateTrade(t)
  <2>1. PICK s \in Strikes : req' = [req EXCEPT ![t] = Ask("check", clock, s, Reads, {}, 0)]
    BY <1>1 DEF CreateTrade, Ask
  <2> DEFINE r == Ask("check", clock, s, Reads, {}, 0)
  <2>2. Asks(r)
    BY <1>0 DEF Asks
  <2>3. r.phase = "check" /\ "lastTrade" \in r.toRead
    BY DEF Ask, Reads
  <2>x. req' = [req EXCEPT ![t] = r]
    BY <2>1
  <2> HIDE DEF r
  <2>4. UNCHANGED <<trades, queue, seen>> /\ trades[t] = NoTrade /\ DOMAIN seen' = Trade
    BY <1>1 DEF CreateTrade, Shape
  <2>5. Shape' /\ \A u \in Trade : req'[u] = IF u = t THEN r ELSE req[u]
    <3>a. DOMAIN req' = Trade /\ \A u \in Trade : req'[u] = IF u = t THEN r ELSE req[u]
      BY <2>x, <2>2, <2>4 DEF Shape
    <3>b. UNCHANGED <<clock, trades, queue, calls>>
      BY <2>x, <2>2, <2>4
    <3> QED
      BY <2>x, <2>2, <2>4, <3>a, <3>b, RequestShape
  <2>6. \A u \in Trade : Knows(u)'
    BY <2>3, <2>4, <2>5, SameTrades, StillKnows DEF DatesInv
  <2> QED
    BY <2>4, <2>5, <2>6, SameTrades, KeptDates DEF DatesInv
<1>2. CASE ReadLastTrade(t)
  <2>0. Asks(req[t]) /\ trades[t] = NoTrade /\ UNCHANGED <<trades, queue>>
    BY <1>2, <1>r DEF ReadLastTrade
  <2> DEFINE r == ReadLast(req[t], req[t].toRead \ {"lastTrade"}, Latest)
  <2>1. Latest \in SUBSET (0..MaxClock) /\ \A o \in Stored : \E date \in Latest : trades[o].queuedDate <= date
    BY <1>0, LatestDate
  <2>2. Asks(r) /\ r.phase = "check" /\ r.lastTrade = Latest
    BY <1>2, <2>0, <2>1, AskReadLast DEF ReadLastTrade
  <2>3. req' = [req EXCEPT ![t] = r]
    BY <1>2 DEF ReadLastTrade, ReadLast, Shape
  <2>4. DOMAIN seen' = Trade /\ \A u \in Trade : seen'[u] = IF u = t THEN Stored ELSE seen[u]
    BY <1>2 DEF ReadLastTrade, Shape
  <2> HIDE DEF r
  <2>5. Shape' /\ \A u \in Trade : req'[u] = IF u = t THEN r ELSE req[u]
    <3>a. DOMAIN req' = Trade /\ \A u \in Trade : req'[u] = IF u = t THEN r ELSE req[u]
      BY <2>0, <2>2, <2>3, <2>4 DEF Shape
    <3>b. UNCHANGED <<clock, trades, queue, calls>>
      BY <2>0, <2>2, <2>3, <2>4
    <3> QED
      BY <2>0, <2>2, <2>3, <2>4, <3>a, <3>b, RequestShape
  <2>6. Knows(t)'
    BY <2>0, <2>1, <2>2, <2>4, <2>5 DEF Knows, Stored
  <2>7. \A u \in Trade \ {t} : Knows(u)'
    BY <2>0, <2>4, <2>5, SameTrades, StillKnows DEF DatesInv
  <2>8. OneSecondApart'
    BY <2>0, <2>4 DEF DatesInv, OneSecondApart, Stored
  <2> QED
    BY <2>5, <2>6, <2>7, <2>8 DEF DatesInv
<1>3. CASE GetTotalTradeOfPool(t)
  <2>0. Asks(req[t]) /\ trades[t] = NoTrade /\ UNCHANGED <<trades, queue, seen>>
    BY <1>3, <1>r DEF GetTotalTradeOfPool
  <2> DEFINE rest == req[t].toRead \ {"totalTrade"}
             r == ReadTotal(req[t], rest, Cardinality(InState("OPENED")))
  <2>1. /\ Asks(r) /\ r.phase = req[t].phase /\ r.lastTrade = req[t].lastTrade
        /\ r.toRead = rest /\ req[t].phase = "check"
    BY <1>3, <2>0, AskReadTotal DEF GetTotalTradeOfPool
  <2>2. req' = [req EXCEPT ![t] = r]
    BY <1>3 DEF GetTotalTradeOfPool, ReadTotal, Shape
  <2>3. "lastTrade" \in req[t].toRead => "lastTrade" \in r.toRead
    BY <2>1
  <2> HIDE DEF r, rest
  <2>4. DOMAIN seen' = Trade
    BY <2>0 DEF Shape
  <2>5. Shape' /\ \A u \in Trade : req'[u] = IF u = t THEN r ELSE req[u]
    <3>a. DOMAIN req' = Trade /\ \A u \in Trade : req'[u] = IF u = t THEN r ELSE req[u]
      BY <2>0, <2>1, <2>2, <2>4 DEF Shape
    <3>b. UNCHANGED <<clock, trades, queue, calls>>
      BY <2>0, <2>1, <2>2, <2>4
    <3> QED
      BY <2>0, <2>1, <2>2, <2>4, <3>a, <3>b, RequestShape
  <2>6. \A u \in Trade : Knows(u)'
    BY <2>0, <2>1, <2>3, <2>5, SameTrades, StillKnows DEF DatesInv
  <2> QED
    BY <2>0, <2>5, <2>6, SameTrades, KeptDates DEF DatesInv
<1>4. CASE CheckTrade(t)
  <2>0. Asks(req[t]) /\ trades[t] = NoTrade /\ UNCHANGED <<trades, queue, seen>>
    BY <1>4, <1>r DEF CheckTrade
  <2>4. DOMAIN seen' = Trade
    BY <2>0 DEF Shape
  <2>1. CASE Refused(t)
    <3>1. req' = [req EXCEPT ![t] = NoReq]
      BY <1>4, <2>1 DEF CheckTrade
    <3>2. Shape' /\ \A u \in Trade : req'[u] = IF u = t THEN NoReq ELSE req[u]
      <4>a. DOMAIN req' = Trade /\ \A u \in Trade : req'[u] = IF u = t THEN NoReq ELSE req[u]
        BY <2>0, <2>4, <3>1 DEF Shape
      <4>b. UNCHANGED <<clock, trades, queue, calls>>
        BY <2>0, <2>4, <3>1
      <4> QED
        BY <2>0, <2>4, <3>1, <4>a, <4>b, RequestShape
    <3>3. \A u \in Trade : Knows(u)'
      BY <2>0, <3>2, SameTrades, StillKnows DEF DatesInv
    <3> QED
      BY <2>0, <3>2, <3>3, SameTrades, KeptDates DEF DatesInv
  <2>2. CASE ~Refused(t)
    <3> DEFINE r == Passed(req[t])
    <3>1. req' = [req EXCEPT ![t] = r]
      BY <1>4, <2>2 DEF CheckTrade, Passed, Shape
    <3>2. Asks(r) /\ r.phase = "create" /\ r.now = req[t].now
      BY <2>0, AskPassed
    <3> HIDE DEF r
    <3>3. Shape' /\ \A u \in Trade : req'[u] = IF u = t THEN r ELSE req[u]
      <4>a. DOMAIN req' = Trade /\ \A u \in Trade : req'[u] = IF u = t THEN r ELSE req[u]
        BY <2>0, <2>4, <3>1, <3>2 DEF Shape
      <4>b. UNCHANGED <<clock, trades, queue, calls>>
        BY <2>0, <2>4, <3>1, <3>2
      <4> QED
        BY <2>0, <2>4, <3>1, <3>2, <4>a, <4>b, RequestShape
    <3>4. \A date \in req[t].lastTrade : ~(date + 1 > req[t].now)
      BY <2>2 DEF Refused, TooQuickly
    <3>5. req[t].now \in 0..MaxClock /\ req[t].lastTrade \subseteq 0..MaxClock
      BY <2>0, AskFields
    <3>6. \A o \in seen[t] : \E date \in req[t].lastTrade : trades[o].queuedDate <= date
      BY <1>4 DEF DatesInv, Knows, CheckTrade
    <3>7. \A o \in seen[t] : trades[o].queuedDate \in 0..MaxClock
      BY DatedFields DEF DatesInv, Knows, Stored, Shape
    <3>8. \A o \in seen[t] : req[t].now >= trades[o].queuedDate + 1
      BY <1>0, <3>4, <3>5, <3>6, <3>7
    <3>9. Knows(t)'
      <4>1. seen'[t] \subseteq Stored'
        BY <2>0 DEF DatesInv, Knows, Stored
      <4> QED
        BY <2>0, <3>2, <3>3, <3>8, <4>1 DEF Knows
    <3>10. \A u \in Trade \ {t} : Knows(u)'
      BY <2>0, <3>3, SameTrades, StillKnows DEF DatesInv
    <3> QED
      BY <2>0, <3>3, <3>9, <3>10, SameTrades, KeptDates DEF DatesInv
  <2> QED
    BY <2>1, <2>2
<1>5. CASE StoreTrade(t)
  <2>0. Asks(req[t]) /\ trades[t] = NoTrade /\ UNCHANGED seen /\ req[t].phase = "create"
    BY <1>5, <1>r DEF StoreTrade
  <2> DEFINE doc == Doc("QUEUED", req[t].now, req[t].strike, req[t].strike)
  <2>1. \A u \in Trade : trades'[u] = IF u = t THEN doc ELSE trades[u]
    BY <1>5 DEF StoreTrade, Doc, Shape
  <2>2. req[t].now \in 0..MaxClock
    BY <2>0, AskFields
  <2>3. Dated(doc) /\ doc.queuedDate = req[t].now
    <3>1. Dated(doc)
      BY <2>2 DEF Dated
    <3> QED
      BY <3>1 DEF Doc
  <2> HIDE DEF doc
  <2>4. doc # NoTrade
    BY <2>3, DatedFields
  <2>5. \A u \in Trade : req'[u] = IF u = t THEN NoReq ELSE req[u]
    BY <1>5 DEF StoreTrade, Shape
  <2>6. Shape'
    BY <1>5, <2>0, <2>1, <2>3, <2>4, <2>5 DEF StoreTrade, Shape
  <2>7. Stored' = Stored \cup {t} /\ t \notin Stored
    BY <2>0, <2>1, <2>4 DEF Stored
  <2>8. \A o \in Stored : trades'[o] = trades[o]
    BY <2>1, <2>7 DEF Stored
  <2>9. ASSUME NEW u \in Trade PROVE Knows(u)'
    <3>1. Knows(u)
      BY DEF DatesInv
    <3>2. CASE u = t
      BY <1>0, <2>0, <2>5, <2>7, <3>1, <3>2 DEF Knows
    <3>3. CASE u # t
      <4>1. req'[u] = req[u] /\ seen'[u] = seen[u] /\ seen[u] \subseteq Stored
        BY <2>0, <2>5, <3>1, <3>3 DEF Knows
      <4> QED
        BY <2>7, <2>8, <3>1, <4>1 DEF Knows
    <3> QED
      BY <3>2, <3>3
  <2>10. ASSUME NEW u \in Stored', NEW o \in seen'[u]
         PROVE  trades'[u].queuedDate >= trades'[o].queuedDate + 1
    <3>1. u \in Trade /\ seen'[u] = seen[u] /\ seen[u] \subseteq Stored
      BY <2>0, <2>10 DEF Stored, DatesInv, Knows
    <3>2. trades'[o] = trades[o] /\ o \in seen[u]
      BY <2>8, <2>10, <3>1
    <3>3. CASE u = t
      <4>1. trades'[t].queuedDate = req[t].now
        BY <2>1, <2>3
      <4>2. req[t].now >= trades[o].queuedDate + 1
        BY <2>0, <3>2, <3>3 DEF DatesInv, Knows
      <4> QED
        BY <3>2, <3>3, <4>1, <4>2
    <3>4. CASE u # t
      <4>1. u \in Stored
        BY <2>7, <2>10, <3>4
      <4> QED
        BY <2>8, <3>2, <4>1 DEF DatesInv, OneSecondApart
    <3> QED
      BY <3>3, <3>4
  <2> QED
    BY <2>6, <2>9, <2>10 DEF DatesInv, OneSecondApart
<1> QED
  BY <1>1, <1>2, <1>3, <1>4, <1>5

LEMMA DatesStep == Shape /\ DatesInv /\ [Next]_vars => Shape' /\ DatesInv'
<1> SUFFICES ASSUME Shape, DatesInv, [Next]_vars PROVE Shape' /\ DatesInv'
  OBVIOUS
<1>1. CASE CreateStep
  BY <1>1, CreateDates DEF CreateStep, feeds
<1>2. ASSUME KeepsTrades, UNCHANGED seen, \A t \in Trade : req'[t] = req[t] \/ req'[t] = NoReq
      PROVE  DatesInv'
  <2>1. \A t \in Trade : Knows(t)'
    BY <1>2, StillKnows DEF DatesInv
  <2> QED
    BY <1>2, <2>1, KeptDates DEF DatesInv
<1>3. CASE JobStep
  <2>1. UNCHANGED <<req, seen>>
    BY <1>3 DEF JobStep
  <2> QED
    BY <1>2, <1>3, <2>1, JobShape
<1>4. CASE FeedStep \/ Restart \/ (\E t \in Trade, s \in NewStrikes : UpdateTrade(t, s)) \/ UNCHANGED vars
  <2>1. \A t \in Trade : req'[t] = req[t] \/ req'[t] = NoReq
    BY <1>4 DEF FeedStep, Restart, UpdateTrade, vars
  <2> QED
    BY <1>2, <1>4, <2>1, OtherShape, SameTrades
<1> QED
  BY <1>1, <1>3, <1>4 DEF Next

LEMMA DatesHold == Spec => [](Shape /\ DatesInv)
<1>1. Init => Shape /\ DatesInv
  <2> SUFFICES ASSUME Init PROVE Shape /\ DatesInv
    OBVIOUS
  <2>1. NoReq.phase = "none"
    BY DEF NoReq
  <2>2. Shape
    BY OrdersAssumption DEF Init, Shape
  <2>3. Stored = {} /\ \A t \in Trade : seen[t] = {} /\ req[t] = NoReq
    BY DEF Init, Stored
  <2> QED
    BY <2>1, <2>2, <2>3 DEF DatesInv, Knows, OneSecondApart
<1> QED
  BY <1>1, DatesStep, PTL DEF Spec

\* Of two trades of a user the one whose request looked for the last trade after the other was
\* stored is later by a second, by the dates both carry, through any restarts, failed calls
\* and writes that land late: what createTrade's check promises, and no more.
THEOREM OneSecondApartHolds == Spec => []OneSecondApart
<1>1. DatesInv => OneSecondApart
  BY DEF DatesInv
<1> QED
  BY <1>1, DatesHold, PTL

-----------------------------------------------------------------------------
(* Type correctness *)

LEMMA HasLeast ==
    ASSUME NEW S, S \subseteq Nat, S # {}
    PROVE  Min(S) \in S /\ \A x \in S : Min(S) <= x
<1> DEFINE Less == {p \in Nat \X Nat : p[1] < p[2]}
<1>1. PICK m \in S : \A y \in S : ~(<<y, m>> \in Less)
  <2>1. IsWellFoundedOn(Less, Nat)
    BY NatLessThanWellFounded DEF OpToRel
  <2> QED
    BY <2>1, WFMin, Zenon
<1>2. ASSUME NEW y \in S PROVE m <= y
  <2>1. y \in Nat /\ m \in Nat /\ ~(<<y, m>> \in Less)
    BY <1>1
  <2> QED
    BY <2>1
<1> QED
  BY <1>2 DEF Min

TradeDoc == [state : {"QUEUED", "OPENED"}, queuedDate : 0..MaxClock, strike : Nat, strikeOld : Nat]
Request  == [phase : {"check", "create"}, now : 0..MaxClock, strike : Strikes, toRead : SUBSET Reads,
             lastTrade : SUBSET (0..MaxClock), totalTrade : Nat]
Object   == [strike : Nat, strikeOld : Nat]
Call     == [price : Nat, strike : Nat, strikeOld : Nat]
Write    == [trade : Trade, by : {"job", "user"}, strike : Nat]

\* The trades that were asked for and not refused: finitely many at any time.
Known == {t \in Trade : trades[t] # NoTrade \/ req[t] # NoReq}

Typed ==
    /\ clock \in 0..MaxClock /\ maxOI \subseteq {MaxOI}
    /\ feed \in Seq(Prices) /\ Len(feed) <= Window
    /\ trades \in [Trade -> TradeDoc \cup {NoTrade}]
    /\ req \in [Trade -> Request \cup {NoReq}]
    /\ queue \in [Trade -> Object] /\ calls \in [Trade -> Call]
    /\ writes \subseteq Write
    /\ \A t \in Trade :
          /\ queue[t] # NoObject => calls[t] = NoCall
          /\ queue[t] # NoObject \/ calls[t] # NoCall => trades[t] # NoTrade
          /\ req[t] # NoReq => trades[t] = NoTrade
    /\ IsFiniteSet(Known)

LEMMA TypedTrades ==
    ASSUME Typed, NEW t \in Trade
    PROVE  /\ trades[t].state \in {"none", "QUEUED", "OPENED"}
           /\ trades[t].state = "none" <=> trades[t] = NoTrade
           /\ req[t].phase \in {"none", "check", "create"}
           /\ req[t].phase = "none" <=> req[t] = NoReq
  BY DEF Typed, TradeDoc, Request, NoTrade, NoReq

LEMMA TypedIsTypeOK == Typed => TypeOK
  BY TypedTrades DEF Typed, TypeOK, Write

\* What a request reads: dates, and how many trades are open.
LEMMA WhatIsRead ==
    ASSUME Typed
    PROVE  Latest \in SUBSET (0..MaxClock) /\ Cardinality(InState("OPENED")) \in Nat
<1>1. LastDates \subseteq 0..MaxClock
  BY DEF LastDates, Stored, Typed, TradeDoc
<1>2. Latest \in SUBSET (0..MaxClock)
  <2>1. CASE LastDates = {}
    BY <2>1 DEF Latest
  <2>2. CASE LastDates # {}
    BY <1>1, <2>2, OrdersAssumption, HasLatest DEF Latest
  <2> QED
    BY <2>1, <2>2
<1>3. InState("OPENED") \subseteq Known
  BY DEF InState, Known, NoTrade
<1>4. IsFiniteSet(InState("OPENED"))
  BY <1>3, FS_Subset DEF Typed
<1> QED
  BY <1>2, <1>4, FS_CardinalityType

\* A request of one trade that begins, goes on, is refused or stored.
LEMMA CreateTyped ==
    ASSUME Typed, NEW t \in Trade, UNCHANGED <<feeds, calls, writes>>,
           \/ CreateTrade(t) \/ ReadLastTrade(t) \/ GetTotalTradeOfPool(t) \/ CheckTrade(t)
           \/ StoreTrade(t)
    PROVE  Typed'
<1>0. /\ trades[t] \in TradeDoc \cup {NoTrade} /\ req[t] \in Request \cup {NoReq}
      /\ Strikes \subseteq Nat /\ UNCHANGED <<clock, feed, maxOI>>
  BY OrdersAssumption DEF Typed, feeds
<1>f. IsFiniteSet(Known) /\ IsFiniteSet(Known \cup {t})
  BY FS_AddElement DEF Typed
<1>1. ASSUME NEW r \in Request \cup {NoReq}, req' = [req EXCEPT ![t] = r],
             trades[t] = NoTrade, UNCHANGED <<trades, queue>>
      PROVE  Typed'
  <2>1. req' \in [Trade -> Request \cup {NoReq}] /\ \A u \in Trade \ {t} : req'[u] = req[u]
    BY <1>1 DEF Typed
  <2>2. Known' \subseteq Known \cup {t}
    BY <1>1, <2>1 DEF Known
  <2>3. IsFiniteSet(Known')
    BY <1>f, <2>2, FS_Subset
  <2> QED
    BY <1>0, <1>1, <2>1, <2>3 DEF Typed
<1>r. req[t].phase \in {"check", "create"} => req[t] \in Request /\ trades[t] = NoTrade
  BY <1>0, TypedTrades DEF Typed
<1>2. CASE CreateTrade(t)
  <2>1. PICK s \in Strikes : req' = [req EXCEPT ![t] =
           [phase |-> "check", now |-> clock, strike |-> s, toRead |-> Reads,
            lastTrade |-> {}, totalTrade |-> 0]]
    BY <1>2 DEF CreateTrade
  <2>2. [phase |-> "check", now |-> clock, strike |-> s, toRead |-> Reads,
         lastTrade |-> {}, totalTrade |-> 0] \in Request
    BY <1>0 DEF Typed, Request
  <2> QED
    BY <1>1, <1>2, <2>1, <2>2 DEF CreateTrade
<1>3. CASE ReadLastTrade(t)
  <2>1. req' = [req EXCEPT ![t] = [req[t] EXCEPT !.toRead = @ \ {"lastTrade"}, !.lastTrade = Latest]]
    BY <1>3 DEF ReadLastTrade
  <2>2. \A r \in Request, last \in SUBSET (0..MaxClock) :
           [r EXCEPT !.toRead = @ \ {"lastTrade"}, !.lastTrade = last] \in Request
    BY DEF Request
  <2>3. [req[t] EXCEPT !.toRead = @ \ {"lastTrade"}, !.lastTrade = Latest] \in Request
    BY <1>3, <1>r, <2>2, WhatIsRead DEF ReadLastTrade
  <2> QED
    BY <1>1, <1>3, <1>r, <2>1, <2>3 DEF ReadLastTrade
<1>4. CASE GetTotalTradeOfPool(t)
  <2> DEFINE total == Cardinality(InState("OPENED"))
  <2>1. req' = [req EXCEPT ![t] = [req[t] EXCEPT !.toRead = @ \ {"totalTrade"}, !.totalTrade = total]]
    BY <1>4 DEF GetTotalTradeOfPool
  <2>n. total \in Nat
    BY WhatIsRead
  <2> HIDE DEF total
  <2>2. \A r \in Request : [r EXCEPT !.toRead = @ \ {"totalTrade"}, !.totalTrade = total] \in Request
    BY <2>n DEF Request
  <2>3. [req[t] EXCEPT !.toRead = @ \ {"totalTrade"}, !.totalTrade = total] \in Request
    BY <1>4, <1>r, <2>2 DEF GetTotalTradeOfPool
  <2> QED
    BY <1>1, <1>4, <1>r, <2>1, <2>3 DEF GetTotalTradeOfPool
<1>5. CASE CheckTrade(t)
  <2>1. req' = [req EXCEPT ![t] = IF Refused(t) THEN NoReq ELSE [req[t] EXCEPT !.phase = "create"]]
    BY <1>5 DEF CheckTrade
  <2>2. \A r \in Request : [r EXCEPT !.phase = "create"] \in Request
    BY DEF Request
  <2>3. (IF Refused(t) THEN NoReq ELSE [req[t] EXCEPT !.phase = "create"]) \in Request \cup {NoReq}
    BY <1>5, <1>r, <2>2 DEF CheckTrade
  <2> QED
    BY <1>1, <1>5, <1>r, <2>1, <2>3 DEF CheckTrade
<1>6. CASE StoreTrade(t)
  <2> DEFINE doc == [state |-> "QUEUED", queuedDate |-> req[t].now,
                     strike |-> req[t].strike, strikeOld |-> req[t].strike]
             object == [strike |-> req[t].strike, strikeOld |-> req[t].strike]
  <2>1. req[t] \in Request /\ trades[t] = NoTrade /\ calls[t] = NoCall
    BY <1>6, <1>r DEF StoreTrade, Typed
  <2>2. doc \in TradeDoc /\ object \in Object /\ doc # NoTrade
    <3>1. req[t].now \in 0..MaxClock /\ req[t].strike \in Nat
      BY <1>0, <2>1 DEF Request
    <3>2. doc \in TradeDoc /\ object \in Object
      BY <3>1 DEF TradeDoc, Object
    <3>3. doc.state # NoTrade.state
      BY DEF NoTrade
    <3> QED
      BY <3>2, <3>3
  <2>3. /\ trades' = [trades EXCEPT ![t] = doc] /\ queue' = [queue EXCEPT ![t] = object]
        /\ req' = [req EXCEPT ![t] = NoReq]
    BY <1>6 DEF StoreTrade
  <2> HIDE DEF doc, object
  <2>4. /\ trades' \in [Trade -> TradeDoc \cup {NoTrade}] /\ queue' \in [Trade -> Object]
        /\ req' \in [Trade -> Request \cup {NoReq}]
        /\ trades'[t] # NoTrade /\ req'[t] = NoReq
        /\ \A u \in Trade \ {t} : trades'[u] = trades[u] /\ queue'[u] = queue[u] /\ req'[u] = req[u]
    BY <2>2, <2>3 DEF Typed
  <2>5. Known' \subseteq Known \cup {t}
    BY <2>4 DEF Known
  <2>6. IsFiniteSet(Known')
    BY <1>f, <2>5, FS_Subset
  <2>7. \A u \in Trade : /\ queue'[u] # NoObject => calls'[u] = NoCall
                         /\ queue'[u] # NoObject \/ calls'[u] # NoCall => trades'[u] # NoTrade
                         /\ req'[u] # NoReq => trades'[u] = NoTrade
    BY <2>1, <2>4 DEF Typed
  <2> QED
    BY <1>0, <2>4, <2>6, <2>7 DEF Typed
<1> QED
  BY <1>2, <1>3, <1>4, <1>5, <1>6

\* The price of a batch is one of the feed.
LEMMA PriceOfFeed ==
    ASSUME Typed, feed # << >>, NEW strike
    PROVE  /\ MarketPriceAvailable(strike) \in Nat
           /\ Fitting(strike) # {} => LimitPriceAvailable(strike) \in Nat
<1>1. DOMAIN feed = 1..Len(feed) /\ Len(feed) \in Nat /\ Len(feed) # 0 /\ feed \in Seq(Prices)
  BY DEF Typed
<1>2. \A i \in DOMAIN feed : feed[i] \in Nat
  BY <1>1, OrdersAssumption
<1>3. Fitting(strike) \subseteq DOMAIN feed
  BY DEF Fitting
<1>4. CASE Fitting(strike) = {}
  <2>1. Len(feed) \in DOMAIN feed
    BY <1>1
  <2> QED
    BY <1>2, <1>4, <2>1 DEF MarketPriceAvailable
<1>5. CASE Fitting(strike) # {}
  <2>1. Fitting(strike) \subseteq Nat
    BY <1>1, <1>3
  <2>2. Min(Fitting(strike)) \in DOMAIN feed
    BY <1>3, <1>5, <2>1, HasLeast
  <2> QED
    BY <1>2, <1>5, <2>2 DEF MarketPriceAvailable, LimitPriceAvailable
<1> QED
  BY <1>4, <1>5

LEMMA BatchTyped ==
    ASSUME Typed, ProcessTradeMarket \/ ProcessTradeLimit
    PROVE  /\ calls' \in [Trade -> Call] /\ queue' \in [Trade -> Object] /\ writes' \subseteq Write
           /\ UNCHANGED trades
           /\ \A t \in Trade :
                 \/ queue'[t] = NoObject /\ queue[t] # NoObject
                 \/ queue'[t] = queue[t] /\ calls'[t] = calls[t]
<1>0. NoObject \in Object
  BY DEF NoObject, Object
<1>1. ASSUME NEW batch \in SUBSET {t \in Trade : queue[t] # NoObject},
             NEW price \in [batch -> Nat],
             calls' = [t \in Trade |->
                        IF t \notin batch THEN calls[t]
                        ELSE [price |-> price[t], strike |-> queue[t].strike,
                              strikeOld |-> queue[t].strikeOld]],
             queue' = [t \in Trade |-> IF t \in batch THEN NoObject ELSE queue[t]],
             writes' = writes \cup {[trade |-> t, by |-> "job", strike |-> price[t]] : t \in batch},
             UNCHANGED trades
      PROVE  /\ calls' \in [Trade -> Call] /\ queue' \in [Trade -> Object] /\ writes' \subseteq Write
             /\ UNCHANGED trades
             /\ \A t \in Trade :
                   \/ queue'[t] = NoObject /\ queue[t] # NoObject
                   \/ queue'[t] = queue[t] /\ calls'[t] = calls[t]
  <2>1. \A t \in Trade : queue[t].strike \in Nat /\ queue[t].strikeOld \in Nat
    BY DEF Typed, Object
  <2>2. calls' \in [Trade -> Call]
    BY <1>1, <2>1 DEF Typed, Call
  <2>3. queue' \in [Trade -> Object]
    BY <1>0, <1>1 DEF Typed
  <2>4. writes' \subseteq Write
    BY <1>1 DEF Typed, Write
  <2> QED
    BY <1>1, <2>2, <2>3, <2>4
<1>2. CASE ProcessTradeMarket
  <2> DEFINE batch == Queued(Trade \ Limit)
             price == [t \in batch |-> MarketPriceAvailable(queue[t].strike)]
  <2>1. feed # << >> /\ OpenTradeContract(batch, MarketPriceAvailable) /\ UNCHANGED trades
    BY <1>2 DEF ProcessTradeMarket
  <2>2. batch \in SUBSET {t \in Trade : queue[t] # NoObject}
    BY DEF Queued
  <2>3. price \in [batch -> Nat]
    BY <2>1, PriceOfFeed
  <2>4. \A t \in batch : price[t] = MarketPriceAvailable(queue[t].strike)
    OBVIOUS
  <2> HIDE DEF price, batch
  <2>5. /\ calls' = [t \in Trade |->
                        IF t \notin batch THEN calls[t]
                        ELSE [price |-> price[t], strike |-> queue[t].strike,
                              strikeOld |-> queue[t].strikeOld]]
        /\ queue' = [t \in Trade |-> IF t \in batch THEN NoObject ELSE queue[t]]
        /\ writes' = writes \cup {[trade |-> t, by |-> "job", strike |-> price[t]] : t \in batch}
    BY <2>1, <2>4, Zenon DEF OpenTradeContract
  <2> QED
    BY <1>1, <2>1, <2>2, <2>3, <2>5
<1>3. CASE ProcessTradeLimit
  <2> DEFINE batch == {t \in Queued(Limit) : Fitting(queue[t].strike) # {}}
             price == [t \in batch |-> LimitPriceAvailable(queue[t].strike)]
  <2>1. feed # << >> /\ OpenTradeContract(batch, LimitPriceAvailable) /\ UNCHANGED trades
    BY <1>3 DEF ProcessTradeLimit
  <2>2. batch \in SUBSET {t \in Trade : queue[t] # NoObject}
    BY OrdersAssumption DEF Queued
  <2>3. price \in [batch -> Nat]
    BY <2>1, PriceOfFeed
  <2>4. \A t \in batch : price[t] = LimitPriceAvailable(queue[t].strike)
    OBVIOUS
  <2> HIDE DEF price, batch
  <2>5. /\ calls' = [t \in Trade |->
                        IF t \notin batch THEN calls[t]
                        ELSE [price |-> price[t], strike |-> queue[t].strike,
                              strikeOld |-> queue[t].strikeOld]]
        /\ queue' = [t \in Trade |-> IF t \in batch THEN NoObject ELSE queue[t]]
        /\ writes' = writes \cup {[trade |-> t, by |-> "job", strike |-> price[t]] : t \in batch}
    BY <2>1, <2>4, Zenon DEF OpenTradeContract
  <2> QED
    BY <1>1, <2>1, <2>2, <2>3, <2>5
<1> QED
  BY <1>2, <1>3

LEMMA JobTyped ==
    ASSUME Typed, JobStep PROVE Typed'
<1>0. UNCHANGED <<clock, feed, maxOI, req>>
  BY DEF JobStep, feeds
<1>1. ASSUME trades' \in [Trade -> TradeDoc \cup {NoTrade}],
             queue' \in [Trade -> Object], calls' \in [Trade -> Call], writes' \subseteq Write,
             \A t \in Trade : /\ trades'[t] = NoTrade <=> trades[t] = NoTrade
                              /\ queue'[t] # NoObject => calls'[t] = NoCall
                              /\ queue'[t] # NoObject \/ calls'[t] # NoCall
                                    => queue[t] # NoObject \/ calls[t] # NoCall
      PROVE  Typed'
  <2>1. Known' = Known
    BY <1>0, <1>1 DEF Known
  <2>2. \A t \in Trade : /\ queue'[t] # NoObject => calls'[t] = NoCall
                         /\ queue'[t] # NoObject \/ calls'[t] # NoCall => trades'[t] # NoTrade
                         /\ req'[t] # NoReq => trades'[t] = NoTrade
    BY <1>0, <1>1 DEF Typed
  <2> QED
    BY <1>0, <1>1, <2>1, <2>2 DEF Typed
<1>2. CASE ProcessTradeMarket \/ ProcessTradeLimit
  BY <1>1, <1>2, BatchTyped DEF Typed
<1>n. NoCall \in Call /\ NoObject \in Object
  BY DEF NoCall, Call, NoObject, Object
<1>3. ASSUME NEW t \in Trade, CallFails(t) PROVE Typed'
  <2>1. Requeued(calls[t]) \in Object
    BY DEF Requeued, Typed, Call, Object
  <2>2. /\ queue' = [queue EXCEPT ![t] = Requeued(calls[t])]
        /\ calls' = [calls EXCEPT ![t] = NoCall] /\ calls[t] # NoCall
        /\ UNCHANGED <<trades, writes>>
    BY <1>3 DEF CallFails
  <2> QED
    BY <1>1, <1>n, <2>1, <2>2 DEF Typed
<1>4. ASSUME NEW t \in Trade, TradeOpens(t) PROVE Typed'
  <2>1. /\ trades' = [trades EXCEPT ![t] = [trades[t] EXCEPT !.state = "OPENED"]]
        /\ calls' = [calls EXCEPT ![t] = NoCall] /\ calls[t] # NoCall
        /\ UNCHANGED <<queue, writes>>
    BY <1>4 DEF TradeOpens
  <2>2. trades[t] \in TradeDoc
    BY <2>1 DEF Typed
  <2>3. [trades[t] EXCEPT !.state = "OPENED"] \in TradeDoc
    BY <2>2 DEF TradeDoc
  <2>4. \A r \in TradeDoc : r # NoTrade
    <3>1. \A r \in TradeDoc : r.state # NoTrade.state
      BY DEF TradeDoc, NoTrade
    <3> QED
      BY <3>1
  <2> QED
    BY <1>1, <1>n, <2>1, <2>2, <2>3, <2>4 DEF Typed
<1>5. ASSUME NEW w \in writes, WriteLands(w) PROVE Typed'
  <2>0. w.trade \in Trade /\ w.strike \in Nat
    BY DEF Typed, Write
  <2>1. /\ trades' = [trades EXCEPT ![w.trade] = Written(trades[w.trade], w)]
        /\ writes' \subseteq writes /\ UNCHANGED <<queue, calls>>
    BY <1>5 DEF WriteLands
  <2>2. trades[w.trade] \in TradeDoc => Written(trades[w.trade], w) \in TradeDoc
    BY <2>0 DEF Written, TradeDoc
  <2>3. \A r \in TradeDoc : r # NoTrade
    <3>1. \A r \in TradeDoc : r.state # NoTrade.state
      BY DEF TradeDoc, NoTrade
    <3> QED
      BY <3>1
  <2>4. trades[w.trade] = NoTrade => Written(trades[w.trade], w) = NoTrade
    BY NotWritten
  <2>5. \A t \in Trade : trades'[t] = IF t = w.trade THEN Written(trades[t], w) ELSE trades[t]
    BY <2>1 DEF Typed
  <2>6. trades' \in [Trade -> TradeDoc \cup {NoTrade}]
    BY <2>0, <2>1, <2>2, <2>4 DEF Typed
  <2>7. \A t \in Trade : trades'[t] = NoTrade <=> trades[t] = NoTrade
    BY <2>0, <2>2, <2>3, <2>4, <2>5 DEF Typed
  <2> QED
    BY <1>1, <2>1, <2>6, <2>7 DEF Typed
<1> QED
  BY <1>2, <1>3, <1>4, <1>5 DEF JobStep

LEMMA FeedTyped ==
    ASSUME Typed, FeedStep PROVE Typed'
<1>0. UNCHANGED <<trades, req, queue, calls, writes>>
  BY DEF FeedStep
<1>1. Known' = Known
  BY <1>0 DEF Known
<1>2. clock' \in 0..MaxClock /\ maxOI' \subseteq {MaxOI} /\ feed' \in Seq(Prices) /\ Len(feed') <= Window
  <2>1. CASE Tick
    <3>1. clock' \in 0..MaxClock
      BY <2>1, OrdersAssumption DEF Tick, Typed
    <3> QED
      BY <2>1, <3>1 DEF Tick, Typed
  <2>3. CASE SyncMaxOI
    BY <2>3 DEF SyncMaxOI, Typed
  <2>2. ASSUME NEW p \in Prices, feed' = Cut(<<p>> \o feed), UNCHANGED <<clock, maxOI>>
        PROVE  feed' \in Seq(Prices) /\ Len(feed') <= Window
    <3> DEFINE list == <<p>> \o feed
               n == IF Len(list) < Window THEN Len(list) ELSE Window
    <3>1. list \in Seq(Prices) /\ Len(list) \in Nat
      BY DEF Typed
    <3>2. n \in 0..Len(list) /\ n <= Window
      BY <3>1, OrdersAssumption
    <3> HIDE DEF n, list
    <3>3. SubSeq(list, 1, n) \in Seq(Prices) /\ Len(SubSeq(list, 1, n)) = n
      BY <3>1, <3>2
    <3> QED
      BY <2>2, <3>2, <3>3 DEF Cut, n, list
  <2> QED
    BY <2>1, <2>2, <2>3 DEF FeedStep, UpdatePairPriceToMem, Typed
<1> QED
  BY <1>0, <1>1, <1>2 DEF Typed

LEMMA OtherTyped ==
    ASSUME Typed, Restart \/ (\E t \in Trade, s \in NewStrikes : UpdateTrade(t, s)) \/ UNCHANGED vars
    PROVE  Typed'
<1>n. NoCall \in Call /\ NoObject \in Object
  BY DEF NoCall, Call, NoObject, Object
<1>1. CASE Restart
  <2>1. \A t \in Trade : Loaded(t) \in Object
    <3> TAKE t \in Trade
    <3>1. trades[t].state = "QUEUED" => trades[t] \in TradeDoc
      BY DEF Typed, NoTrade
    <3> QED
      BY <1>n, <3>1 DEF Loaded, TradeDoc, Object
  <2>2. \A t \in Trade : Loaded(t) # NoObject => trades[t] # NoTrade
    BY DEF Loaded, NoTrade
  <2>3. /\ UNCHANGED <<clock, trades>> /\ feed' = << >> /\ maxOI' = {} /\ writes' = {}
        /\ req' = [t \in Trade |-> NoReq] /\ calls' = [t \in Trade |-> NoCall]
        /\ queue' = [t \in Trade |-> Loaded(t)]
    BY <1>1 DEF Restart
  <2>4. Known' \subseteq Known
    BY <2>3 DEF Known
  <2>5. IsFiniteSet(Known')
    BY <2>4, FS_Subset DEF Typed
  <2>6. feed' \in Seq(Prices) /\ Len(feed') <= Window
    BY <2>3, OrdersAssumption
  <2> QED
    BY <1>n, <2>1, <2>2, <2>3, <2>5, <2>6 DEF Typed
<1>2. ASSUME NEW t \in Trade, NEW s \in NewStrikes, UpdateTrade(t, s) PROVE Typed'
  <2>0. s \in Nat
    BY OrdersAssumption
  <2>1. [strike |-> s, strikeOld |-> s] \in Object /\ [trade |-> t, by |-> "user", strike |-> s] \in Write
    BY <2>0 DEF Object, Write
  <2>2. /\ queue' = [queue EXCEPT ![t] = [strike |-> s, strikeOld |-> s]]
        /\ writes' = writes \cup {[trade |-> t, by |-> "user", strike |-> s]}
        /\ queue[t] # NoObject /\ UNCHANGED <<clock, feed, maxOI, trades, calls, req>>
    BY <1>2 DEF UpdateTrade, Queued, feeds
  <2>3. Known' = Known
    BY <2>2 DEF Known
  <2>4. queue' \in [Trade -> Object] /\ writes' \subseteq Write
    BY <2>1, <2>2 DEF Typed
  <2>5. \A u \in Trade : queue'[u] # NoObject => queue[u] # NoObject
    BY <2>2 DEF Typed
  <2> QED
    BY <2>2, <2>3, <2>4, <2>5 DEF Typed
<1>3. CASE UNCHANGED vars
  <2>1. Known' = Known
    BY <1>3 DEF vars, Known
  <2> QED
    BY <1>3, <2>1 DEF Typed, vars, feeds
<1> QED
  BY <1>1, <1>2, <1>3

LEMMA TypedHolds == Spec => []Typed
<1>1. Init => Typed
  <2> SUFFICES ASSUME Init PROVE Typed
    OBVIOUS
  <2>1. NoCall \in Call /\ NoObject \in Object
    BY DEF NoCall, Call, NoObject, Object
  <2>2. Known = {}
    BY DEF Init, Known
  <2>3. feed \in Seq(Prices) /\ Len(feed) <= Window /\ 0 \in 0..MaxClock
    BY OrdersAssumption DEF Init
  <2> QED
    BY <2>1, <2>2, <2>3, FS_EmptySet DEF Init, Typed
<1>2. Typed /\ [Next]_vars => Typed'
  BY CreateTyped, JobTyped, FeedTyped, OtherTyped DEF Next, CreateStep
<1> QED
  BY <1>1, <1>2, PTL DEF Spec

\* The prices kept of a pair are never more than Window; an object is in a queue only while its
\* trade is stored, and never both in a queue and in a call.
THEOREM OrdersTypeCorrect == Spec => []TypeOK
  BY TypedHolds, TypedIsTypeOK, PTL

-----------------------------------------------------------------------------
(* The open interest *)

\* The most that is open when a trade passes the check: MaxOI - 2 unless some may be filled
\* in part.
Room == IF Partial = {} THEN MaxOI - 2 ELSE MaxOI - 1

\* A trade that may be opened without a further look at what is open.
Admitted == {t \in Trade : \/ trades[t] # NoTrade
                           \/ req[t].phase = "create"
                           \/ /\ req[t].phase = "check" /\ "totalTrade" \notin req[t].toRead
                              /\ req[t].totalTrade <= Room}

\* At the last look at what is open, at most Room trades were, and all others admitted were
\* pending, the one that looked included.
InterestInv ==
    /\ peak \in Nat /\ unchecked \subseteq Trade /\ IsFiniteSet(unchecked)
    /\ Cardinality(Admitted \ unchecked) <= Room + peak

LEMMA RoomNumber == Room \in Nat
  BY OrdersAssumption DEF Room

LEMMA AdmittedKnown ==
    ASSUME Typed
    PROVE  Admitted \subseteq Known /\ IsFiniteSet(Admitted)
<1>1. Admitted \subseteq Known
  BY DEF Admitted, Known, NoReq
<1> QED
  BY <1>1, FS_Subset DEF Typed

LEMMA PeakCounts ==
    ASSUME Typed, Typed', CountPeak, peak \in Nat
    PROVE  /\ peak' \in Nat /\ peak' >= peak /\ peak' >= Cardinality(Pending')
           /\ IsFiniteSet(Pending') /\ Cardinality(Pending') \in Nat
<1>1. Pending' \subseteq Known'
  BY DEF Pending, InState, Known, NoTrade
<1>2. IsFiniteSet(Pending')
  BY <1>1, FS_Subset DEF Typed
<1>3. Cardinality(Pending') \in Nat
  BY <1>2, FS_CardinalityType
<1> DEFINE c == Cardinality(Pending')
           S == {peak, c}
<1>4. peak + c \in Nat /\ S \subseteq 0..(peak + c) /\ S # {}
  BY <1>3
<1>5. Max(S) \in S /\ \A x \in S : Max(S) >= x
  BY <1>4, HasLatest
<1> QED
  BY <1>2, <1>3, <1>5 DEF CountPeak

LEMMA AdmittedKept ==
    ASSUME Typed, Typed', InterestInv, peak' \in Nat, peak' >= peak,
           unchecked' \subseteq Trade, IsFiniteSet(unchecked'),
           Admitted' \ unchecked' \subseteq Admitted \ unchecked
    PROVE  InterestInv'
<1>1. IsFiniteSet(Admitted \ unchecked)
  BY AdmittedKnown, FS_Subset
<1>2. IsFiniteSet(Admitted' \ unchecked') /\ Cardinality(Admitted' \ unchecked') <= Cardinality(Admitted \ unchecked)
  BY <1>1, FS_Subset
<1>3. Cardinality(Admitted \ unchecked) \in Nat /\ Cardinality(Admitted' \ unchecked') \in Nat
  BY <1>1, <1>2, FS_CardinalityType
<1>4. Cardinality(Admitted' \ unchecked') <= Room + peak'
  BY <1>2, <1>3, RoomNumber DEF InterestInv
<1>5. Room' = Room
  BY DEF Room
<1> QED
  BY <1>4, <1>5 DEF InterestInv

LEMMA AdmittedOne ==
    ASSUME Typed, InterestInv, NEW t \in Trade, UNCHANGED trades,
           \A u \in Trade \ {t} : req'[u] = req[u], t \in Admitted' => t \in Admitted
    PROVE  Admitted' \subseteq Admitted
<1>1. Room' = Room
  BY DEF Room
<1> QED
  BY <1>1 DEF Admitted

LEMMA CreateInterest ==
    ASSUME Typed, Typed', InterestInv, CountPeak, UNCHANGED feeds, NEW t \in Trade,
           \/ CreateTrade(t) \/ ReadLastTrade(t) \/ GetTotalTradeOfPool(t) \/ CheckTrade(t)
           \/ StoreTrade(t)
    PROVE  InterestInv'
<1>0. /\ peak' \in Nat /\ peak' >= peak /\ peak' >= Cardinality(Pending')
      /\ IsFiniteSet(Pending') /\ Cardinality(Pending') \in Nat
  BY PeakCounts DEF InterestInv
<1>t. /\ DOMAIN req = Trade /\ DOMAIN trades = Trade /\ DOMAIN queue = Trade
      /\ Room' = Room /\ unchecked \subseteq Trade /\ IsFiniteSet(unchecked)
      /\ NoReq.phase = "none"
  BY DEF Typed, Room, InterestInv, NoReq
<1>r. req[t].phase \in {"check", "create"} => req[t] \in Request /\ trades[t] = NoTrade
  BY TypedTrades DEF Typed
<1>k. ASSUME UNCHANGED <<trades, unchecked>>, \A u \in Trade \ {t} : req'[u] = req[u],
             t \in Admitted' => t \in Admitted
      PROVE  InterestInv'
  BY <1>0, <1>t, <1>k, AdmittedOne, AdmittedKept
<1>1. CASE CreateTrade(t)
  <2>1. PICK s \in Strikes : req' = [req EXCEPT ![t] =
           [phase |-> "check", now |-> clock, strike |-> s, toRead |-> Reads,
            lastTrade |-> {}, totalTrade |-> 0]]
    BY <1>1 DEF CreateTrade
  <2>2. req'[t].phase = "check" /\ "totalTrade" \in req'[t].toRead /\ trades'[t] = NoTrade
    BY <1>1, <1>t, <2>1 DEF CreateTrade, Reads
  <2>3. t \notin Admitted'
    BY <2>2 DEF Admitted
  <2> QED
    BY <1>1, <1>k, <1>t, <2>1, <2>3 DEF CreateTrade
<1>2. CASE ReadLastTrade(t)
  <2>1. req' = [req EXCEPT ![t] = [req[t] EXCEPT !.toRead = @ \ {"lastTrade"}, !.lastTrade = Latest]]
    BY <1>2 DEF ReadLastTrade
  <2>2. /\ req'[t].phase = req[t].phase /\ req'[t].totalTrade = req[t].totalTrade
        /\ req'[t].toRead = req[t].toRead \ {"lastTrade"}
    BY <1>2, <1>r, <1>t, <2>1 DEF ReadLastTrade, Request
  <2>3. t \in Admitted' => t \in Admitted
    BY <1>2, <1>t, <2>2 DEF Admitted, ReadLastTrade
  <2>4. UNCHANGED <<trades, unchecked>> /\ \A u \in Trade \ {t} : req'[u] = req[u]
    BY <1>2, <1>t, <2>1 DEF ReadLastTrade
  <2> QED
    BY <1>k, <2>3, <2>4
<1>3. CASE GetTotalTradeOfPool(t)
  <2> DEFINE opened == InState("OPENED")
             total == Cardinality(opened)
  <2>1. req' = [req EXCEPT ![t] = [req[t] EXCEPT !.toRead = @ \ {"totalTrade"}, !.totalTrade = total]]
    BY <1>3 DEF GetTotalTradeOfPool
  <2>2. req'[t].phase = req[t].phase /\ req'[t].totalTrade = total
    BY <1>3, <1>r, <1>t, <2>1 DEF GetTotalTradeOfPool, Request
  <2>3. UNCHANGED <<trades, unchecked>> /\ trades[t] = NoTrade /\ req[t].phase = "check"
    BY <1>3, <1>r DEF GetTotalTradeOfPool
  <2>4. total \in Nat /\ IsFiniteSet(opened)
    <3>1. opened \subseteq Known
      BY DEF InState, Known, NoTrade
    <3>2. IsFiniteSet(opened)
      BY <3>1, FS_Subset DEF Typed
    <3> QED
      BY <3>2, FS_CardinalityType
  <2>5. CASE total > Room
    <3>1. t \notin Admitted'
      BY <1>t, <2>2, <2>3, <2>4, <2>5, RoomNumber DEF Admitted
    <3> QED
      BY <1>k, <2>1, <2>3, <3>1
  <2>6. CASE total <= Room
    <3>1. Admitted' \ unchecked' \subseteq opened \cup Pending'
      <4> SUFFICES ASSUME NEW u \in Admitted' PROVE u \in opened \cup Pending'
        OBVIOUS
      <4>1. CASE trades'[u] # NoTrade
        BY <2>3, <4>1, TypedTrades DEF Admitted, InState, Pending
      <4>2. CASE req'[u].phase \in {"check", "create"}
        BY <1>t, <4>2 DEF Admitted, Pending, NoReq
      <4> QED
        BY <4>1, <4>2 DEF Admitted
    <3> HIDE DEF opened
    <3>2. /\ IsFiniteSet(opened \cup Pending')
          /\ Cardinality(opened \cup Pending') <= total + Cardinality(Pending')
      <4>1. Cardinality(opened \cap Pending') \in Nat
        BY <2>4, FS_Subset, FS_CardinalityType
      <4>2. IsFiniteSet(opened \cup Pending') /\ Cardinality(opened \cup Pending') =
               Cardinality(opened) + Cardinality(Pending') - Cardinality(opened \cap Pending')
        BY <1>0, <2>4, FS_Union
      <4> QED
        BY <1>0, <2>4, <4>1, <4>2
    <3>3. /\ Cardinality(Admitted' \ unchecked') <= Cardinality(opened \cup Pending')
          /\ Cardinality(Admitted' \ unchecked') \in Nat /\ Cardinality(opened \cup Pending') \in Nat
      BY <3>1, <3>2, FS_Subset, FS_CardinalityType
    <3>4. Cardinality(Admitted' \ unchecked') <= Room' + peak'
      BY <1>0, <1>t, <2>4, <2>6, <3>2, <3>3, RoomNumber
    <3> QED
      BY <1>0, <1>t, <2>3, <3>4 DEF InterestInv
  <2> QED
    BY <2>4, <2>5, <2>6, RoomNumber
<1>4. CASE CheckTrade(t)
  <2>0. req[t] \in Request /\ req[t].phase = "check" /\ req[t].toRead = {} /\ UNCHANGED trades
    BY <1>4, <1>r DEF CheckTrade
  <2>1. CASE Refused(t)
    <3>1. req' = [req EXCEPT ![t] = NoReq] /\ unchecked' = unchecked
      BY <1>4, <2>1 DEF CheckTrade
    <3>2. req'[t] = NoReq /\ trades'[t] = NoTrade
      BY <1>r, <1>t, <2>0, <3>1
    <3>3. t \notin Admitted'
      BY <1>t, <3>2 DEF Admitted
    <3> QED
      BY <1>k, <2>0, <3>1, <3>3
  <2>2. CASE ~Refused(t) /\ maxOI # {}
    <3>1. req' = [req EXCEPT ![t] = [req[t] EXCEPT !.phase = "create"]] /\ unchecked' = unchecked
      BY <1>4, <2>2 DEF CheckTrade
    <3>2. req[t].totalTrade \in Nat /\ maxOI = {MaxOI}
      BY <2>0, <2>2 DEF Request, Typed
    <3>3. ~InvalidLiquidity(t, req[t].totalTrade)
      BY <2>2 DEF Refused
    <3>4. req[t].totalTrade <= Room
      BY <3>2, <3>3, OrdersAssumption DEF InvalidLiquidity, Room
    <3>5. t \in Admitted
      BY <2>0, <3>4 DEF Admitted
    <3> QED
      BY <1>k, <2>0, <3>1, <3>5
  <2>3. CASE ~Refused(t) /\ maxOI = {}
    <3>1. req' = [req EXCEPT ![t] = [req[t] EXCEPT !.phase = "create"]] /\ unchecked' = unchecked \cup {t}
      BY <1>4, <2>3 DEF CheckTrade
    <3>2. Admitted' \ unchecked' \subseteq Admitted \ unchecked
      BY <1>t, <2>0, <3>1 DEF Admitted
    <3>3. unchecked' \subseteq Trade /\ IsFiniteSet(unchecked')
      BY <1>t, <3>1, FS_AddElement
    <3> QED
      BY <1>0, <3>2, <3>3, AdmittedKept
  <2> QED
    BY <2>1, <2>2, <2>3
<1>5. CASE StoreTrade(t)
  <2>1. /\ req[t].phase = "create" /\ UNCHANGED unchecked
        /\ \A u \in Trade \ {t} : req'[u] = req[u] /\ trades'[u] = trades[u]
    BY <1>5, <1>t DEF StoreTrade
  <2>2. Admitted' \subseteq Admitted
    BY <1>t, <2>1 DEF Admitted
  <2> QED
    BY <1>0, <1>t, <2>1, <2>2, AdmittedKept
<1> QED
  BY <1>1, <1>2, <1>3, <1>4, <1>5

LEMMA InterestStep == Typed /\ Typed' /\ Shape /\ InterestInv /\ [Next]_vars => InterestInv'
<1> SUFFICES ASSUME Typed, Typed', Shape, InterestInv, [Next]_vars PROVE InterestInv'
  OBVIOUS
<1>u. unchecked \subseteq Trade /\ IsFiniteSet(unchecked) /\ peak \in Nat /\ NoReq.phase = "none"
  BY DEF InterestInv, NoReq
<1>t. Room' = Room
  BY DEF Room
<1>1. CASE CreateStep
  BY <1>1, CreateInterest DEF CreateStep
<1>2. CASE JobStep
  <2>1. UNCHANGED <<req, unchecked>> /\ CountPeak
    BY <1>2 DEF JobStep
  <2>2. \A t \in Trade : trades'[t] # NoTrade => trades[t] # NoTrade
    BY <1>2, JobShape, DatedFields DEF KeepsTrades
  <2>3. Admitted' \subseteq Admitted
    BY <1>t, <2>1, <2>2 DEF Admitted
  <2> QED
    BY <1>u, <2>1, <2>3, PeakCounts, AdmittedKept
<1>3. CASE FeedStep \/ Restart \/ (\E t \in Trade, s \in NewStrikes : UpdateTrade(t, s)) \/ UNCHANGED vars
  <2>1. UNCHANGED <<trades, peak, unchecked>> /\ \A t \in Trade : req'[t] = req[t] \/ req'[t] = NoReq
    BY <1>3 DEF FeedStep, Restart, UpdateTrade, vars, history
  <2>2. Admitted' \subseteq Admitted
    BY <1>t, <1>u, <2>1 DEF Admitted
  <2> QED
    BY <1>u, <2>1, <2>2, AdmittedKept
<1> QED
  BY <1>1, <1>2, <1>3 DEF Next

\* The open interest exceeds the contract's limit by no more than was pending at one time and
\* was accepted before the limit was known, for any number of requests, restarts and retries.
THEOREM InterestBoundedHolds == Spec => []InterestBounded
<1>1. Init => InterestInv
  <2> SUFFICES ASSUME Init PROVE InterestInv
    OBVIOUS
  <2>1. NoReq.phase = "none"
    BY DEF NoReq
  <2>2. Admitted = {}
    BY <2>1 DEF Init, Admitted
  <2> QED
    BY <2>2, FS_EmptySet, RoomNumber DEF Init, InterestInv
<1>2. Typed /\ InterestInv => InterestBounded
  <2> SUFFICES ASSUME Typed, InterestInv PROVE InterestBounded
    OBVIOUS
  <2> DEFINE opened == InState("OPENED")
             rest == Admitted \ unchecked
  <2>1. opened \subseteq rest \cup unchecked
    BY DEF InState, Admitted, NoTrade
  <2>2. IsFiniteSet(rest) /\ IsFiniteSet(unchecked)
    BY AdmittedKnown, FS_Subset DEF InterestInv
  <2> HIDE DEF opened, rest
  <2>3. /\ IsFiniteSet(rest \cup unchecked) /\ Cardinality(rest \cap unchecked) \in Nat
        /\ Cardinality(rest \cup unchecked) =
             Cardinality(rest) + Cardinality(unchecked) - Cardinality(rest \cap unchecked)
    BY <2>2, FS_Union, FS_Subset, FS_CardinalityType
  <2>4. /\ Cardinality(opened) <= Cardinality(rest \cup unchecked)
        /\ Cardinality(opened) \in Nat /\ Cardinality(rest) \in Nat
        /\ Cardinality(unchecked) \in Nat /\ Cardinality(rest \cup unchecked) \in Nat
    BY <2>1, <2>2, <2>3, FS_Subset, FS_CardinalityType
  <2>5. Cardinality(rest) <= Room + peak /\ peak \in Nat
    BY DEF InterestInv, rest
  <2>6. Cardinality(opened) <= Room + peak + Cardinality(unchecked)
    BY <2>3, <2>4, <2>5, RoomNumber
  <2> QED
    BY <2>6 DEF InterestBounded, Room, opened
<1> QED
  BY <1>1, <1>2, InterestStep, TypedHolds, DatesHold, PTL DEF Spec

-----------------------------------------------------------------------------
(* The price of a limit order *)

\* The first half of SubmittedNearStrike: an order whose object was never rebuilt from the
\* collection is submitted within its slippage of the strike its user signs, which is one
\* that was asked for.
NearSigned ==
    \A t \in Limit :
       calls[t] # NoCall /\ loads[t] = 0 =>
          calls[t].strikeOld \in asked[t] /\ CheckSlippage(calls[t].strikeOld, calls[t].price)

\* An object that was never rebuilt has the strike that was asked for last as both of its
\* strikes.
Fresh(o, t) == o.strike = o.strikeOld /\ o.strikeOld \in asked[t]
NearInv ==
    /\ asked \in [Trade -> SUBSET Nat] /\ loads \in [Trade -> Nat]
    /\ \A t \in Trade : loads[t] = 0 =>
          /\ queue[t] # NoObject => Fresh(queue[t], t)
          /\ calls[t] # NoCall => Fresh(calls[t], t)
          /\ calls[t] # NoCall /\ t \in Limit => CheckSlippage(calls[t].strike, calls[t].price)

LEMMA LimitPriceFits ==
    ASSUME Typed, NEW strike, Fitting(strike) # {}
    PROVE  CheckSlippage(strike, LimitPriceAvailable(strike))
<1>1. Fitting(strike) \subseteq Nat
  BY DEF Fitting, Typed
<1>2. Min(Fitting(strike)) \in Fitting(strike)
  BY <1>1, HasLeast
<1> QED
  BY <1>2 DEF Fitting, LimitPriceAvailable

\* What a batch makes of the objects it takes.
LEMMA BatchNear ==
    ASSUME Typed, ProcessTradeMarket \/ ProcessTradeLimit, NEW t \in Trade
    PROVE  \/ queue'[t] = queue[t] /\ calls'[t] = calls[t]
           \/ /\ queue[t] # NoObject /\ queue'[t] = NoObject
              /\ calls'[t].strike = queue[t].strike /\ calls'[t].strikeOld = queue[t].strikeOld
              /\ t \in Limit => CheckSlippage(queue[t].strike, calls'[t].price)
<1>1. CASE ProcessTradeMarket
  <2>1. OpenTradeContract(Queued(Trade \ Limit), MarketPriceAvailable)
    BY <1>1 DEF ProcessTradeMarket
  <2>2. \A u \in Queued(Trade \ Limit) : queue[u] # NoObject /\ u \notin Limit
    BY DEF Queued
  <2> QED
    BY <2>1, <2>2 DEF OpenTradeContract
<1>2. CASE ProcessTradeLimit
  <2> DEFINE batch == {u \in Queued(Limit) : Fitting(queue[u].strike) # {}}
  <2>1. OpenTradeContract(batch, LimitPriceAvailable)
    BY <1>2 DEF ProcessTradeLimit
  <2>2. \A u \in batch : queue[u] # NoObject /\ CheckSlippage(queue[u].strike, LimitPriceAvailable(queue[u].strike))
    BY LimitPriceFits DEF Queued
  <2> HIDE DEF batch
  <2> QED
    BY <2>1, <2>2 DEF OpenTradeContract
<1> QED
  BY <1>1, <1>2

LEMMA NearStep == Typed /\ Typed' /\ NearInv /\ [Next]_vars => NearInv'
<1> SUFFICES ASSUME Typed, Typed', NearInv, [Next]_vars PROVE NearInv'
  OBVIOUS
<1>t. /\ asked \in [Trade -> SUBSET Nat] /\ loads \in [Trade -> Nat]
      /\ queue \in [Trade -> Object] /\ calls \in [Trade -> Call]
  BY DEF NearInv, Typed
<1>n. \A t \in Trade : loads[t] = 0 =>
          /\ queue[t] # NoObject => Fresh(queue[t], t)
          /\ calls[t] # NoCall => Fresh(calls[t], t)
          /\ calls[t] # NoCall /\ t \in Limit => CheckSlippage(calls[t].strike, calls[t].price)
  BY DEF NearInv
<1>1. CASE CreateStep
  <2>1. PICK t \in Trade : \/ CreateTrade(t) \/ ReadLastTrade(t) \/ GetTotalTradeOfPool(t)
                           \/ CheckTrade(t) \/ StoreTrade(t)
    BY <1>1 DEF CreateStep
  <2>2. /\ UNCHANGED <<calls, loads>>
        /\ asked' = [u \in Trade |-> IF trades[u] # trades'[u] THEN {trades'[u].strike} ELSE asked[u]]
    BY <1>1 DEF CreateStep
  <2>3. CASE ~StoreTrade(t)
    <3>1. UNCHANGED <<trades, queue>>
      BY <2>1, <2>3 DEF CreateTrade, ReadLastTrade, GetTotalTradeOfPool, CheckTrade
    <3>2. asked' = asked
      BY <1>t, <2>2, <3>1
    <3> QED
      BY <2>2, <3>1, <3>2 DEF NearInv, Fresh
  <2>4. CASE StoreTrade(t)
    <3>1. req[t] \in Request /\ trades[t] = NoTrade /\ calls[t] = NoCall
      BY <2>4, TypedTrades DEF StoreTrade, Typed
    <3>2. req[t].strike \in Nat
      BY <3>1, OrdersAssumption DEF Request
    <3>3. /\ trades'[t].strike = req[t].strike /\ trades'[t] # trades[t]
          /\ queue'[t].strike = req[t].strike /\ queue'[t].strikeOld = req[t].strike
          /\ \A u \in Trade \ {t} : trades'[u] = trades[u] /\ queue'[u] = queue[u]
      <4>1. trades'[t].state = "QUEUED" /\ trades[t].state = "none"
        BY <2>4, <3>1 DEF StoreTrade, Typed, NoTrade
      <4> QED
        BY <2>4, <4>1 DEF StoreTrade, Typed
    <3>4. asked'[t] = {req[t].strike} /\ \A u \in Trade \ {t} : asked'[u] = asked[u]
      BY <2>2, <3>3
    <3>5. asked' \in [Trade -> SUBSET Nat]
      BY <1>t, <2>2, <3>2, <3>4
    <3> QED
      BY <1>n, <1>t, <2>2, <3>1, <3>3, <3>4, <3>5 DEF NearInv, Fresh
  <2> QED
    BY <2>3, <2>4
<1>2. CASE JobStep
  <2>1. UNCHANGED <<asked, loads>>
    BY <1>2 DEF JobStep
  <2>2. ASSUME NEW t \in Trade, loads[t] = 0
        PROVE  /\ queue'[t] # NoObject => Fresh(queue'[t], t)
               /\ calls'[t] # NoCall => Fresh(calls'[t], t)
               /\ calls'[t] # NoCall /\ t \in Limit => CheckSlippage(calls'[t].strike, calls'[t].price)
    <3>1. CASE ProcessTradeMarket \/ ProcessTradeLimit
      BY <1>n, <2>2, <3>1, BatchNear DEF Fresh
    <3>2. ASSUME NEW u \in Trade, CallFails(u)
          PROVE  /\ queue'[t] # NoObject => Fresh(queue'[t], t)
                 /\ calls'[t] # NoCall => Fresh(calls'[t], t)
                 /\ calls'[t] # NoCall /\ t \in Limit => CheckSlippage(calls'[t].strike, calls'[t].price)
      <4>1. /\ calls[u] # NoCall
            /\ \A v \in Trade : /\ queue'[v] = IF v = u THEN Requeued(calls[u]) ELSE queue[v]
                                /\ calls'[v] = IF v = u THEN NoCall ELSE calls[v]
        BY <1>t, <3>2 DEF CallFails
      <4>2. Requeued(calls[u]).strike = calls[u].strike /\ Requeued(calls[u]).strikeOld = calls[u].strikeOld
        BY DEF Requeued
      <4> QED
        BY <1>n, <2>2, <4>1, <4>2 DEF Fresh
    <3>3. CASE (\E u \in Trade : TradeOpens(u)) \/ (\E w \in writes : WriteLands(w))
      <4>1. queue'[t] = queue[t] /\ (calls'[t] = calls[t] \/ calls'[t] = NoCall)
        BY <1>t, <3>3 DEF TradeOpens, WriteLands
      <4> QED
        BY <1>n, <2>2, <4>1
    <3> QED
      BY <1>2, <3>1, <3>2, <3>3 DEF JobStep
  <2> QED
    BY <1>t, <2>1, <2>2 DEF NearInv, Fresh
<1>3. CASE Restart
  <2>1. /\ queue' = [t \in Trade |-> Loaded(t)] /\ calls' = [t \in Trade |-> NoCall] /\ asked' = asked
        /\ loads' = [t \in Trade |-> IF Loaded(t) = NoObject THEN loads[t] ELSE loads[t] + 1]
    BY <1>3 DEF Restart
  <2>2. loads' \in [Trade -> Nat] /\ \A t \in Trade : loads'[t] = 0 => queue'[t] = NoObject /\ calls'[t] = NoCall
    BY <1>t, <2>1
  <2> QED
    BY <1>t, <2>1, <2>2 DEF NearInv
<1>4. ASSUME NEW t \in Trade, NEW s \in NewStrikes, UpdateTrade(t, s) PROVE NearInv'
  <2>1. UNCHANGED <<calls, loads>> /\ queue[t] # NoObject /\ s \in Nat
    BY <1>4, OrdersAssumption DEF UpdateTrade, Queued
  <2>2. \A u \in Trade : /\ queue'[u] = IF u = t THEN [strike |-> s, strikeOld |-> s] ELSE queue[u]
                         /\ asked'[u] = IF u = t THEN asked[u] \cup {s} ELSE asked[u]
    BY <1>4, <1>t DEF UpdateTrade
  <2>3. asked' \in [Trade -> SUBSET Nat]
    BY <1>4, <1>t, <2>1 DEF UpdateTrade
  <2> QED
    BY <1>n, <1>t, <2>1, <2>2, <2>3 DEF NearInv, Fresh
<1>5. CASE FeedStep \/ UNCHANGED vars
  <2>1. UNCHANGED <<queue, calls, asked, loads>>
    BY <1>5 DEF FeedStep, vars, history
  <2> QED
    BY <2>1 DEF NearInv, Fresh
<1> QED
  BY <1>1, <1>2, <1>3, <1>4, <1>5 DEF Next

LEMMA NearHolds == Spec => [](NearInv /\ NearSigned)
<1>1. Init => NearInv
  BY DEF Init, NearInv
<1>2. NearInv => NearSigned
  BY OrdersAssumption DEF NearInv, NearSigned, Fresh
<1> QED
  BY <1>1, <1>2, NearStep, TypedHolds, PTL DEF Spec

\* What may be in a feed, in an object or in the record of a trade.
Amounts == Strikes \cup NewStrikes \cup Prices

LEMMA CheckSlippageSelf == \A x \in Nat : CheckSlippage(x, x)
<1> TAKE x \in Nat
<1>1. Scale - Slippage <= Scale /\ Scale <= Scale + Slippage /\ Scale - Slippage \in Nat /\ Scale + Slippage \in Nat
  BY OrdersAssumption
<1>2. Scale \in Nat
  BY OrdersAssumption
<1>3. \A a, b, c \in Nat : b <= c => a * b <= a * c
  OBVIOUS
<1> QED
  BY <1>1, <1>2, <1>3 DEF CheckSlippage

\* A strike is near itself; a price within the slippage of one that is near is near, too.
LEMMA NearItself == \A s \in Amounts, n \in Nat : WithinSlippages(s, n, s)
<1> TAKE s \in Amounts, n \in Nat
<1> DEFINE path == [i \in 0..n |-> s]
<1>1. path \in [0..n -> Strikes \cup NewStrikes \cup Prices] /\ path[0] = s /\ path[n] = s
  BY DEF Amounts
<1>2. \A i \in 1..n : path[i - 1] = s /\ path[i] = s
  OBVIOUS
<1>3. CheckSlippage(s, s)
  BY CheckSlippageSelf, OrdersAssumption DEF Amounts
<1> HIDE DEF path
<1> QED
  BY <1>1, <1>2, <1>3 DEF WithinSlippages

LEMMA NearNext ==
    \A s, x, y, n : /\ n \in Nat /\ y \in Amounts
                    /\ WithinSlippages(s, n, x) /\ CheckSlippage(x, y)
                    => WithinSlippages(s, n + 1, y)
<1> SUFFICES ASSUME NEW s, NEW x, NEW y, NEW n \in Nat, y \in Amounts,
                    WithinSlippages(s, n, x), CheckSlippage(x, y)
             PROVE  WithinSlippages(s, n + 1, y)
  OBVIOUS
<1>1. PICK path \in [0..n -> Amounts] :
        path[0] = s /\ path[n] = x /\ \A i \in 1..n : CheckSlippage(path[i - 1], path[i])
  BY DEF WithinSlippages, Amounts
<1> DEFINE longer == [i \in 0..(n + 1) |-> IF i = n + 1 THEN y ELSE path[i]]
<1>2. longer \in [0..(n + 1) -> Amounts]
  BY <1>1
<1>3. longer[0] = s /\ longer[n + 1] = y
  BY <1>1
<1>4. ASSUME NEW i \in 1..(n + 1) PROVE CheckSlippage(longer[i - 1], longer[i])
  <2>1. CASE i = n + 1
    <3>1. longer[i - 1] = x /\ longer[i] = y
      BY <2>1, <1>1
    <3> HIDE DEF longer
    <3> QED
      BY <3>1
  <2>2. CASE i # n + 1
    <3>1. i \in 1..n
      BY <2>2
    <3>2. longer[i - 1] = path[i - 1] /\ longer[i] = path[i]
      BY <3>1
    <3> HIDE DEF longer
    <3> QED
      BY <3>1, <3>2, <1>1
  <2> QED
    BY <2>1, <2>2
<1> HIDE DEF longer
<1> QED
  BY <1>2, <1>3, <1>4 DEF WithinSlippages, Amounts

LEMMA NearLater == \A s, x, n : n \in Nat /\ WithinSlippages(s, n, x) => WithinSlippages(s, n + 1, x)
<1> SUFFICES ASSUME NEW s, NEW x, NEW n \in Nat, WithinSlippages(s, n, x)
             PROVE  WithinSlippages(s, n + 1, x)
  OBVIOUS
<1>1. x \in Amounts
  BY DEF WithinSlippages, Amounts
<1>2. CheckSlippage(x, x)
  BY <1>1, CheckSlippageSelf, OrdersAssumption DEF Amounts
<1> QED
  BY <1>1, <1>2, NearNext

\* Of a limit order that was rebuilt n times: its object is within n slippages of a strike that
\* was asked for, and the price it is submitted at, the record and what is being written to it
\* within one more.
Near(t, n, x) == \E s \in asked[t] : WithinSlippages(s, n, x)
HopsOf(t) ==
    /\ queue[t] # NoObject => Near(t, loads[t], queue[t].strike)
    /\ calls[t] # NoCall =>
          /\ Near(t, loads[t], calls[t].strike)
          /\ Near(t, loads[t] + 1, calls[t].price)
    /\ trades[t] # NoTrade => Near(t, loads[t] + 1, trades[t].strike)
    /\ \A w \in writes : w.trade = t => Near(t, loads[t] + 1, w.strike)
HopInv ==
    /\ \A w \in writes : trades[w.trade] # NoTrade
    /\ \A t \in Limit : HopsOf(t)

LEMMA StoredIsDoc == Typed => \A t \in Trade : trades[t] # NoTrade <=> trades[t] \in TradeDoc
<1>1. \A r \in TradeDoc : r.state # NoTrade.state
  BY DEF TradeDoc, NoTrade
<1> QED
  BY <1>1 DEF Typed

\* A request of a new trade.
LEMMA CreateHops ==
    ASSUME Typed, NearInv, HopInv, CreateStep
    PROVE  HopInv'
<1>1. PICK t \in Trade : \/ CreateTrade(t) \/ ReadLastTrade(t) \/ GetTotalTradeOfPool(t)
                         \/ CheckTrade(t) \/ StoreTrade(t)
  BY DEF CreateStep
<1>2. /\ UNCHANGED <<calls, loads, writes>>
      /\ asked' = [u \in Trade |-> IF trades[u] # trades'[u] THEN {trades'[u].strike} ELSE asked[u]]
  BY DEF CreateStep
<1>3. CASE ~StoreTrade(t)
  <2>1. UNCHANGED <<trades, queue>>
    BY <1>1, <1>3 DEF CreateTrade, ReadLastTrade, GetTotalTradeOfPool, CheckTrade
  <2>2. asked' = asked
    BY <1>2, <2>1 DEF NearInv
  <2> QED
    BY <1>2, <2>1, <2>2 DEF HopInv, HopsOf, Near
<1>4. CASE StoreTrade(t)
  <2>1. req[t] \in Request /\ trades[t] = NoTrade /\ calls[t] = NoCall
    BY <1>4, TypedTrades DEF StoreTrade, Typed
  <2>2. req[t].strike \in Amounts
    BY <2>1 DEF Request, Amounts
  <2>3. /\ trades'[t].strike = req[t].strike /\ trades'[t].state = "QUEUED"
        /\ queue'[t].strike = req[t].strike
        /\ \A u \in Trade \ {t} : trades'[u] = trades[u] /\ queue'[u] = queue[u]
    BY <1>4 DEF StoreTrade, Typed
  <2>4. trades'[t] # NoTrade /\ trades'[t] # trades[t]
    BY <2>1, <2>3 DEF NoTrade
  <2>5. asked'[t] = {req[t].strike} /\ \A u \in Trade \ {t} : asked'[u] = asked[u]
    BY <1>2, <2>3, <2>4
  <2>6. \A w \in writes' : trades'[w.trade] # NoTrade /\ w.trade # t
    BY <1>2, <2>1, <2>3, <2>4 DEF HopInv, Typed, Write
  <2>7. ASSUME NEW u \in Limit PROVE HopsOf(u)'
    <3>1. CASE u = t
      <4>1. \A x : x = req[t].strike => \A n \in Nat : Near(t, n, x)'
        BY <2>2, <2>5, NearItself DEF Near
      <4>2. loads'[t] \in Nat /\ calls'[t] = NoCall
        BY <1>2, <2>1 DEF NearInv
      <4> QED
        BY <2>3, <2>6, <3>1, <4>1, <4>2 DEF HopsOf
    <3>2. CASE u # t
      <4>1. u \in Trade \ {t} /\ HopsOf(u)
        BY <3>2, OrdersAssumption DEF HopInv
      <4> QED
        BY <1>2, <2>3, <2>5, <4>1 DEF HopsOf, Near
    <3> QED
      BY <3>1, <3>2
  <2> QED
    BY <2>6, <2>7 DEF HopInv
<1> QED
  BY <1>3, <1>4

LEMMA LimitPriceOfFeed ==
    ASSUME Typed, feed # << >>, NEW strike, Fitting(strike) # {}
    PROVE  LimitPriceAvailable(strike) \in Prices
<1>1. DOMAIN feed \subseteq Nat /\ \A i \in DOMAIN feed : feed[i] \in Prices
  BY DEF Typed
<1>2. Min(Fitting(strike)) \in Fitting(strike)
  BY <1>1, HasLeast DEF Fitting
<1> QED
  BY <1>1, <1>2 DEF Fitting, LimitPriceAvailable

\* What a batch submits and writes of limit orders.
LEMMA BatchHops ==
    ASSUME Typed, ProcessTradeMarket \/ ProcessTradeLimit
    PROVE  /\ \A w \in writes' \ writes :
                 /\ w.trade \in Trade /\ queue[w.trade] # NoObject /\ queue'[w.trade] = NoObject
                 /\ w.trade \in Limit => w.strike = calls'[w.trade].price /\ w.strike \in Prices
           /\ \A t \in Limit : calls'[t] # calls[t] => calls'[t].price \in Prices
<1>n. \A t \in Trade : queue[t] # NoObject => calls[t] = NoCall
  BY DEF Typed
<1>1. CASE ProcessTradeMarket
  <2> DEFINE batch == Queued(Trade \ Limit)
             Price(u) == MarketPriceAvailable(queue[u].strike)
  <2>1. OpenTradeContract(batch, MarketPriceAvailable)
    BY <1>1 DEF ProcessTradeMarket
  <2>2. \A u \in batch : u \in Trade /\ queue[u] # NoObject /\ u \notin Limit
    BY DEF Queued
  <2> HIDE DEF batch
  <2>3. writes' = writes \cup {[trade |-> u, by |-> "job", strike |-> Price(u)] : u \in batch}
    BY <2>1 DEF OpenTradeContract
  <2>4. /\ \A u \in batch : queue'[u] = NoObject
        /\ \A u \in Trade \ batch : calls'[u] = calls[u]
    BY <2>1, <2>2 DEF OpenTradeContract
  <2> HIDE DEF Price
  <2>5. \A w \in writes' \ writes : w.trade \in batch
    BY <2>3
  <2> QED
    BY <2>2, <2>4, <2>5, OrdersAssumption
<1>2. CASE ProcessTradeLimit
  <2> DEFINE batch == {u \in Queued(Limit) : Fitting(queue[u].strike) # {}}
             Price(u) == LimitPriceAvailable(queue[u].strike)
  <2>1. OpenTradeContract(batch, LimitPriceAvailable) /\ feed # << >>
    BY <1>2 DEF ProcessTradeLimit
  <2>2. \A u \in batch : u \in Trade /\ queue[u] # NoObject /\ Price(u) \in Prices
    <3> TAKE u \in batch
    <3>1. u \in Limit /\ queue[u] # NoObject /\ Fitting(queue[u].strike) # {}
      BY DEF Queued
    <3>2. Price(u) \in Prices
      BY <2>1, <3>1, LimitPriceOfFeed
    <3> QED
      BY <3>1, <3>2, OrdersAssumption
  <2> HIDE DEF batch
  <2>3. writes' = writes \cup {[trade |-> u, by |-> "job", strike |-> Price(u)] : u \in batch}
    BY <2>1 DEF OpenTradeContract
  <2>4. /\ \A u \in batch : calls'[u].price = Price(u) /\ queue'[u] = NoObject
        /\ \A u \in Trade \ batch : calls'[u] = calls[u]
    BY <2>1, <2>2 DEF OpenTradeContract
  <2> HIDE DEF Price
  <2>5. \A w \in writes' \ writes : w.trade \in batch /\ w.strike = Price(w.trade)
    BY <2>3
  <2> QED
    BY <2>2, <2>4, <2>5, OrdersAssumption
<1> QED
  BY <1>1, <1>2

LEMMA JobHops ==
    ASSUME Typed, NearInv, HopInv, JobStep
    PROVE  HopInv'
<1>1. UNCHANGED <<asked, loads>>
  BY DEF JobStep
<1>2. \A t \in Limit : t \in Trade /\ HopsOf(t) /\ loads[t] \in Nat
  BY OrdersAssumption DEF HopInv, NearInv
<1>n. \A t, n, x : Near(t, n, x)' <=> Near(t, n, x)
  BY <1>1 DEF Near
<1>3. CASE ProcessTradeMarket \/ ProcessTradeLimit
  <2>1. UNCHANGED trades
    BY <1>3 DEF ProcessTradeMarket, ProcessTradeLimit
  <2>2. \A w \in writes' : trades'[w.trade] # NoTrade
    BY <1>3, <2>1, BatchHops DEF HopInv, Typed
  <2>3. ASSUME NEW t \in Limit PROVE HopsOf(t)'
    <3>1. CASE queue'[t] = queue[t] /\ calls'[t] = calls[t]
      <4>1. ASSUME NEW w \in writes' \ writes, w.trade = t PROVE Near(t, loads[t] + 1, w.strike)
        BY <1>2, <1>3, <3>1, <4>1, BatchHops DEF HopsOf, Typed
      <4> QED
        BY <1>1, <1>2, <1>n, <2>1, <3>1, <4>1 DEF HopsOf
    <3>2. CASE /\ queue[t] # NoObject /\ queue'[t] = NoObject
               /\ calls'[t].strike = queue[t].strike
               /\ CheckSlippage(queue[t].strike, calls'[t].price)
      <4> DEFINE price == calls'[t].price
      <4>0. HopsOf(t) /\ loads[t] \in Nat /\ t \in Trade /\ calls[t] = NoCall
        BY <1>2, <3>2 DEF Typed
      <4>1. Near(t, loads[t], queue[t].strike)
        BY <3>2, <4>0 DEF HopsOf
      <4>2. calls'[t] # calls[t] => price \in Prices
        BY <1>3, BatchHops
      <4>3. price \in Prices => Near(t, loads[t] + 1, price)
        <5>1. SUFFICES ASSUME price \in Prices PROVE Near(t, loads[t] + 1, price)
          OBVIOUS
        <5>2. price \in Amounts
          BY <5>1 DEF Amounts
        <5>3. CheckSlippage(queue[t].strike, price)
          BY <3>2
        <5> HIDE DEF price
        <5> QED
          BY <4>0, <4>1, <5>2, <5>3, NearNext DEF Near
      <4>4. ASSUME NEW w \in writes', w.trade = t
            PROVE  w \in writes \/ Near(t, loads[t] + 1, w.strike)
        <5>1. w \notin writes => w.strike = price /\ price \in Prices
          BY <1>3, <4>4, BatchHops
        <5> HIDE DEF price
        <5> QED
          BY <4>3, <5>1
      <4> QED
        BY <1>1, <1>n, <2>1, <3>2, <4>0, <4>1, <4>2, <4>3, <4>4 DEF HopsOf
    <3> QED
      BY <1>2, <1>3, <3>1, <3>2, BatchNear
  <2> QED
    BY <2>2, <2>3 DEF HopInv
<1>4. ASSUME NEW u \in Trade, CallFails(u) PROVE HopInv'
  <2>1. /\ calls[u] # NoCall /\ UNCHANGED <<trades, writes>>
        /\ \A v \in Trade : /\ queue'[v] = IF v = u THEN Requeued(calls[u]) ELSE queue[v]
                            /\ calls'[v] = IF v = u THEN NoCall ELSE calls[v]
    BY <1>4 DEF CallFails, Typed
  <2>2. Requeued(calls[u]).strike = calls[u].strike
    BY DEF Requeued
  <2>3. ASSUME NEW t \in Limit PROVE HopsOf(t)'
    BY <1>1, <1>2, <1>n, <2>1, <2>2 DEF HopsOf
  <2> QED
    BY <2>1, <2>3 DEF HopInv
<1>5. ASSUME NEW u \in Trade, TradeOpens(u) PROVE HopInv'
  <2>1. /\ calls[u] # NoCall /\ UNCHANGED <<queue, writes>>
        /\ trades' = [trades EXCEPT ![u] = [trades[u] EXCEPT !.state = "OPENED"]]
        /\ \A v \in Trade : calls'[v] = calls[v] \/ calls'[v] = NoCall
    BY <1>5 DEF TradeOpens, Typed
  <2>2. trades[u] \in TradeDoc
    BY <2>1 DEF Typed
  <2>3. [trades[u] EXCEPT !.state = "OPENED"].strike = trades[u].strike
    BY <2>2 DEF TradeDoc
  <2>4. \A v \in Trade : trades'[v].strike = trades[v].strike /\ (trades[v] # NoTrade <=> trades'[v] # NoTrade)
    <3>1. [trades[u] EXCEPT !.state = "OPENED"] \in TradeDoc
      BY <2>2 DEF TradeDoc
    <3>2. trades'[u] # NoTrade /\ trades[u] # NoTrade
      <4>1. \A r \in TradeDoc : r.state # NoTrade.state
        BY DEF TradeDoc, NoTrade
      <4> QED
        BY <2>1, <2>2, <3>1, <4>1 DEF Typed
    <3> QED
      BY <2>1, <2>3, <3>2 DEF Typed
  <2>5. ASSUME NEW t \in Limit PROVE HopsOf(t)'
    BY <1>1, <1>2, <1>n, <2>1, <2>4 DEF HopsOf
  <2> QED
    BY <2>1, <2>4, <2>5 DEF HopInv, Typed, Write
<1>6. ASSUME NEW w \in writes, WriteLands(w) PROVE HopInv'
  <2>1. /\ w.trade \in Trade /\ trades[w.trade] # NoTrade
        /\ trades' = [trades EXCEPT ![w.trade] = Written(trades[w.trade], w)]
        /\ writes' \subseteq writes /\ UNCHANGED <<queue, calls>>
    BY <1>6 DEF WriteLands, HopInv, Typed, Write
  <2>2. trades[w.trade] \in TradeDoc
    BY <2>1, StoredIsDoc
  <2>3. Written(trades[w.trade], w).strike = w.strike /\ Written(trades[w.trade], w).state # "none"
    BY <2>2 DEF Written, TradeDoc
  <2>4. Written(trades[w.trade], w) # NoTrade
    BY <2>3 DEF NoTrade
  <2>5. /\ trades'[w.trade].strike = w.strike /\ trades'[w.trade] # NoTrade
        /\ \A v \in Trade : v # w.trade => trades'[v] = trades[v]
    BY <2>1, <2>3, <2>4 DEF Typed
  <2>6. ASSUME NEW t \in Limit PROVE HopsOf(t)'
    BY <1>1, <1>2, <1>n, <2>1, <2>5 DEF HopsOf
  <2> QED
    BY <2>1, <2>5, <2>6 DEF HopInv, Typed, Write
<1> QED
  BY <1>3, <1>4, <1>5, <1>6 DEF JobStep

LEMMA RestartHops ==
    ASSUME Typed, NearInv, HopInv, Restart
    PROVE  HopInv'
<1>1. /\ writes' = {} /\ calls' = [t \in Trade |-> NoCall] /\ UNCHANGED <<trades, asked>>
      /\ queue' = [t \in Trade |-> Loaded(t)]
      /\ loads' = [t \in Trade |-> IF Loaded(t) = NoObject THEN loads[t] ELSE loads[t] + 1]
  BY DEF Restart
<1>2. ASSUME NEW t \in Limit PROVE HopsOf(t)'
  <2>1. t \in Trade /\ HopsOf(t) /\ loads[t] \in Nat
    BY OrdersAssumption DEF HopInv, NearInv
  <2>n. \A n, x : Near(t, n, x)' <=> Near(t, n, x)
    BY <1>1 DEF Near
  <2>2. CASE Loaded(t) = NoObject
    <3>1. queue'[t] = NoObject /\ calls'[t] = NoCall /\ loads'[t] = loads[t]
      BY <1>1, <2>1, <2>2
    <3> QED
      BY <1>1, <2>1, <2>n, <3>1 DEF HopsOf
  <2>3. CASE Loaded(t) # NoObject
    <3>1. calls'[t] = NoCall /\ loads'[t] = loads[t] + 1 /\ queue'[t] = Loaded(t)
      BY <1>1, <2>1, <2>3
    <3>2. trades[t].state = "QUEUED" /\ queue'[t].strike = trades[t].strike
      BY <2>3, <3>1 DEF Loaded
    <3>3. trades[t] # NoTrade
      BY <3>2 DEF NoTrade
    <3>4. Near(t, loads[t] + 1, trades[t].strike)
      BY <2>1, <3>3 DEF HopsOf
    <3>5. Near(t, loads[t] + 1 + 1, trades[t].strike)
      BY <2>1, <3>4, NearLater DEF Near
    <3> QED
      BY <1>1, <2>n, <3>1, <3>2, <3>4, <3>5 DEF HopsOf
  <2> QED
    BY <2>2, <2>3
<1> QED
  BY <1>1, <1>2 DEF HopInv

LEMMA UpdateHops ==
    ASSUME Typed, NearInv, HopInv, NEW u \in Trade, NEW s \in NewStrikes, UpdateTrade(u, s)
    PROVE  HopInv'
<1>1. /\ UNCHANGED <<calls, loads, trades>> /\ queue[u] # NoObject
      /\ writes' = writes \cup {[trade |-> u, by |-> "user", strike |-> s]}
      /\ \A v \in Trade : /\ queue'[v] = IF v = u THEN [strike |-> s, strikeOld |-> s] ELSE queue[v]
                          /\ asked'[v] = IF v = u THEN asked[v] \cup {s} ELSE asked[v]
  BY DEF UpdateTrade, Queued, Typed, NearInv
<1>2. trades[u] # NoTrade
  BY <1>1 DEF Typed
<1>3. \A w \in writes' : trades'[w.trade] # NoTrade
  BY <1>1, <1>2 DEF HopInv
<1>4. ASSUME NEW t \in Limit PROVE HopsOf(t)'
  <2>1. t \in Trade /\ HopsOf(t) /\ loads[t] \in Nat
    BY OrdersAssumption DEF HopInv, NearInv
  <2>2. \A n, x : Near(t, n, x) => Near(t, n, x)'
    BY <1>1, <2>1 DEF Near
  <2>3. t = u => \A n \in Nat : Near(t, n, s)'
    <3>1. t = u => s \in asked'[t]
      BY <1>1, <2>1
    <3>2. \A n \in Nat : WithinSlippages(s, n, s)
      BY NearItself DEF Amounts
    <3> QED
      BY <3>1, <3>2 DEF Near
  <2>4. queue'[t] # NoObject => Near(t, loads[t], queue[t].strike)' \/ (t = u /\ queue'[t].strike = s)
    <3>1. CASE t = u
      <4>1. queue'[u] = [strike |-> s, strikeOld |-> s]
        BY <1>1
      <4>2. queue'[u].strike = s
        BY <4>1
      <4> QED
        BY <3>1, <4>2
    <3>2. CASE t # u
      <4>1. queue'[t] = queue[t] /\ loads'[t] = loads[t]
        BY <1>1, <2>1, <3>2
      <4>2. queue[t] # NoObject => Near(t, loads[t], queue[t].strike)
        BY <2>1 DEF HopsOf
      <4>3. \A n, x : n = loads[t] /\ x = queue[t].strike => (n = loads[t] /\ x = queue[t].strike)'
        BY <4>1
      <4> QED
        BY <2>2, <4>1, <4>2, <4>3
    <3> QED
      BY <3>1, <3>2
  <2>5. \A w \in writes' : w.trade = t =>
           Near(t, loads[t] + 1, w.strike)' \/ (t = u /\ w.strike = s)
    <3> TAKE w \in writes'
    <3>1. CASE w \in writes
      BY <1>1, <2>1, <2>2, <3>1 DEF HopsOf
    <3>2. CASE w = [trade |-> u, by |-> "user", strike |-> s]
      BY <3>2
    <3> QED
      BY <1>1, <3>1, <3>2
  <2>6. loads'[t] = loads[t] /\ loads[t] + 1 \in Nat
    BY <1>1, <2>1
  <2>7. /\ calls'[t] # NoCall => Near(t, loads[t], calls[t].strike)' /\ Near(t, loads[t] + 1, calls[t].price)'
        /\ trades'[t] # NoTrade => Near(t, loads[t] + 1, trades[t].strike)'
    BY <1>1, <2>1, <2>2 DEF HopsOf
  <2> QED
    BY <2>1, <2>3, <2>4, <2>5, <2>6, <2>7 DEF HopsOf
<1> QED
  BY <1>3, <1>4 DEF HopInv

LEMMA HopStep == Typed /\ NearInv /\ HopInv /\ [Next]_vars => HopInv'
<1> SUFFICES ASSUME Typed, NearInv, HopInv, [Next]_vars PROVE HopInv'
  OBVIOUS
<1>1. CASE FeedStep \/ UNCHANGED vars
  <2>1. UNCHANGED <<trades, queue, calls, writes, asked, loads>>
    BY <1>1 DEF FeedStep, vars, history
  <2> QED
    BY <2>1 DEF HopInv, HopsOf, Near
<1> QED
  BY <1>1, CreateHops, JobHops, RestartHops, UpdateHops DEF Next

\* A limit order is submitted within its slippage of the strike its user signs, whatever prices
\* came, calls failed and updates landed in between; and within one slippage more for each time
\* its object was rebuilt from the collection, whatever writes the crashes cut off or let
\* overtake each other.
THEOREM SubmittedNearStrikeHolds == Spec => []SubmittedNearStrike
<1>1. Init => HopInv
  BY OrdersAssumption DEF Init, HopInv, HopsOf
<1>2. HopInv /\ NearSigned => SubmittedNearStrike
  BY DEF HopInv, HopsOf, Near, NearSigned, SubmittedNearStrike
<1> QED
  BY <1>1, <1>2, HopStep, NearHolds, TypedHolds, PTL DEF Spec
=============================================================================
