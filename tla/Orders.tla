------------------------------- MODULE Orders -------------------------------
(***************************************************************************)
(* Which trades are accepted and at which price they are submitted:        *)
(* TradesService.createTrade with its checks, the prices that              *)
(* SocketPriceService keeps, the matching of processTradeMarket and        *)
(* processTradeLimit, updateTrade, and the strike that a restart loads.    *)
(*                                                                         *)
(* All trades are of one user, direction, pair and pool, and of size 1.    *)
(* Batches, retries that run out, cancellations and the events are the     *)
(* subject of OpenTrade and left out.  Time is in seconds, a strike or a   *)
(* price a number, a slippage a share of Scale.                            *)
(***************************************************************************)
EXTENDS Integers, Sequences, FiniteSets, FiniteSetsExt

CONSTANTS
    Trade,       \* the trades that may be asked for
    Limit,       \* those that are limit orders
    Partial,     \* those with allowPartialFill
    Strikes,     \* the strikes users ask for first
    NewStrikes,  \* the strikes of updates
    Prices,      \* the prices of the feed
    Scale,       \* a slippage of Scale is 100 % (1e4)
    Slippage,    \* the slippage of the trades
    Window,      \* prices kept of a pair (15)
    MaxOI,       \* the contract's limit of open interest
    MaxClock,    \* bound on the clock
    MaxUpdates,  \* bound on the updates
    MaxFailures, \* bound on the calls that fail
    MaxCrashes   \* bound on the crashes

ASSUME OrdersAssumption ==
    /\ Limit \subseteq Trade /\ Partial \subseteq Trade
    /\ Strikes \cup NewStrikes \cup Prices \subseteq Nat
    /\ Scale \in Nat \ {0} /\ Slippage \in 0..Scale
    /\ Window \in Nat \ {0} /\ MaxOI \in Nat /\ MaxOI > 1
    /\ MaxClock \in Nat /\ MaxUpdates \in Nat /\ MaxFailures \in Nat /\ MaxCrashes \in Nat

VARIABLES
    clock,    \* seconds
    feed,     \* pairPrice[id]: the newest price first, empty before the first message
    maxOI,    \* currentMaxOI: {} until it has been read from the contract
    trades,   \* the collection
    req,      \* the createTrade requests under way
    queue,    \* queuesMarket and queuesLimitOrder
    calls,    \* the openTrades calls under way, with the price that is submitted
    writes,   \* writes under way to the strike of a trade
    asked,    \* the strikes the user asked for, the first one and those of updates
    loads,    \* how often the object of a trade was rebuilt from the collection
    seen,     \* the trades that were stored when a request looked for the last one
    peak,     \* the most trades that were asked for or QUEUED at once
    unchecked,\* the trades accepted while the limit was not known
    bounded   \* updates, failed calls and crashes so far

feeds   == <<clock, feed, maxOI>>
history == <<asked, loads, seen, peak, unchecked>>
vars    == <<feeds, trades, req, queue, calls, writes, history, bounded>>

Reads    == {"lastTrade", "totalTrade"}
NoTrade  == [state |-> "none"]
NoReq    == [phase |-> "none"]
NoObject == [strike |-> 0, strikeOld |-> 0]
NoCall   == [price |-> 0, strike |-> 0, strikeOld |-> 0]

Stored   == {t \in Trade : trades[t] # NoTrade}
InState(s) == {t \in Trade : trades[t].state = s}
Queued(kind) == {t \in kind : queue[t] # NoObject}
Pending  == InState("QUEUED") \cup {t \in Trade : req[t] # NoReq}
\* conjoined to every action that may let Pending grow
CountPeak == peak' = Max({peak, Cardinality(Pending')})

Init ==
    /\ clock = 0 /\ feed = << >> /\ maxOI = {}
    /\ trades = [t \in Trade |-> NoTrade] /\ req = [t \in Trade |-> NoReq]
    /\ queue = [t \in Trade |-> NoObject] /\ calls = [t \in Trade |-> NoCall]
    /\ writes = {}
    /\ asked = [t \in Trade |-> {}] /\ loads = [t \in Trade |-> 0]
    /\ seen = [t \in Trade |-> {}] /\ peak = 0 /\ unchecked = {}
    /\ bounded = [updates |-> 0, failures |-> 0, crashes |-> 0]

Tick == clock < MaxClock /\ clock' = clock + 1 /\ UNCHANGED <<feed, maxOI>>

(***************************************************************************)
(* SocketPriceService: a message is put in front, and the list cut.  The   *)
(* list outlives a connection that closes.                                 *)
(***************************************************************************)
Uncut(list) == list
Cut(list) == SubSeq(list, 1, IF Len(list) < Window THEN Len(list) ELSE Window)
UpdatePairPriceToMem ==
    /\ \E p \in Prices : feed' = Cut(<<p>> \o feed)
    /\ UNCHANGED <<clock, maxOI>>

\* syncMaxOI, at the start and every five minutes
SyncMaxOI == maxOI' = {MaxOI} /\ UNCHANGED <<clock, feed>>

FeedStep ==
    /\ Tick \/ UpdatePairPriceToMem \/ SyncMaxOI
    /\ UNCHANGED <<trades, req, queue, calls, writes, history, bounded>>

(***************************************************************************)
(* createTrade.  The date of the trade is that of the request; the last    *)
(* trade and the open interest are read side by side; the checks and the   *)
(* insertion follow.  A request that is refused may be sent again.         *)
(***************************************************************************)
CreateTrade(t) ==
    /\ trades[t] = NoTrade /\ req[t] = NoReq
    /\ \E s \in Strikes :
        req' = [req EXCEPT ![t] = [phase |-> "check", now |-> clock, strike |-> s, toRead |-> Reads,
                                   lastTrade |-> {}, totalTrade |-> 0]]
    /\ UNCHANGED <<trades, queue, seen, unchecked>>

\* the trade with the latest queuedDate
LastDates == {trades[t].queuedDate : t \in Stored}
Latest == IF LastDates = {} THEN {} ELSE {Max(LastDates)}
ReadLastTrade(t) ==
    /\ req[t].phase = "check" /\ "lastTrade" \in req[t].toRead
    /\ req' = [req EXCEPT ![t].toRead = @ \ {"lastTrade"}, ![t].lastTrade = Latest]
    /\ seen' = [seen EXCEPT ![t] = Stored]
    /\ UNCHANGED <<trades, queue, unchecked>>

\* getTotalTradeOfPool: the trades that are OPENED
GetTotalTradeOfPool(t) ==
    /\ req[t].phase = "check" /\ "totalTrade" \in req[t].toRead
    /\ req' = [req EXCEPT ![t].toRead = @ \ {"totalTrade"},
                          ![t].totalTrade = Cardinality(InState("OPENED"))]
    /\ UNCHANGED <<trades, queue, seen, unchecked>>

TooQuicklyNow(r) == \E date \in r.lastTrade : date > r.now
TooQuickly(r) == \E date \in r.lastTrade : date + 1 > r.now
InvalidLiquidityBefore(t, total) == \E limit \in maxOI : total >= limit
InvalidLiquidity(t, total) ==
    \E limit \in maxOI : total >= limit \/ (t \notin Partial /\ total + 1 >= limit)

Refused(t) == TooQuickly(req[t]) \/ InvalidLiquidity(t, req[t].totalTrade)

CheckTrade(t) ==
    /\ req[t].phase = "check" /\ req[t].toRead = {}
    /\ req' = [req EXCEPT ![t] = IF Refused(t) THEN NoReq ELSE [@ EXCEPT !.phase = "create"]]
    /\ unchecked' = IF ~Refused(t) /\ maxOI = {} THEN unchecked \cup {t} ELSE unchecked
    /\ UNCHANGED <<trades, queue, seen>>

\* model.create and the push of the object
StoreTrade(t) ==
    /\ req[t].phase = "create"
    /\ trades' = [trades EXCEPT ![t] = [state |-> "QUEUED", queuedDate |-> req[t].now,
                                        strike |-> req[t].strike, strikeOld |-> req[t].strike]]
    /\ queue' = [queue EXCEPT ![t] = [strike |-> req[t].strike, strikeOld |-> req[t].strike]]
    /\ req' = [req EXCEPT ![t] = NoReq]
    /\ UNCHANGED <<seen, unchecked>>

CreateStep ==
    /\ \E t \in Trade :
        \/ CreateTrade(t) \/ ReadLastTrade(t) \/ GetTotalTradeOfPool(t) \/ CheckTrade(t)
        \/ StoreTrade(t)
    /\ asked' = [t \in Trade |->
                    IF trades[t] # trades'[t] THEN {trades'[t].strike} ELSE asked[t]]
    /\ UNCHANGED <<feeds, calls, writes, loads, bounded>>
    /\ CountPeak

(***************************************************************************)
(* The jobs.  A limit order is submitted at the newest price within its    *)
(* slippage and waits when there is none; a market order that finds none   *)
(* is submitted at the oldest price.  The write of the price over the      *)
(* strike is not awaited, and the object keeps the strike it had.          *)
(***************************************************************************)
CheckSlippage(strike, price) ==
    /\ price * Scale >= strike * (Scale - Slippage)
    /\ price * Scale <= strike * (Scale + Slippage)

Fitting(strike) == {i \in DOMAIN feed : CheckSlippage(strike, feed[i])}
LimitPriceAvailable(strike) == feed[Min(Fitting(strike))]
MarketPriceAvailable(strike) ==
    feed[IF Fitting(strike) = {} THEN Len(feed) ELSE Min(Fitting(strike))]

OpenTradeContract(batch, PriceOf(_)) ==
    LET Price(t) == PriceOf(queue[t].strike)
    IN  /\ batch # {}
        /\ calls' = [t \in Trade |->
                        IF t \notin batch THEN calls[t]
                        ELSE [price |-> Price(t), strike |-> queue[t].strike,
                              strikeOld |-> queue[t].strikeOld]]
        /\ queue' = [t \in Trade |-> IF t \in batch THEN NoObject ELSE queue[t]]
        /\ writes' = writes \cup {[trade |-> t, by |-> "job", strike |-> Price(t)] : t \in batch}

ProcessTradeMarket ==
    /\ feed # << >>
    /\ OpenTradeContract(Queued(Trade \ Limit), MarketPriceAvailable)
    /\ UNCHANGED <<trades, bounded>>

ProcessTradeLimit ==
    /\ feed # << >>
    /\ OpenTradeContract({t \in Queued(Limit) : Fitting(queue[t].strike) # {}}, LimitPriceAvailable)
    /\ UNCHANGED <<trades, bounded>>

\* the object goes back with the price next to the strike, never instead of it
RequeuedAtPrice(call) == [strike |-> call.price, strikeOld |-> call.strikeOld]
Requeued(call) == [strike |-> call.strike, strikeOld |-> call.strikeOld]
CallFails(t) ==
    /\ calls[t] # NoCall /\ bounded.failures < MaxFailures
    /\ queue' = [queue EXCEPT ![t] = Requeued(calls[t])]
    /\ calls' = [calls EXCEPT ![t] = NoCall]
    /\ bounded' = [bounded EXCEPT !.failures = @ + 1]
    /\ UNCHANGED <<trades, writes>>

\* external: the contract opens the trade, and the router job records it
TradeOpens(t) ==
    /\ calls[t] # NoCall
    /\ trades' = [trades EXCEPT ![t].state = "OPENED"]
    /\ calls' = [calls EXCEPT ![t] = NoCall]
    /\ UNCHANGED <<queue, writes, bounded>>

\* a write lands, whatever was written since it was sent
Written(record, w) ==
    IF w.by = "job" THEN [record EXCEPT !.strike = w.strike]
    ELSE [record EXCEPT !.strike = w.strike, !.strikeOld = w.strike]
WriteLands(w) ==
    /\ trades' = [trades EXCEPT ![w.trade] = Written(@, w)]
    /\ writes' = writes \ {w}
    /\ UNCHANGED <<queue, calls, bounded>>

JobStep ==
    /\ \/ ProcessTradeMarket \/ ProcessTradeLimit
       \/ \E t \in Trade : CallFails(t) \/ TradeOpens(t)
       \/ \E w \in writes : WriteLands(w)
    /\ UNCHANGED <<feeds, req, asked, loads, seen, unchecked>>
    /\ CountPeak

(***************************************************************************)
(* updateTrade: the object, then the record.                               *)
(***************************************************************************)
UpdateTrade(t, strike) ==
    /\ t \in Queued(Limit) /\ trades[t].state = "QUEUED" /\ bounded.updates < MaxUpdates
    /\ queue' = [queue EXCEPT ![t] = [strike |-> strike, strikeOld |-> strike]]
    /\ writes' = writes \cup {[trade |-> t, by |-> "user", strike |-> strike]}
    /\ asked' = [asked EXCEPT ![t] = @ \cup {strike}]
    /\ bounded' = [bounded EXCEPT !.updates = @ + 1]
    /\ UNCHANGED <<feeds, trades, req, calls, loads, seen, peak, unchecked>>

(***************************************************************************)
(* A crash: what is in memory and under way is lost, and the objects are   *)
(* built from the collection again (loadTradesMarket, loadTradesLimit-     *)
(* Order).                                                                 *)
(***************************************************************************)
Loaded(t) ==
    IF trades[t].state # "QUEUED" THEN NoObject
    ELSE [strike |-> trades[t].strike, strikeOld |-> trades[t].strikeOld]
Restart ==
    /\ bounded.crashes < MaxCrashes
    /\ bounded' = [bounded EXCEPT !.crashes = @ + 1]
    /\ feed' = << >> /\ maxOI' = {}
    /\ req' = [t \in Trade |-> NoReq] /\ calls' = [t \in Trade |-> NoCall] /\ writes' = {}
    /\ queue' = [t \in Trade |-> Loaded(t)]
    /\ loads' = [t \in Trade |-> IF Loaded(t) = NoObject THEN loads[t] ELSE loads[t] + 1]
    /\ UNCHANGED <<clock, trades, asked, seen, peak, unchecked>>

Next ==
    \/ FeedStep \/ CreateStep \/ JobStep \/ Restart
    \/ \E t \in Trade, s \in NewStrikes : UpdateTrade(t, s)

Spec == Init /\ [][Next]_vars

-----------------------------------------------------------------------------
(* Properties *)

\* The prices kept of a pair are never more than Window; an object is only in a queue while its
\* trade is QUEUED or opened meanwhile, and never both in a queue and in a call.
TypeOK ==
    /\ clock \in 0..MaxClock /\ maxOI \subseteq {MaxOI}
    /\ feed \in Seq(Prices) /\ Len(feed) <= Window
    /\ \A t \in Trade :
        /\ trades[t].state \in {"none", "QUEUED", "OPENED"}
        /\ req[t].phase \in {"none", "check", "create"}
        /\ queue[t] # NoObject => calls[t] = NoCall /\ trades[t].state # "none"
    /\ writes \subseteq [trade : Trade, by : {"job", "user"}, strike : Nat]

\* createTrade refuses a trade within a second of the last one.  Of two trades of a user and
\* direction the one whose request looked for the last trade after the other was stored is the
\* later one by a second, by the dates both carry; only requests that overlap may come closer
\* (and then even share a queueId).
OneSecondApart ==
    \A t \in Stored : \A other \in seen[t] : trades[t].queuedDate >= trades[other].queuedDate + 1

\* The open interest exceeds the limit by no more than was asked for or queued at one time, as
\* only OPENED trades count, and by the trades accepted before the limit was known.
InterestBounded ==
    LET room == IF Partial = {} THEN MaxOI - 2 ELSE MaxOI - 1
    IN  Cardinality(InState("OPENED")) <= room + peak + Cardinality(unchecked)

\* Where n times the slippage can lead from a strike.
WithinSlippages(s, n, price) ==
    \E path \in [0..n -> Strikes \cup NewStrikes \cup Prices] :
        /\ path[0] = s /\ path[n] = price
        /\ \A i \in 1..n : CheckSlippage(path[i - 1], path[i])

\* A limit order is submitted within its slippage of the strike its user signs; once its object
\* was rebuilt from the collection, where the job has written a price over the strike, each
\* restart may add another slippage, and the strike it started from may be the one before an
\* update.
SubmittedNearStrike ==
    \A t \in {u \in Limit : calls[u] # NoCall} :
        /\ loads[t] = 0 => CheckSlippage(calls[t].strikeOld, calls[t].price)
        /\ \E s \in asked[t] : WithinSlippages(s, loads[t] + 1, calls[t].price)
=============================================================================
