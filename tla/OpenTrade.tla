----------------------------- MODULE OpenTrade -----------------------------
(***************************************************************************)
(* The opening pipeline of a trade: TradesService.createTrade, updateTrade *)
(* and cancelTrade, the cron jobs cancelTrade, processTradeMarket and      *)
(* processTradeLimit with openTradeContract, the loaders that rebuild the  *)
(* queues at start-up, and the part of SyncRouterService.handleEvents that *)
(* records what the router contract did with the trade.                    *)
(*                                                                         *)
(* A JavaScript function runs without interruption up to its next await,   *)
(* so an action is the code between two awaits.  A bulkWrite that is not   *)
(* awaited is a pending write (incs, cancels) that lands at any later time *)
(* or is lost with the process.                                            *)
(*                                                                         *)
(* The four arrays of trade objects are abstracted to the place of each    *)
(* object.  A trade has at most two objects in a process: the one          *)
(* createTrade pushes and the one a loader pushes (a retry replaces an     *)
(* object by a copy).  The order in an array is abstracted: it only        *)
(* decides which quantityTxTrade trades go first.  A queueId is taken to   *)
(* identify one trade.                                                     *)
(***************************************************************************)
EXTENDS Integers, Sequences, FiniteSets

CONSTANTS
    Trade,            \* the trade documents that may be created
    MaximumRetry,     \* config.maximumRetry
    QuantityTxTrade,  \* config.quantityTxTrade
    MaxDuration,      \* longest limitOrderDuration, in units of the model's clock
    Kinds,            \* the values of isLimitOrder users send
    Requests,         \* what users ask for besides createTrade: "cancel", "update"
    EarlyCreate,      \* may createTrade be served before the loaders have read?
    Overlap,          \* how far behind its cursor the router job reads again
    HeadLag,          \* how far behind that cursor the head may be that an RPC node reports
    MaxRejects,       \* bound on the router contract's rejections of a trade
    MaxCrashes        \* bound on the crashes of the process

ASSUME OpenTradeAssumption ==
    /\ MaximumRetry \in Nat
    /\ QuantityTxTrade \in Nat \ {0}
    /\ MaxDuration \in Nat \ {0}
    /\ Requests \subseteq {"cancel", "update"}
    /\ Kinds \subseteq BOOLEAN
    /\ EarlyCreate \in BOOLEAN
    /\ Overlap \in Nat
    /\ HeadLag \in Nat
    /\ MaxRejects \in Nat
    /\ MaxCrashes \in Nat

VARIABLES
    db,       \* the trades collection
    age,      \* time since queuedDate
    entry,    \* the trade objects in memory: where each one is, and its call_open
    calls,    \* the openTradeContract calls under way
    incs,     \* $inc call_open writes that have not landed
    cancels,  \* CANCELLED writes of the jobs that have not landed
    req,      \* the update or cancel request of the user under way
    cronSnap, \* the expired trades the cancelTrade job read as QUEUED
    toLoad,   \* the loaders that have not read: market (FALSE), limit order (TRUE)
    sent,     \* the trades whose opening reached a node
    opened,   \* the trades the router contract opened
    log,      \* the router contract's events about trades
    synced,   \* the events behind the router job's block cursor
    scan,     \* the events the router job is writing (to = 0: the job is idle)
    crashes   \* crashes so far

memVars   == <<entry, calls, incs, cancels, req, cronSnap, toLoad>>
chainVars == <<sent, opened, log>>
vars == <<db, age, memVars, chainVars, synced, scan, crashes>>

State  == {"NONE", "QUEUED", "OPENED", "CANCELLED"}
Reason == {"none", "expired", "busy", "user", "chain"}
Origin == {"created", "loaded"}
Entry  == Trade \X Origin
Place  == {"none", "pending", "queue", "call", "active"}

TradeRecord == [state: State, reason: Reason, call_open: Nat,
                isLimitOrder: BOOLEAN, limitOrderDuration: 0..MaxDuration]
TradeObject == [place: Place, call_open: Nat]
Call     == [batch: SUBSET Entry, sent: BOOLEAN]
Request  == [op: {"idle", "cancelRead", "cancelWrite", "updateRead", "updateWrite"},
             duration: 0..MaxDuration]
RouterEvent == [trade: Trade, event: {"OpenTrade", "CancelTrade"}]

NoTrade  == [state |-> "NONE", reason |-> "none", call_open |-> 0,
             isLimitOrder |-> FALSE, limitOrderDuration |-> 0]
NoObject == [place |-> "none", call_open |-> 0]
NoReq    == [op |-> "idle", duration |-> 0]
Idle     == [from |-> 1, to |-> 0]

Min2(a, b) == IF a < b THEN a ELSE b

\* queuesLimitOrder (isLimit) and queuesMarket (~isLimit)
Queue(isLimit) ==
    {e \in Entry : entry[e].place = "queue" /\ db[e[1]].isLimitOrder = isLimit}

\* How many objects of trade t are in the set of objects es.
Copies(t, es) == (IF <<t, "created">> \in es THEN 1 ELSE 0)
               + (IF <<t, "loaded">> \in es THEN 1 ELSE 0)

\* A limitOrderDuration of 0 stands for the 60 seconds a market order may wait.
ExpiredLimitOnly(t) ==
    db[t].limitOrderDuration # 0 /\ age[t] >= db[t].limitOrderDuration
Expired(t) ==
    age[t] >= IF db[t].limitOrderDuration # 0 THEN db[t].limitOrderDuration ELSE 1

\* The CANCELLED update, and the write of the expiry job: its filter names the state,
\* so a trade that left QUEUED is kept.
Cancelled(r, why) == [r EXCEPT !.state = "CANCELLED", !.reason = why]
ExpireAnyState(r) == Cancelled(r, "expired")
Expire(r) == IF r.state = "QUEUED" THEN Cancelled(r, "expired") ELSE r

\* What handleEvents writes for an event, whatever the state was.  isLimitOrder stays the
\* kind the user chose, which the objects in memory keep: the FALSE an OpenTrade event
\* writes is never read, since every reader of it asks for a QUEUED trade.
RecordAnyAsOpened(r, event) == [r EXCEPT !.state = "OPENED"]
Record(r, event) ==
    IF event = "OpenTrade" THEN [r EXCEPT !.state = "OPENED"] ELSE Cancelled(r, "chain")

\* After a failed call: may an object with this call_open queue again, and with what.
MayRetryStrictly(n) == n < MaximumRetry
MayRetryLonger(n) == n <= MaximumRetry + 1
MayRetry(n) == n <= MaximumRetry
Requeued(n) == n + 1

\* What a loader takes back into its queue.
LoadableUnlessOpened(t, isLimit) ==
    /\ db[t].state \notin {"NONE", "OPENED"}
    /\ db[t].isLimitOrder = isLimit
    /\ db[t].call_open < MaximumRetry
Loadable(t, isLimit) ==
    /\ db[t].state = "QUEUED"
    /\ db[t].isLimitOrder = isLimit
    /\ db[t].call_open < MaximumRetry

Init ==
    /\ db = [t \in Trade |-> NoTrade]
    /\ age = [t \in Trade |-> 0]
    /\ entry = [e \in Entry |-> NoObject]
    /\ calls = {}
    /\ incs = [t \in Trade |-> 0]
    /\ cancels = [t \in Trade |-> {}]
    /\ req = [t \in Trade |-> NoReq]
    /\ cronSnap = {}
    /\ toLoad = BOOLEAN
    /\ sent = {}
    /\ opened = {}
    /\ log = <<>>
    /\ synced = 0
    /\ scan = Idle
    /\ crashes = 0

-----------------------------------------------------------------------------
(* Requests of the user *)

\* createTrade up to model.create: the document exists, the object does not queue yet.
CreateTrade(t) ==
    /\ db[t].state = "NONE"
    /\ EarlyCreate \/ toLoad = {}
    /\ \E isLimit \in Kinds, d \in 0..MaxDuration :
          /\ isLimit <=> d # 0
          /\ db' = [db EXCEPT ![t] = [NoTrade EXCEPT !.state = "QUEUED",
                         !.isLimitOrder = isLimit, !.limitOrderDuration = d]]
    /\ entry' = [entry EXCEPT ![<<t, "created">>] = [place |-> "pending", call_open |-> 0]]
    /\ UNCHANGED <<age, calls, incs, cancels, req, cronSnap, toLoad, chainVars,
                   synced, scan, crashes>>

\* The continuation of createTrade pushes the object to its queue.
CreatePush(t) ==
    /\ entry[<<t, "created">>].place = "pending"
    /\ entry' = [entry EXCEPT ![<<t, "created">>].place = "queue"]
    /\ UNCHANGED <<db, age, calls, incs, cancels, req, cronSnap, toLoad, chainVars,
                   synced, scan, crashes>>

\* cancelTrade and updateTrade read the document and find it QUEUED.
RequestRead(t) ==
    /\ req[t].op = "idle"
    /\ db[t].state = "QUEUED"
    /\ \/ /\ "cancel" \in Requests
          /\ req' = [req EXCEPT ![t].op = "cancelRead"]
       \/ /\ "update" \in Requests
          /\ db[t].isLimitOrder
          /\ req' = [req EXCEPT ![t].op = "updateRead"]
    /\ UNCHANGED <<db, age, entry, calls, incs, cancels, cronSnap, toLoad, chainVars,
                   synced, scan, crashes>>

\* cancelTrade after the read: with an empty queuesLimitOrder the request fails;
\* otherwise the objects of the trade leave it, but the splice inside forEach may
\* skip the second of two neighbours, and the CANCELLED write starts.
CancelApply(t) ==
    /\ req[t].op = "cancelRead"
    /\ LET mine == {e \in Queue(TRUE) : e[1] = t}
       IN  IF Queue(TRUE) = {}
           THEN /\ req' = [req EXCEPT ![t] = NoReq]
                /\ UNCHANGED entry
           ELSE /\ req' = [req EXCEPT ![t].op = "cancelWrite"]
                /\ \E gone \in SUBSET mine :
                      /\ mine # {} => gone # {}
                      /\ entry' = [e \in Entry |-> IF e \in gone THEN NoObject ELSE entry[e]]
    /\ UNCHANGED <<db, age, calls, incs, cancels, cronSnap, toLoad, chainVars,
                   synced, scan, crashes>>

\* The findOneAndUpdate of cancelTrade, whose filter does not name the state.
CancelWrite(t) ==
    /\ req[t].op = "cancelWrite"
    /\ db' = [db EXCEPT ![t] = Cancelled(@, "user")]
    /\ req' = [req EXCEPT ![t] = NoReq]
    /\ UNCHANGED <<age, entry, calls, incs, cancels, cronSnap, toLoad, chainVars,
                   synced, scan, crashes>>

\* updateTrade after the read: the object must wait in queuesLimitOrder.  Its
\* terms are abstracted, except the duration the write that follows records.
UpdateApply(t) ==
    /\ req[t].op = "updateRead"
    /\ IF \E e \in Queue(TRUE) : e[1] = t
       THEN \E d \in 0..MaxDuration :
               req' = [req EXCEPT ![t] = [op |-> "updateWrite", duration |-> d]]
       ELSE req' = [req EXCEPT ![t] = NoReq]
    /\ UNCHANGED <<db, age, entry, calls, incs, cancels, cronSnap, toLoad, chainVars,
                   synced, scan, crashes>>

UpdateWrite(t) ==
    /\ req[t].op = "updateWrite"
    /\ db' = [db EXCEPT ![t].limitOrderDuration = req[t].duration]
    /\ req' = [req EXCEPT ![t] = NoReq]
    /\ UNCHANGED <<age, entry, calls, incs, cancels, cronSnap, toLoad, chainVars,
                   synced, scan, crashes>>

\* The write of a request fails: the user sees an error, memory is as it is.
RequestWriteFails(t) ==
    /\ req[t].op \in {"cancelWrite", "updateWrite"}
    /\ req' = [req EXCEPT ![t] = NoReq]
    /\ UNCHANGED <<db, age, entry, calls, incs, cancels, cronSnap, toLoad, chainVars,
                   synced, scan, crashes>>

-----------------------------------------------------------------------------
(* The cron job cancelTrade *)

CronRead ==
    /\ cronSnap' = {t \in Trade : db[t].state = "QUEUED" /\ Expired(t)}
    /\ cronSnap' # cronSnap
    /\ UNCHANGED <<db, age, entry, calls, incs, cancels, req, toLoad, chainVars,
                   synced, scan, crashes>>

\* Each expired trade leaves the queue its duration points at (findIndex: one
\* object), and a CANCELLED write starts that is not awaited.
CronApply ==
    /\ cronSnap # {}
    /\ \E gone \in SUBSET {e \in Entry : e[1] \in cronSnap} :
          /\ \A t \in cronSnap :
                LET q == {e \in Queue(db[t].limitOrderDuration # 0) : e[1] = t}
                IN  \/ q = {} /\ \A e \in gone : e[1] # t
                    \/ \E e \in q : {f \in gone : f[1] = t} = {e}
          /\ entry' = [e \in Entry |-> IF e \in gone THEN NoObject ELSE entry[e]]
    /\ cancels' = [t \in Trade |->
                     IF t \in cronSnap THEN cancels[t] \cup {"expired"} ELSE cancels[t]]
    /\ cronSnap' = {}
    /\ UNCHANGED <<db, age, calls, incs, req, toLoad, chainVars, synced, scan, crashes>>

LandExpired(t) ==
    /\ "expired" \in cancels[t]
    /\ cancels' = [cancels EXCEPT ![t] = @ \ {"expired"}]
    /\ db' = [db EXCEPT ![t] = Expire(@)]
    /\ UNCHANGED <<age, entry, calls, incs, req, cronSnap, toLoad, chainVars,
                   synced, scan, crashes>>

-----------------------------------------------------------------------------
(* The cron jobs processTradeMarket and processTradeLimit, and openTradeContract *)

\* Objects leave their queue for one openTrades transaction; the write that counts
\* the call is not awaited.
StartCallUnremoved(batch) ==
    /\ entry' = [e \in Entry |->
                   IF e \in batch THEN [place |-> "queue", call_open |-> entry[e].call_open + 1]
                   ELSE entry[e]]
    /\ calls' = calls \cup {[batch |-> batch, sent |-> FALSE]}
    /\ incs' = [t \in Trade |-> incs[t] + Copies(t, batch)]
    /\ UNCHANGED <<db, age, cancels, req, cronSnap, toLoad, chainVars, synced, scan, crashes>>
StartCall(batch) ==
    /\ entry' = [e \in Entry |->
                   IF e \in batch THEN [place |-> "call", call_open |-> entry[e].call_open + 1]
                   ELSE entry[e]]
    /\ calls' = calls \cup {[batch |-> batch, sent |-> FALSE]}
    /\ incs' = [t \in Trade |-> incs[t] + Copies(t, batch)]
    /\ UNCHANGED <<db, age, cancels, req, cronSnap, toLoad, chainVars, synced, scan, crashes>>

\* splice(0, quantityTxTrade): as many as the queue holds, up to the limit.
MarketBatchFull(batch) ==
    /\ batch \in (SUBSET Queue(FALSE)) \ {{}}
    /\ Cardinality(batch) = QuantityTxTrade
MarketBatch(batch) ==
    /\ batch \in (SUBSET Queue(FALSE)) \ {{}}
    /\ Cardinality(batch) = Min2(QuantityTxTrade, Cardinality(Queue(FALSE)))

ProcessTradeMarket == \E batch \in SUBSET Entry : MarketBatch(batch) /\ StartCall(batch)

\* A pair of the batch has no price yet: the job throws after the splice, so the
\* objects of the batch are gone.
LoseMarketBatch ==
    \E batch \in SUBSET Entry :
       /\ MarketBatch(batch)
       /\ entry' = [e \in Entry |-> IF e \in batch THEN NoObject ELSE entry[e]]
       /\ UNCHANGED <<db, age, calls, incs, cancels, req, cronSnap, toLoad, chainVars,
                      synced, scan, crashes>>

\* The trades whose trigger price is met are chosen by the feed; the missing price of
\* a pair stops the job before anything changes.
ProcessTradeLimit ==
    \E batch \in (SUBSET Queue(TRUE)) \ {{}} :
       /\ Cardinality(batch) <= QuantityTxTrade
       /\ StartCall(batch)

\* The signed transaction reaches a node.
SendOpenTrades ==
    \E c \in calls :
       /\ ~c.sent
       /\ calls' = (calls \ {c}) \cup {[c EXCEPT !.sent = TRUE]}
       /\ sent' = sent \cup {e[1] : e \in c.batch}
       /\ UNCHANGED <<db, age, entry, incs, cancels, req, cronSnap, toLoad, opened, log,
                      synced, scan, crashes>>

\* contract.openTrades resolves: the objects join listActives.
CallResolves ==
    \E c \in calls :
       /\ c.sent
       /\ calls' = calls \ {c}
       /\ entry' = [e \in Entry |->
                      IF e \in c.batch THEN [entry[e] EXCEPT !.place = "active"] ELSE entry[e]]
       /\ UNCHANGED <<db, age, incs, cancels, req, cronSnap, toLoad, chainVars,
                      synced, scan, crashes>>

\* Signing or sending failed, or only the answer was lost: objects with attempts
\* left queue again, the others are given up and their trades cancelled.
CallFails ==
    \E c \in calls :
       LET retry  == {e \in c.batch : MayRetry(entry[e].call_open)}
           giveUp == c.batch \ retry
       IN  /\ calls' = calls \ {c}
           /\ entry' = [e \in Entry |->
                 IF e \in retry THEN [place |-> "queue", call_open |-> Requeued(entry[e].call_open)]
                 ELSE IF e \in giveUp THEN NoObject
                 ELSE entry[e]]
           /\ cancels' = [t \in Trade |->
                 IF \E e \in giveUp : e[1] = t THEN cancels[t] \cup {"busy"} ELSE cancels[t]]
           /\ UNCHANGED <<db, age, incs, req, cronSnap, toLoad, chainVars,
                          synced, scan, crashes>>

LandInc(t) ==
    /\ incs[t] > 0
    /\ incs' = [incs EXCEPT ![t] = @ - 1]
    /\ db' = [db EXCEPT ![t].call_open = @ + 1]
    /\ UNCHANGED <<age, entry, calls, cancels, req, cronSnap, toLoad, chainVars,
                   synced, scan, crashes>>

\* "Blockchain is busy": the filter of this write does not name the state.
LandBusy(t) ==
    /\ "busy" \in cancels[t]
    /\ cancels' = [cancels EXCEPT ![t] = @ \ {"busy"}]
    /\ db' = [db EXCEPT ![t] = Cancelled(@, "busy")]
    /\ UNCHANGED <<age, entry, calls, incs, req, cronSnap, toLoad, chainVars,
                   synced, scan, crashes>>

-----------------------------------------------------------------------------
(* Start-up: loadTradesMarket and loadTradesLimitOrder *)

LoadRead(isLimit) ==
    /\ isLimit \in toLoad
    /\ toLoad' = toLoad \ {isLimit}
    /\ entry' = [e \in Entry |->
                   IF e[2] = "loaded" /\ Loadable(e[1], isLimit)
                   THEN [place |-> "pending", call_open |-> db[e[1]].call_open]
                   ELSE entry[e]]
    /\ UNCHANGED <<db, age, calls, incs, cancels, req, cronSnap, chainVars,
                   synced, scan, crashes>>

LoadPush(isLimit) ==
    LET read == {e \in Entry : /\ e[2] = "loaded" /\ entry[e].place = "pending"
                               /\ db[e[1]].isLimitOrder = isLimit}
    IN  /\ read # {}
        /\ entry' = [e \in Entry |->
                       IF e \in read THEN [entry[e] EXCEPT !.place = "queue"] ELSE entry[e]]
        /\ UNCHANGED <<db, age, calls, incs, cancels, req, cronSnap, toLoad, chainVars,
                       synced, scan, crashes>>

\* The process dies with everything in memory and every write that has not landed,
\* and is started again.
Crash ==
    /\ crashes < MaxCrashes
    /\ crashes' = crashes + 1
    /\ entry' = [e \in Entry |-> NoObject]
    /\ calls' = {}
    /\ incs' = [t \in Trade |-> 0]
    /\ cancels' = [t \in Trade |-> {}]
    /\ req' = [t \in Trade |-> NoReq]
    /\ cronSnap' = {}
    /\ toLoad' = BOOLEAN
    /\ scan' = Idle
    /\ UNCHANGED <<db, age, chainVars, synced>>

-----------------------------------------------------------------------------
(* The chain and the router job *)

\* The chain executes a submitted opening: it opens the trade once, or rejects it
\* with an event the back end acts on.  Openings it drops, or rejects with a reason in
\* REASON_FAIL_NOT_CARE (the trade is opened already), leave no trace here.
Mine(t) ==
    /\ t \in sent \ opened
    /\ \/ /\ opened' = opened \cup {t}
          /\ log' = Append(log, [trade |-> t, event |-> "OpenTrade"])
       \/ /\ Cardinality({i \in DOMAIN log : log[i].trade = t}) < MaxRejects
          /\ log' = Append(log, [trade |-> t, event |-> "CancelTrade"])
          /\ UNCHANGED opened
    /\ UNCHANGED <<db, age, memVars, sent, synced, scan, crashes>>

\* Where a pass may end: at the head, which another RPC node may report a little behind
\* what was processed already.
PassEnds == {to \in 0..Len(log) : synced <= to + HeadLag}

\* handleEvents up to its last await.  The job reads again a few blocks behind its
\* cursor.  A CancelTrade or FailResolve event takes its trade out of listActives
\* (findIndex: one object per event).
RouterHandle ==
    /\ scan = Idle
    /\ \E from \in 1..synced + 1, to \in PassEnds :
          /\ from <= to
          /\ from + Overlap > synced
          /\ scan' = [from |-> from, to |-> to]
          /\ LET hit(t) == {e \in Entry : e[1] = t /\ entry[e].place = "active"}
                 rejected == {t \in Trade : \E i \in from..to :
                                log[i] = [trade |-> t, event |-> "CancelTrade"]}
             IN  \E gone \in SUBSET {e \in Entry : entry[e].place = "active" /\ e[1] \in rejected} :
                    /\ \A t \in rejected : hit(t) # {} => hit(t) \cap gone # {}
                    /\ entry' = [e \in Entry |-> IF e \in gone THEN NoObject ELSE entry[e]]
    /\ UNCHANGED <<db, age, calls, incs, cancels, req, cronSnap, toLoad, chainVars,
                   synced, crashes>>

\* Event i is the last one about trade t in the slice the job writes.
IsLast(t, i) ==
    /\ i \in scan.from..scan.to
    /\ log[i].trade = t
    /\ \A j \in i + 1..scan.to : log[j].trade # t

\* updateBlocknumberSynced at the end of a pass.
CursorPastEnd == scan.to + 1
Cursor == scan.to

\* The bulkWrite of handleEvents, in event order; then the cursor moves.
RouterWrite ==
    /\ scan # Idle
    /\ db' = [t \in Trade |->
                IF \E i \in 1..scan.to : IsLast(t, i)
                THEN Record(db[t], log[CHOOSE i \in 1..scan.to : IsLast(t, i)].event)
                ELSE db[t]]
    /\ synced' = Cursor
    /\ scan' = Idle
    /\ UNCHANGED <<age, memVars, chainVars, crashes>>

\* The bulkWrite fails: allSettled hides it and the cursor moves.
RouterWriteFails ==
    /\ scan # Idle
    /\ synced' = Cursor
    /\ scan' = Idle
    /\ UNCHANGED <<db, age, memVars, chainVars, crashes>>

\* handleEvents throws before it acts on an event, catches it, and the cursor moves.
RouterThrows ==
    /\ scan = Idle
    /\ synced' \in PassEnds \ {synced}
    /\ UNCHANGED <<db, age, memVars, chainVars, scan, crashes>>

Tick(t) ==
    /\ db[t].state = "QUEUED"
    /\ age[t] < MaxDuration
    /\ age' = [age EXCEPT ![t] = @ + 1]
    /\ UNCHANGED <<db, memVars, chainVars, synced, scan, crashes>>

-----------------------------------------------------------------------------
RequestStep(t) ==
    \/ CreateTrade(t) \/ CreatePush(t)
    \/ RequestRead(t) \/ RequestWriteFails(t)
    \/ CancelApply(t) \/ CancelWrite(t)
    \/ UpdateApply(t) \/ UpdateWrite(t)

JobStep ==
    \/ CronRead \/ CronApply
    \/ ProcessTradeMarket \/ LoseMarketBatch \/ ProcessTradeLimit
    \/ SendOpenTrades \/ CallResolves \/ CallFails

LandStep(t) == LandInc(t) \/ LandExpired(t) \/ LandBusy(t)

LoadStep == \E isLimit \in BOOLEAN : LoadRead(isLimit) \/ LoadPush(isLimit)

RouterStep == RouterHandle \/ RouterWrite \/ RouterWriteFails \/ RouterThrows

Next ==
    \/ \E t \in Trade : RequestStep(t) \/ LandStep(t) \/ Mine(t) \/ Tick(t)
    \/ JobStep \/ LoadStep \/ RouterStep \/ Crash

Spec == Init /\ [][Next]_vars

(***************************************************************************)
(* Time passes, the cron jobs run, a call to the chain ends one way or the *)
(* other, and a write reaches the collection.  Nothing is assumed of the   *)
(* users, the chain, the prices a limit order waits for or the router job. *)
(***************************************************************************)
Fairness ==
    /\ WF_vars(CronRead) /\ WF_vars(CronApply)
    /\ WF_vars(ProcessTradeMarket)
    /\ WF_vars(SendOpenTrades \/ CallResolves \/ CallFails)
    /\ \A t \in Trade : WF_vars(Tick(t)) /\ WF_vars(LandExpired(t))

FairSpec == Spec /\ Fairness

-----------------------------------------------------------------------------
(* Properties *)

TypeOK ==
    /\ db \in [Trade -> TradeRecord]
    /\ age \in [Trade -> 0..MaxDuration]
    /\ entry \in [Entry -> TradeObject]
    /\ calls \subseteq Call
    /\ incs \in [Trade -> Nat]
    /\ cancels \in [Trade -> SUBSET {"expired", "busy"}]
    /\ req \in [Trade -> Request]
    /\ cronSnap \subseteq Trade
    /\ toLoad \subseteq BOOLEAN
    /\ sent \subseteq Trade
    /\ opened \subseteq Trade
    /\ log \in Seq(RouterEvent)
    /\ synced \in 0..Len(log)
    /\ scan \in [from: Nat \ {0}, to: 0..Len(log)]
    /\ crashes \in 0..MaxCrashes

\* The collection calls a trade OPENED only if the router contract opened it.
OpenedOnChain == \A t \in Trade : db[t].state = "OPENED" => t \in opened

\* A trade recorded OPENED is cancelled only by a write that does not look at the
\* state: the user's cancel or the one after the last failed attempt.  The expiry job
\* never cancels it, nor does a CancelTrade event of an earlier attempt read again, as
\* long as the head the nodes report does not go back (HeadLag = 0).
OpenedUndoneOnlyLate ==
    [][\A t \in Trade : db[t].state = "OPENED" /\ db'[t].state = "CANCELLED"
                           => db'[t].reason \in {"user", "busy"}]_vars

\* No trade object is in two openTrades transactions at once, and one that is in a
\* transaction waits in no queue: splice and filter hand each object over.
OneCallPerObject ==
    /\ \A c \in calls : \A e \in c.batch : entry[e].place = "call"
    /\ \A c, d \in calls : c # d => c.batch \cap d.batch = {}

\* call_open, in memory and in the collection, over retries, crashes and reloads.  In
\* memory an attempt counts twice (when the job takes the object and when it queues
\* again), in the collection once, and a trade both created and loaded by one process
\* is attempted twice over.
CallBounds ==
    /\ \A e \in Entry :
          entry[e].call_open <= MaximumRetry + (IF entry[e].place = "queue" THEN 1 ELSE 2)
    /\ \A t \in Trade :
          db[t].call_open + incs[t] <= MaximumRetry + (IF EarlyCreate THEN 3 ELSE 1)

\* "Blockchain is busy" is recorded only after openTradeContract was called for the
\* trade more than half of maximumRetry times, reloads included: no retry is cut short.
GivenUpOnlyAfterRetries ==
    [][\A t \in Trade : "busy" \in cancels'[t] \ cancels[t]
          => 2 * (db[t].call_open + incs[t]) >= MaximumRetry + 2]_vars

\* A trade object enters memory only for a new document or a QUEUED one: a trade that
\* was cancelled or opened, and that no array holds, never reaches openTradeContract
\* again, whatever crashes and reloads follow.
OnlyQueuedEnter ==
    [][\A e \in Entry : entry[e].place = "none" /\ entry'[e].place # "none"
                           => db[e[1]].state \in {"NONE", "QUEUED"}]_vars

\* cancelTrade refuses a trade that is in no limit queue ("Trade is OPENED"): the
\* CANCELLED write starts only for a trade that waits there.
CancelOnlyQueued ==
    [][\A t \in Trade : req[t].op = "cancelRead" /\ req'[t].op = "cancelWrite"
                           => \E e \in Queue(TRUE) : e[1] = t]_vars

\* A QUEUED trade does not stay QUEUED: whatever memory lost, the expiry job works from
\* the collection.
QueuedResolves ==
    \A t \in Trade : db[t].state = "QUEUED" ~> db[t].state # "QUEUED"

\* The retries of a market order end: from the queue or a call its object goes to
\* listActives or is dropped.
RetriesEnd ==
    \A e \in Entry :
       entry[e].place \in {"queue", "call"} /\ ~db[e[1]].isLimitOrder
          ~> entry[e].place \in {"none", "active"}

\* The collection and the contract as TradeLedger sees them.
Recorded == [t \in Trade |->
    CASE db[t].state = "NONE" -> "none"
      [] db[t].state = "QUEUED" -> "queued"
      [] db[t].state = "OPENED" -> "opened"
      [] db[t].state = "CANCELLED" -> "cancelled"]
Contract == [t \in Trade |-> IF t \in opened THEN "open" ELSE "none"]
Ledger == INSTANCE TradeLedger WITH recorded <- Recorded, contract <- Contract

\* The pipeline implements TradeLedger: whatever the users, the jobs, the router job and a
\* restart write over each other, a recorded state changes only in the ways of May.
ImplementsLedger == Ledger!Spec
=============================================================================
