----------------------------- MODULE CloseTrade -----------------------------
(***************************************************************************)
(* The closing of trades: the cron jobs excuteOptions and                  *)
(* closeTradesAnyTime with their contract calls, TradesService.closeTrade, *)
(* loadActiveTrades, and the part of handleEvents that tells an object its *)
(* option and brings the trade of a FailUnlock event back.                 *)
(*                                                                         *)
(* It begins where OpenTrade ends: each trade has an object in a call of   *)
(* openTradeContract, and the router contract opens it.  An action is the  *)
(* code between two awaits; an array is abstracted to the place of its     *)
(* objects.  retryTX is left out: it asks for a CLOSED trade without       *)
(* tx_close, and the write of CLOSED sets tx_close.                        *)
(***************************************************************************)
EXTENDS Integers, Sequences, FiniteSets

CONSTANTS
    Trade,            \* the trades
    MaxCopies,        \* bound on the objects of a trade in memory
    MaximumRetry,     \* config.maximumRetry
    QuantityTxTrade,  \* config.quantityTxTrade
    Punctual,         \* does the router job record an opening after the answer to
                      \* openTrades and after the loaders, but within 60 seconds?
    Reread,           \* does the router job read events again?
    Closers,          \* the trades whose users may close them early
    LostAnswers,      \* may the answer to a transaction that was sent be lost?
    FaultKinds,       \* what may fail: a "price" is missing, a "read" or a "write"
                      \* of the collection fails, a "tx" is never mined
    MaxPending,       \* bound on the counts and closings of a trade that are pending
                      \* when a call starts
    MaxRejects,       \* bound on the FailUnlock events of a trade
    MaxFaults,        \* bound on the failures
    MaxCrashes        \* bound on the crashes of the process

ASSUME CloseTradeAssumption ==
    /\ MaxCopies \in Nat \ {0}
    /\ MaximumRetry \in Nat
    /\ QuantityTxTrade \in Nat \ {0}
    /\ Punctual \in BOOLEAN /\ Reread \in BOOLEAN /\ LostAnswers \in BOOLEAN
    /\ Closers \subseteq Trade
    /\ FaultKinds \subseteq {"price", "read", "write", "tx"}
    /\ MaxPending \in Nat \ {0}
    /\ MaxRejects \in Nat /\ MaxFaults \in Nat /\ MaxCrashes \in Nat

VARIABLES
    db,       \* the trades collection
    age,      \* 0: opened less than 60 seconds ago, 1: more, 2: the period is over
    entry,    \* the trade objects in memory
    calls,    \* the calls of excuteOptionContract and closeTradeContract under way
    incs,     \* $inc call_close writes that have not landed
    req,      \* the closeTrade request of a trade
    toLoad,   \* the loaders that have not read
    chain,    \* the trades on the chain
    sent,     \* closings of a trade that wait to be mined
    log,      \* the router contract's events
    synced,   \* the events behind the router job's cursor
    settled,  \* the events too far behind it to be read again
    scan,     \* the pass of the router job
    faults,   \* failures so far
    crashes   \* crashes so far

memVars    == <<entry, calls, incs, req, toLoad>>
chainVars  == <<chain, sent, log>>
routerVars == <<synced, settled, scan>>
bounded    == <<faults, crashes>>
vars == <<db, age, memVars, chainVars, routerVars, bounded>>

Entry == Trade \X (1..MaxCopies)
Place == {"none", "opening", "loading", "found", "active", "anytime", "call"}

TradeRecord == [state: {"QUEUED", "OPENED", "CLOSED"}, closing: BOOLEAN, call_close: Nat]
TradeObject == [place: Place, option: BOOLEAN, closing: BOOLEAN, call_close: Nat]
Call        == [kind: {"execute", "close"}, batch: SUBSET Entry, sent: BOOLEAN]
RouterEvent == [trade: Trade, event: {"OpenTrade", "FailUnlock"}]

NoObject == [place |-> "none", option |-> FALSE, closing |-> FALSE, call_close |-> 0]
Idle     == [pc |-> "idle", from |-> 1, to |-> 0]

Opening(t) == [trade |-> t, event |-> "OpenTrade"]
Failing(t) == [trade |-> t, event |-> "FailUnlock"]

Min2(a, b) == IF a < b THEN a ELSE b

At(place) == {e \in Entry : entry[e].place = place}
Objects(t) == {e \in Entry : e[1] = t /\ entry[e].place # "none"}

\* A job takes the first quantityTxTrade objects it may take.
Batches(list) ==
    {b \in SUBSET list : Cardinality(b) = Min2(QuantityTxTrade, Cardinality(list))} \ {{}}

\* The objects es get what object o of theirs becomes, their places included.
Updated(es, New(_)) == entry' = [e \in Entry |-> IF e \in es THEN New(entry[e]) ELSE entry[e]]

MovedTo(place, o) == [o EXCEPT !.place = place]
Dropped(o) == NoObject

\* The least free copy of a trade in ts becomes an object made of its document.
HasRoom(ts) == \A t \in ts : \E k \in 1..MaxCopies : entry[<<t, k>>].place = "none"
AddFromDb(ts, place, option) ==
    /\ HasRoom(ts)
    /\ entry' = [e \in Entry |->
          IF /\ e[1] \in ts /\ entry[e].place = "none"
             /\ \A k \in 1..e[2] - 1 : entry[<<e[1], k>>].place # "none"
          THEN [place |-> place, option |-> option, closing |-> db[e[1]].closing,
                call_close |-> db[e[1]].call_close]
          ELSE entry[e]]

\* May a failed object be tried again, may the trade of a FailUnlock event, may a loader
\* take a trade back?
MayRetryStrictly(n) == n < MaximumRetry
MayRetry(n) == n <= MaximumRetry
BringBackFirst(r) == r.state # "QUEUED" /\ r.call_close = 0
BringBack(r) == r.state # "QUEUED" /\ r.call_close <= MaximumRetry
LoadableNew(r) == r.state = "OPENED" /\ r.call_close = 0
Loadable(r) == r.state = "OPENED" /\ r.call_close < MaximumRetry

Fault(kind) ==
    /\ kind \in FaultKinds
    /\ faults < MaxFaults
    /\ faults' = faults + 1
    /\ UNCHANGED crashes

Init ==
    /\ db = [t \in Trade |-> [state |-> "QUEUED", closing |-> FALSE, call_close |-> 0]]
    /\ age = [t \in Trade |-> 0]
    /\ entry = [e \in Entry |-> IF e[2] = 1 THEN MovedTo("opening", NoObject) ELSE NoObject]
    /\ calls = {}
    /\ incs = [t \in Trade |-> 0]
    /\ req = [t \in Trade |-> "idle"]
    /\ toLoad = {}
    /\ chain = [t \in Trade |-> "sent"]
    /\ sent = [t \in Trade |-> 0]
    /\ log = <<>>
    /\ synced = 0
    /\ settled = 0
    /\ scan = Idle
    /\ faults = 0
    /\ crashes = 0

-----------------------------------------------------------------------------
(* The opening: the end of openTradeContract, the chain, the clock *)

OpenResolves ==
    \E e \in At("opening") :
       /\ Updated({e}, LAMBDA o : MovedTo("active", o))
       /\ UNCHANGED <<db, age, calls, incs, req, toLoad, chainVars, routerVars, bounded>>

MineOpen(t) ==
    /\ chain[t] = "sent"
    /\ chain' = [chain EXCEPT ![t] = "open"]
    /\ log' = Append(log, Opening(t))
    /\ UNCHANGED <<db, age, memVars, sent, routerVars, bounded>>

Tick(t) ==
    /\ age[t] < 2
    /\ Punctual => db[t].state # "QUEUED"
    /\ age' = [age EXCEPT ![t] = @ + 1]
    /\ UNCHANGED <<db, memVars, chainVars, routerVars, bounded>>

-----------------------------------------------------------------------------
(* closeTrade *)

CloseRead(t) ==
    /\ t \in Closers
    /\ req[t] = "idle"
    /\ db[t].state = "OPENED"
    /\ age[t] >= 1
    /\ req' = [req EXCEPT ![t] = "read"]
    /\ UNCHANGED <<db, age, entry, calls, incs, toLoad, chainVars, routerVars, bounded>>

\* The objects in listActives move, but the splice inside forEach may skip the second of
\* two neighbours.  Without one the request fails.
CloseMoveUnspliced(t) ==
    LET mine == {e \in At("active") : e[1] = t}
    IN  /\ req[t] = "read"
        /\ IF mine = {}
           THEN /\ req' = [req EXCEPT ![t] = "idle"]
                /\ UNCHANGED entry
           ELSE /\ req' = [req EXCEPT ![t] = "write"]
                /\ \E e \in Entry :
                      /\ e[1] = t /\ entry[e].place = "none"
                      /\ \E m \in mine :
                            entry' = [entry EXCEPT ![e] =
                               [entry[m] EXCEPT !.place = "anytime", !.closing = TRUE]]
        /\ UNCHANGED <<db, age, calls, incs, toLoad, chainVars, routerVars, bounded>>
CloseMove(t) ==
    LET mine == {e \in At("active") : e[1] = t}
    IN  /\ req[t] = "read"
        /\ IF mine = {}
           THEN /\ req' = [req EXCEPT ![t] = "idle"]
                /\ UNCHANGED entry
           ELSE /\ req' = [req EXCEPT ![t] = "write"]
                /\ \E moved \in SUBSET mine :
                      /\ 2 * Cardinality(moved) >= Cardinality(mine)
                      /\ Updated(moved, LAMBDA o : [o EXCEPT !.place = "anytime", !.closing = TRUE])
        /\ UNCHANGED <<db, age, calls, incs, toLoad, chainVars, routerVars, bounded>>

\* The findOneAndUpdate, whose filter does not name the state.
CloseWrite(t) ==
    /\ req[t] = "write"
    /\ req' = [req EXCEPT ![t] = "idle"]
    /\ \/ db' = [db EXCEPT ![t].closing = TRUE] /\ UNCHANGED bounded
       \/ Fault("write") /\ UNCHANGED db
    /\ UNCHANGED <<age, entry, calls, incs, toLoad, chainVars, routerVars>>

-----------------------------------------------------------------------------
(* excuteOptions, closeTradesAnyTime and their contract calls *)

\* The objects leave their list for one transaction; the write that counts the call is not
\* awaited.
StartCallUncounted(kind, batch) ==
    /\ \A e \in batch : incs[e[1]] + sent[e[1]] < MaxPending
    /\ Updated(batch, LAMBDA o : [o EXCEPT !.place = "call", !.call_close = @ + 1])
    /\ calls' = calls \cup {[kind |-> kind, batch |-> batch, sent |-> FALSE]}
    /\ UNCHANGED <<db, age, incs, req, toLoad, chainVars, routerVars, bounded>>
StartCall(kind, batch) ==
    /\ \A e \in batch : incs[e[1]] + sent[e[1]] < MaxPending
    /\ Updated(batch, LAMBDA o : [o EXCEPT !.place = "call", !.call_close = @ + 1])
    /\ calls' = calls \cup {[kind |-> kind, batch |-> batch, sent |-> FALSE]}
    /\ incs' = [t \in Trade |-> incs[t] + Cardinality({e \in batch : e[1] = t})]
    /\ UNCHANGED <<db, age, req, toLoad, chainVars, routerVars, bounded>>

\* A pair without a price makes it throw before it changes anything.
ExcuteOptions ==
    \E batch \in Batches({e \in At("active") : age[e[1]] = 2}) : StartCall("execute", batch)

CloseTradesAnyTime == \E batch \in Batches(At("anytime")) : StartCall("close", batch)

\* Here the missing price makes it throw after the splice: the objects are gone.
LoseAnyTimeBatch ==
    \E batch \in Batches(At("anytime")) :
       /\ Updated(batch, Dropped)
       /\ Fault("price")
       /\ UNCHANGED <<db, age, calls, incs, req, toLoad, chainVars, routerVars>>

\* The transaction reaches a node.  closeAnytime cannot be encoded without the option id;
\* executeOptions is sent with option 0 for it, which closes nothing.
SendCall ==
    \E c \in calls :
       /\ ~c.sent
       /\ c.kind = "close" => \A e \in c.batch : entry[e].option
       /\ calls' = (calls \ {c}) \cup {[c EXCEPT !.sent = TRUE]}
       /\ sent' = [t \in Trade |->
             sent[t] + Cardinality({e \in c.batch : e[1] = t /\ entry[e].option})]
       /\ UNCHANGED <<db, age, entry, incs, req, toLoad, chain, log, routerVars, bounded>>

CallResolves ==
    \E c \in calls :
       /\ c.sent
       /\ calls' = calls \ {c}
       /\ Updated(c.batch, Dropped)
       /\ UNCHANGED <<db, age, incs, req, toLoad, chainVars, routerVars, bounded>>

\* Signing, the gas estimate or sending failed, or the answer was lost: what may be tried
\* again goes back to its list, the rest is forgotten.
CallFails ==
    \E c \in calls :
       /\ c.sent => LostAnswers
       /\ calls' = calls \ {c}
       /\ Updated(c.batch, LAMBDA o :
             IF MayRetry(o.call_close)
             THEN [o EXCEPT !.place = IF c.kind = "execute" THEN "active" ELSE "anytime",
                            !.call_close = @ + 1]
             ELSE NoObject)
       /\ UNCHANGED <<db, age, incs, req, toLoad, chainVars, routerVars, bounded>>

LandInc(t) ==
    /\ incs[t] > 0
    /\ incs' = [incs EXCEPT ![t] = @ - 1]
    /\ db' = [db EXCEPT ![t].call_close = @ + 1]
    /\ UNCHANGED <<age, entry, calls, req, toLoad, chainVars, routerVars, bounded>>

-----------------------------------------------------------------------------
(* The chain and the block job *)

\* A closing is executed: the trade closes, or a FailUnlock event says why not.  A reason
\* in REASON_FAIL_NOT_CARE, given for a closed trade, leaves no trace.
MineClose(t) ==
    /\ sent[t] > 0
    /\ sent' = [sent EXCEPT ![t] = @ - 1]
    /\ \/ chain' = [chain EXCEPT ![t] = "closed"] /\ UNCHANGED log
       \/ /\ Cardinality({i \in DOMAIN log : log[i] = Failing(t)}) < MaxRejects
          /\ log' = Append(log, Failing(t))
          /\ UNCHANGED chain
    /\ UNCHANGED <<db, age, memVars, routerVars, bounded>>

LoseTx(t) ==
    /\ sent[t] > 0
    /\ sent' = [sent EXCEPT ![t] = @ - 1]
    /\ Fault("tx")
    /\ UNCHANGED <<db, age, memVars, chain, log, routerVars>>

\* JobSyncBlockService records the closing; by then the OpenTrade event is not read again
\* (ClosedStaysClosed of EventSync).
RecordClose(t) ==
    /\ chain[t] = "closed"
    /\ db[t].state = "OPENED"
    /\ \A i \in DOMAIN log : log[i] = Opening(t) => i <= IF Reread THEN settled ELSE synced
    /\ db' = [db EXCEPT ![t].state = "CLOSED"]
    /\ UNCHANGED <<age, memVars, chainVars, routerVars, bounded>>

-----------------------------------------------------------------------------
(* The router job *)

\* Where the cursor is after a pass.
PastEnd(s) == s.to + 1
End(s) == s.to

Opens(s) == {t \in Trade : \E i \in s.from..s.to : log[i] = Opening(t)}
Fails(s) == {t \in Trade : \E i \in s.from..s.to : log[i] = Failing(t)}

\* The loop of handleEvents: findIndex finds one object in listActives, if any.
ToldNobody(ts) == UNCHANGED entry
Told(ts) ==
    \E told \in SUBSET {e \in At("active") : e[1] \in ts} :
       /\ \A t \in ts :
             LET listed == {e \in At("active") : e[1] = t}
             IN  listed # {} => Cardinality(listed \cap told) = 1
       /\ Updated(told, LAMBDA o : [o EXCEPT !.option = TRUE])

\* Where a pass may begin: some blocks behind the cursor.
ScanStartsAnywhere == 1 .. synced + 1
ScanStarts == (IF Reread THEN settled ELSE synced) + 1 .. synced + 1

RouterScan ==
    /\ scan = Idle
    /\ Punctual => toLoad = {}
    /\ \E from \in ScanStarts :
          LET pass == [pc |-> "write", from |-> from, to |-> Len(log)]
          IN  /\ from <= Len(log)
              /\ Punctual => \A e \in At("opening") : e[1] \notin Opens(pass)
              /\ Told(Opens(pass))
              /\ scan' = IF Fails(pass) = {} THEN pass ELSE [pass EXCEPT !.pc = "find"]
    /\ UNCHANGED <<db, age, calls, incs, req, toLoad, chainVars, synced, settled, bounded>>

\* getAllTradesClosed reads the trades of the FailUnlock events, whatever their state, ...
RouterFind ==
    /\ scan.pc = "find"
    /\ AddFromDb({t \in Fails(scan) : BringBack(db[t])}, "found", TRUE)
    /\ scan' = [scan EXCEPT !.pc = "push"]
    /\ UNCHANGED <<db, age, calls, incs, req, toLoad, chainVars, synced, settled, bounded>>

\* ... and they join the list that fits.
RouterPush ==
    /\ scan.pc = "push"
    /\ Updated(At("found"), LAMBDA o : MovedTo(IF o.closing THEN "anytime" ELSE "active", o))
    /\ scan' = [scan EXCEPT !.pc = "write"]
    /\ UNCHANGED <<db, age, calls, incs, req, toLoad, chainVars, synced, settled, bounded>>

\* The bulkWrite, perhaps a failure that allSettled hides; the cursor moves.
RouterWrite ==
    /\ scan.pc = "write"
    /\ \/ /\ db' = [t \in Trade |->
                      IF t \in Opens(scan) THEN [db[t] EXCEPT !.state = "OPENED"] ELSE db[t]]
          /\ UNCHANGED bounded
       \/ Fault("write") /\ UNCHANGED db
    /\ synced' = End(scan)
    /\ scan' = Idle
    /\ UNCHANGED <<age, memVars, chainVars, settled>>

\* handleEvents throws at its first read or in getAllTradesClosed: the cursor moves.
RouterThrows ==
    /\ \/ scan = Idle /\ synced < Len(log) /\ synced' = Len(log)
       \/ scan.pc = "find" /\ synced' = End(scan)
    /\ scan' = Idle
    /\ Fault("read")
    /\ UNCHANGED <<db, age, memVars, chainVars, settled>>

\* Blocks without events pass: what is 10 blocks behind is not read again.
CursorMoves ==
    /\ Reread
    /\ scan = Idle
    /\ settled < synced
    /\ settled' \in settled + 1 .. synced
    /\ UNCHANGED <<db, age, memVars, chainVars, synced, scan, bounded>>

-----------------------------------------------------------------------------
(* Start-up *)

\* loadTradesMarket and loadTradesLimitOrder take a QUEUED trade back to where its opening
\* is tried again, loadActiveTrades reads the OPENED ones, ...
LoadRead(kind) ==
    /\ kind \in toLoad
    /\ toLoad' = toLoad \ {kind}
    /\ IF kind = "opening"
       THEN AddFromDb({t \in Trade : db[t].state = "QUEUED"}, "opening", FALSE)
       ELSE AddFromDb({t \in Trade : Loadable(db[t])}, "loading", TRUE)
    /\ UNCHANGED <<db, age, calls, incs, req, chainVars, routerVars, bounded>>

\* ... and pushes them.
LoadPush ==
    /\ At("loading") # {}
    /\ Updated(At("loading"), LAMBDA o : MovedTo("active", o))
    /\ UNCHANGED <<db, age, calls, incs, req, toLoad, chainVars, routerVars, bounded>>

Crash ==
    /\ crashes < MaxCrashes
    /\ crashes' = crashes + 1
    /\ entry' = [e \in Entry |-> NoObject]
    /\ calls' = {}
    /\ incs' = [t \in Trade |-> 0]
    /\ req' = [t \in Trade |-> "idle"]
    /\ toLoad' = {"opening", "active"}
    /\ scan' = Idle
    /\ UNCHANGED <<db, age, chainVars, synced, settled, faults>>

-----------------------------------------------------------------------------
UserStep(t) == CloseRead(t) \/ CloseMove(t) \/ CloseWrite(t)
JobStep == ExcuteOptions \/ CloseTradesAnyTime \/ LoseAnyTimeBatch
CallStep == SendCall \/ CallResolves \/ CallFails
RouterStep == RouterScan \/ RouterFind \/ RouterPush \/ RouterWrite \/ RouterThrows
LoadStep == LoadPush \/ \E kind \in {"opening", "active"} : LoadRead(kind)
ChainStep(t) == MineOpen(t) \/ MineClose(t)

Next ==
    \/ \E t \in Trade :
          \/ UserStep(t) \/ ChainStep(t) \/ LoseTx(t)
          \/ RecordClose(t) \/ LandInc(t) \/ Tick(t)
    \/ OpenResolves \/ JobStep \/ CallStep \/ RouterStep \/ CursorMoves \/ LoadStep \/ Crash

Spec == Init /\ [][Next]_vars

\* Time passes, the cron jobs run and their calls end, the un-awaited write lands, the
\* chain mines, the loaders read, the router job works.  Nothing is assumed of the users,
\* nor that an event ever ceases to be read again.
FairSpec ==
    /\ Spec
    /\ WF_vars(OpenResolves) /\ WF_vars(ExcuteOptions) /\ WF_vars(CloseTradesAnyTime)
    /\ WF_vars(CallStep) /\ WF_vars(RouterStep) /\ WF_vars(LoadStep)
    /\ \A t \in Trade : WF_vars(ChainStep(t)) /\ WF_vars(LandInc(t)) /\ WF_vars(Tick(t))

-----------------------------------------------------------------------------
TypeOK ==
    /\ db \in [Trade -> TradeRecord]
    /\ age \in [Trade -> 0..2]
    /\ entry \in [Entry -> TradeObject]
    /\ calls \subseteq Call
    /\ incs \in [Trade -> Nat]
    /\ req \in [Trade -> {"idle", "read", "write"}]
    /\ toLoad \subseteq {"opening", "active"}
    /\ chain \in [Trade -> {"sent", "open", "closed"}]
    /\ sent \in [Trade -> Nat]
    /\ log \in Seq(RouterEvent)
    /\ synced \in 0..Len(log)
    /\ settled \in 0..synced
    /\ scan \in [pc: {"idle", "find", "push", "write"}, from: Nat \ {0}, to: 0..Len(log)]
    /\ faults \in 0..MaxFaults
    /\ crashes \in 0..MaxCrashes

\* FailUnlock events about t that have not brought it back yet.
Unread(t) ==
    {i \in DOMAIN log : /\ log[i] = Failing(t)
                        /\ i > IF scan.pc \in {"push", "write"} THEN End(scan) ELSE synced}

\* The trades that are closed, or were attempted more than half of maximumRetry times.
Done == {t \in Trade : \/ chain[t] = "closed"
                       \/ 2 * (db[t].call_close + incs[t]) >= MaximumRetry + 2}

\* A trade that is open is on its way to be closed: it has an object, or a closing that
\* waits to be mined, or a FailUnlock event that will bring it back, until it was attempted
\* more than half of maximumRetry times.
NoTradeForgotten ==
    Punctual /\ faults = 0 /\ crashes = 0 =>
       \A t \in Trade :
          chain[t] = "open" /\ t \notin Done =>
             Objects(t) # {} \/ sent[t] > 0 \/ Unread(t) # {}

\* And it is so in one way only: no trade is submitted twice over, as long as no event is
\* read again and no answer is lost.
OneAttemptAtATime ==
    ~Reread /\ ~LostAnswers /\ crashes = 0 =>
       \A t \in Trade :
          LET away == {e \in Objects(t) : \E c \in calls : c.sent /\ e \in c.batch}
          IN  Cardinality(Objects(t) \ away) + sent[t] + Cardinality(Unread(t)) <= 1

\* An object that waits for closeAnytime, or is in it, knows its option: one that did not
\* would make the whole batch fail.
EarlyCloseHasOption ==
    Punctual => \A e \in Entry :
       entry[e].closing /\ entry[e].place \in {"anytime", "call"} => entry[e].option

\* A recorded opening leads to a closing on the chain, or was attempted often enough.
OpenedCloses ==
    \A t \in Trade : db[t].state = "OPENED" ~> t \in Done

\* The attempts for a closed trade end, although its FailUnlock events may be read again
\* for ever.
AttemptsEnd ==
    \A t \in Trade : <>[](chain[t] = "closed" => Objects(t) = {})

\* The collection and the contract as TradeLedger sees them.
Recorded == [t \in Trade |-> [QUEUED |-> "queued", OPENED |-> "opened",
                              CLOSED |-> "closed"][db[t].state]]
Contract == [t \in Trade |-> [sent |-> "none", open |-> "open", closed |-> "closed"][chain[t]]]
Ledger == INSTANCE TradeLedger WITH recorded <- Recorded, contract <- Contract

\* The closing pipeline implements TradeLedger: no event that is read again, no retry and
\* no restart records an opening after the closing, or a closing the chain has not seen.
ImplementsLedger == Ledger!Spec
=============================================================================
