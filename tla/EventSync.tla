----------------------------- MODULE EventSync -----------------------------
(***************************************************************************)
(* The two jobs that read the chain: JobSyncRouterService, which records   *)
(* the openings of trades from the router contract's events, and           *)
(* JobSyncBlockService, which records their closings from the logs of      *)
(* every block up to the cursor of the first.                              *)
(*                                                                         *)
(* A block says at most one thing about the trades: that one was opened,   *)
(* or closed (an Exercise or Expire log).  An action is the code between   *)
(* two awaits.  The history of the router job is left out: the key it      *)
(* stores ends in a brace the key it looks up does not have, so it never   *)
(* filters an event.                                                       *)
(***************************************************************************)
EXTENDS Integers, Sequences, FiniteSets

CONSTANTS
    Trade,          \* the trades, each with its queueId and its option
    Pass,           \* the runs of the block job's start() that may be under way
    RouterWindow,   \* blocks the router job reads at once (1000)
    RouterOverlap,  \* blocks the router job reads again (10)
    BlockWindow,    \* blocks the block job reads at once (30)
    BlockOverlap,   \* blocks the block job reads again (5)
    StartBack,      \* how far back the block job begins (50)
    Lag,            \* how far behind the newest block an RPC node may be
    MaxLogs,        \* blocks whose logs fit in one answer of an RPC node
    MinLife,        \* blocks between the opening of a trade and its closing
    SlowReads,      \* may a cursor read by the router's cron job be answered late?
    FaultKinds,     \* what may fail: "rpc" calls, "read"s and "write"s of a collection
    MaxHead,        \* bound on the blocks mined
    MaxFaults,      \* bound on the failures
    MaxCrashes      \* bound on the crashes of the process

ASSUME EventSyncAssumption ==
    /\ RouterWindow \in Nat /\ RouterOverlap \in Nat
    /\ BlockWindow \in Nat /\ BlockOverlap \in Nat /\ StartBack \in Nat
    /\ Lag \in Nat /\ MaxLogs \in Nat /\ MinLife \in Nat \ {0}
    /\ SlowReads \in BOOLEAN
    /\ FaultKinds \subseteq {"rpc", "read", "write"}
    /\ MaxHead \in Nat /\ MaxFaults \in Nat /\ MaxCrashes \in Nat

VARIABLES
    chain,        \* the blocks: what each one says about the trades
    trades,       \* the state of each trade in the collection
    routerSynced, \* contracts.blocknumber_synced of the router
    blockSynced,  \* blocks.blocknumber_synced
    history,      \* histories_block: the closings recorded as handled, by block
    knownHead,    \* EthersService.currentBlockNumber
    tick,         \* the cursor the router's cron job read, before it tests isRunning
    router,       \* the router job's pass
    isRunning,    \* JobSyncBlockService.isRunning
    pass,         \* the block job's passes
    window,       \* HelperService.syncBlock
    faults,       \* failures so far
    crashes       \* crashes so far

routerVars == <<tick, router>>
blockVars  == <<isRunning, pass, window>>
bounded    == <<faults, crashes>>
vars == <<chain, trades, routerSynced, blockSynced, history, knownHead,
          routerVars, blockVars, bounded>>

Log   == [event: {"open", "close"}, trade: Trade]
NoLog == [event |-> "none"]
Open(t)  == [event |-> "open", trade |-> t]
Close(t) == [event |-> "close", trade |-> t]

RouterPass == [pc: {"idle", "query", "handle", "advance"}, cursor: Int, to: Int, head: Int,
               events: SUBSET Nat]
BlockPass  == [pc: {"idle", "start", "router", "logs", "lookup", "trades", "write", "left"},
               cursor: Int, bound: Int, to: Int, logs: SUBSET Nat, found: SUBSET Trade,
               writing: SUBSET {"history", "bulk"}]

NoRouterPass == [pc |-> "idle", cursor |-> 0, to |-> 0, head |-> 0, events |-> {}]
NoPass == [pc |-> "idle", cursor |-> 0, bound |-> 0, to |-> 0, logs |-> {}, found |-> {},
           writing |-> {}]

\* 0 stands for a head that is not known yet: it is below every cursor.
NoHead == -(RouterOverlap + StartBack + 1)

Min2(a, b) == IF a < b THEN a ELSE b
Max2(a, b) == IF a > b THEN a ELSE b

\* The heights an RPC node may have reached.
Heights == {h \in Len(chain) - Lag .. Len(chain) : h >= 0}

\* The blocks from..to that a node of height h serves and that satisfy P.
OpensIn(from, to, h)  == {b \in DOMAIN chain : /\ from <= b /\ b <= to /\ b <= h
                                               /\ chain[b].event = "open"}
ClosesIn(from, to, h) == {b \in DOMAIN chain : /\ from <= b /\ b <= to /\ b <= h
                                               /\ chain[b].event = "close"}

\* Where a pass begins: some blocks behind the cursor.  Where it ends: some blocks on,
\* not after the head, but not before it began.
PassBeginAtCursor(cursor, overlap) == cursor
PassBeginFarBack(cursor, overlap) == cursor - 2 * overlap
PassBegin(cursor, overlap) == cursor - overlap
PassEndAnywhere(cursor, size, head, overlap) == Max2(cursor + size, PassBegin(cursor, overlap))
PassEnd(cursor, size, head, overlap) ==
    Max2(Min2(cursor + size, head), PassBegin(cursor, overlap))

Fault(kind) ==
    /\ kind \in FaultKinds
    /\ faults < MaxFaults
    /\ faults' = faults + 1
    /\ UNCHANGED crashes

Init ==
    /\ chain = <<>>
    /\ trades = [t \in Trade |-> "QUEUED"]
    /\ routerSynced = 0
    /\ blockSynced = -StartBack
    /\ history = {}
    /\ knownHead = NoHead
    /\ tick = {}
    /\ router = NoRouterPass
    /\ isRunning = FALSE
    /\ pass = [p \in Pass |-> NoPass]
    /\ window = BlockWindow
    /\ faults = 0
    /\ crashes = 0

-----------------------------------------------------------------------------
(* The chain and the cached head *)

Mine ==
    /\ Len(chain) < MaxHead
    /\ \/ chain' = Append(chain, NoLog)
       \/ \E t \in Trade :
             /\ \A b \in DOMAIN chain : chain[b] # Open(t)
             /\ chain' = Append(chain, Open(t))
       \/ \E t \in Trade :
             /\ \E b \in DOMAIN chain : chain[b] = Open(t) /\ b + MinLife <= Len(chain) + 1
             /\ \A b \in DOMAIN chain : chain[b] # Close(t)
             /\ chain' = Append(chain, Close(t))
    /\ UNCHANGED <<trades, routerSynced, blockSynced, history, knownHead,
                   routerVars, blockVars, bounded>>

\* The cron job getCurrentBlockNumber.
RefreshHead ==
    /\ knownHead' \in Heights
    /\ knownHead' # knownHead
    /\ UNCHANGED <<chain, trades, routerSynced, blockSynced, history,
                   routerVars, blockVars, bounded>>

-----------------------------------------------------------------------------
(* The router job *)

\* getEvents up to queryFilter, for a pass that begins at the cursor.
RouterBegin(cursor) ==
    IF PassBegin(cursor, RouterOverlap) > knownHead THEN NoRouterPass
    ELSE [pc |-> "query", cursor |-> cursor, head |-> knownHead, events |-> {},
          to |-> PassEnd(cursor, RouterWindow, knownHead, RouterOverlap)]

\* start() reads the contract before it tests isRunning, ...  With SlowReads a pass may
\* move the cursor and end meanwhile.
RouterTick ==
    /\ tick = {}
    /\ SlowReads \/ router.pc = "idle"
    /\ tick' = {routerSynced}
    /\ UNCHANGED <<chain, trades, routerSynced, blockSynced, history, knownHead,
                   router, blockVars, bounded>>

\* ... and runs with what it read.
RouterStart ==
    /\ \E cursor \in tick :
          router' = IF router.pc = "idle" THEN RouterBegin(cursor) ELSE router
    /\ tick' = {}
    /\ UNCHANGED <<chain, trades, routerSynced, blockSynced, history, knownHead,
                   blockVars, bounded>>

RouterAnswer ==
    /\ router.pc = "query"
    /\ \E h \in Heights :
          router' = [router EXCEPT !.pc = "handle",
                        !.events = OpensIn(PassBegin(router.cursor, RouterOverlap), router.to, h)]
    /\ UNCHANGED <<chain, trades, routerSynced, blockSynced, history, knownHead,
                   tick, blockVars, bounded>>

\* queryFilter or the write of the cursor fails: start() catches and the next one tries.
RouterFails ==
    /\ \/ router.pc = "query" /\ Fault("rpc")
       \/ router.pc = "advance" /\ Fault("write")
    /\ router' = NoRouterPass
    /\ UNCHANGED <<chain, trades, routerSynced, blockSynced, history, knownHead,
                   tick, blockVars>>

\* handleEvents: an OpenTrade event is recorded whatever the state of the trade.
RecordOpens(events) ==
    trades' = [t \in Trade |->
                 IF \E b \in events : chain[b].trade = t THEN "OPENED" ELSE trades[t]]

RouterHandle ==
    /\ router.pc = "handle"
    /\ RecordOpens(router.events)
    /\ router' = [router EXCEPT !.pc = "advance"]
    /\ UNCHANGED <<chain, routerSynced, blockSynced, history, knownHead,
                   tick, blockVars, bounded>>

\* handleEvents fails, or its bulkWrite does, perhaps half done: the error is caught, the
\* pass goes on.
RouterLoses ==
    /\ router.pc = "handle"
    /\ router.events # {}
    /\ \E done \in SUBSET router.events : RecordOpens(done)
    /\ \E kind \in {"read", "write"} : Fault(kind)
    /\ router' = [router EXCEPT !.pc = "advance"]
    /\ UNCHANGED <<chain, routerSynced, blockSynced, history, knownHead, tick, blockVars>>

\* The cursor moves, and excuteSync goes on while the pass ended before the head.
RouterAdvance ==
    /\ router.pc = "advance"
    /\ routerSynced' = router.to + 1
    /\ router' = IF router.to < router.head THEN RouterBegin(router.to + 1) ELSE NoRouterPass
    /\ UNCHANGED <<chain, trades, blockSynced, history, knownHead, tick, blockVars, bounded>>

-----------------------------------------------------------------------------
(* The block job *)

\* A start() of the block job ends, in its finally block.
EndPassStillRunning(p) ==
    /\ UNCHANGED isRunning
    /\ pass' = [pass EXCEPT ![p] = NoPass]
EndPass(p) ==
    /\ isRunning' = FALSE
    /\ pass' = [pass EXCEPT ![p] = NoPass]

BlockTick(p) ==
    /\ pass[p].pc = "idle"
    /\ pass' = [pass EXCEPT ![p] = [NoPass EXCEPT !.pc = "start", !.cursor = blockSynced]]
    /\ UNCHANGED <<chain, trades, routerSynced, blockSynced, history, knownHead,
                   routerVars, isRunning, window, bounded>>

\* The test of isRunning stands inside the try block: the start() that finds it set
\* resets it on its way out.
BlockStart(p) ==
    /\ pass[p].pc = "start"
    /\ IF isRunning
       THEN EndPass(p)
       ELSE /\ isRunning' = TRUE
            /\ pass' = [pass EXCEPT ![p].pc = "router"]
    /\ UNCHANGED <<chain, trades, routerSynced, blockSynced, history, knownHead,
                   routerVars, window, bounded>>

\* getLogs up to the RPC call: the router job's cursor bounds the pass.  When the pass
\* would begin beyond it, the error thrown is the one that shrinks the window.
BoundAtHead == knownHead
Bound == routerSynced
NotShrunk(w) == w
ShrunkByTen(w) == w - 10
Shrunk(w) == w \div 3
BlockRange(p) ==
    /\ pass[p].pc = "router"
    /\ IF PassBegin(pass[p].cursor, BlockOverlap) > Bound
       THEN EndPass(p) /\ window' = Shrunk(window)
       ELSE /\ pass' = [pass EXCEPT ![p].pc = "logs", ![p].bound = Bound,
                 ![p].to = PassEnd(pass[p].cursor, window, Bound, BlockOverlap)]
            /\ UNCHANGED <<isRunning, window>>
    /\ UNCHANGED <<chain, trades, routerSynced, blockSynced, history, knownHead,
                   routerVars, bounded>>

\* The answer: too many logs, or the logs of the blocks the node has.
BlockLogs(p) ==
    /\ pass[p].pc = "logs"
    /\ \E h \in Heights :
          LET from == PassBegin(pass[p].cursor, BlockOverlap)
              served == {b \in DOMAIN chain : from <= b /\ b <= pass[p].to /\ b <= h}
          IN  IF Cardinality(served) > MaxLogs
              THEN EndPass(p) /\ window' = Shrunk(window)
              ELSE /\ pass' = [pass EXCEPT ![p].pc = "lookup",
                                  ![p].logs = ClosesIn(from, pass[p].to, h)]
                   /\ window' = BlockWindow
                   /\ UNCHANGED isRunning
    /\ UNCHANGED <<chain, trades, routerSynced, blockSynced, history, knownHead,
                   routerVars, bounded>>

\* handleLogs: the closings that are not in the history, ...
BlockLookup(p) ==
    /\ pass[p].pc = "lookup"
    /\ pass' = [pass EXCEPT ![p].pc = "trades", ![p].logs = @ \ history]
    /\ UNCHANGED <<chain, trades, routerSynced, blockSynced, history, knownHead,
                   routerVars, isRunning, window, bounded>>

\* ... the trades that are known by their option, which the router job records with their
\* opening, and the two writes that start.
AnyTrade(t) == TRUE
HasOption(t) == trades[t] # "QUEUED"
BlockFind(p) ==
    LET found == {t \in Trade : /\ HasOption(t)
                                /\ \E b \in pass[p].logs : chain[b].trade = t}
    IN  /\ pass[p].pc = "trades"
        /\ pass' = [pass EXCEPT ![p].pc = "write", ![p].found = found,
                       ![p].writing = {w \in {"history", "bulk"} :
                          IF w = "history" THEN pass[p].logs # {} ELSE found # {}}]
        /\ UNCHANGED <<chain, trades, routerSynced, blockSynced, history, knownHead,
                       routerVars, isRunning, window, bounded>>

\* Write w of pass p ends.  When it failed Promise.all rejects at once and the pass is
\* over, while the other write may still be under way.
WriteEnds(p, w, failed) ==
    LET rest == pass[p].writing \ {w}
        over == failed \/ pass[p].pc = "left"
    IN  /\ pass' = [pass EXCEPT ![p] =
                      IF over /\ rest = {} THEN NoPass
                      ELSE [@ EXCEPT !.writing = rest, !.pc = IF over THEN "left" ELSE "write"]]
        /\ isRunning' = (isRunning /\ ~(failed /\ pass[p].pc = "write"))

\* saveHistoriesBlock: the unique key refuses what another pass has saved, and the
\* insertMany stops there.
LandHistory(p) ==
    LET logs == pass[p].logs
        new  == {b \in logs : \A c \in logs : c <= b => c \notin history}
    IN  /\ "history" \in pass[p].writing
        /\ history' = history \cup new
        /\ WriteEnds(p, "history", new # logs)
        /\ UNCHANGED <<chain, trades, routerSynced, blockSynced, knownHead,
                       routerVars, window, bounded>>

\* The bulkWrite: it names the option only, not the state.
RecordCloses(found) ==
    trades' = [t \in Trade |-> IF t \in found THEN "CLOSED" ELSE trades[t]]

LandBulk(p) ==
    /\ "bulk" \in pass[p].writing
    /\ RecordCloses(pass[p].found)
    /\ WriteEnds(p, "bulk", FALSE)
    /\ UNCHANGED <<chain, routerSynced, blockSynced, history, knownHead,
                   routerVars, window, bounded>>

\* A write fails, perhaps half done, or only its answer is lost.
BlockWriteFails(p) ==
    /\ \/ /\ "history" \in pass[p].writing
          /\ \E done \in SUBSET pass[p].logs : history' = history \cup done
          /\ WriteEnds(p, "history", TRUE)
          /\ UNCHANGED trades
       \/ /\ "bulk" \in pass[p].writing
          /\ \E done \in SUBSET pass[p].found : RecordCloses(done)
          /\ WriteEnds(p, "bulk", TRUE)
          /\ UNCHANGED history
    /\ Fault("write")
    /\ UNCHANGED <<chain, routerSynced, blockSynced, knownHead, routerVars, window>>

\* updateBlock, and handleBlock again while the pass ended before its bound.
BlockAdvance(p) ==
    /\ pass[p].pc = "write"
    /\ pass[p].writing = {}
    /\ blockSynced' = pass[p].to + 1
    /\ IF pass[p].to < pass[p].bound
       THEN /\ pass' = [pass EXCEPT ![p] =
                           [NoPass EXCEPT !.pc = "router", !.cursor = pass[p].to + 1]]
            /\ UNCHANGED isRunning
       ELSE EndPass(p)
    /\ UNCHANGED <<chain, trades, routerSynced, history, knownHead, routerVars, window,
                   bounded>>

\* Any other await of the pass fails: handleBlock catches.
BlockFails(p) ==
    /\ \/ pass[p].pc \in {"router", "lookup", "trades"} /\ Fault("read")
       \/ pass[p].pc = "logs" /\ Fault("rpc")
       \/ pass[p].pc = "write" /\ pass[p].writing = {} /\ Fault("write")
    /\ EndPass(p)
    /\ UNCHANGED <<chain, trades, routerSynced, blockSynced, history, knownHead,
                   routerVars, window>>

-----------------------------------------------------------------------------
\* The process dies and starts again: the collections stay.
Crash ==
    /\ crashes < MaxCrashes
    /\ crashes' = crashes + 1
    /\ knownHead' = NoHead
    /\ tick' = {}
    /\ router' = NoRouterPass
    /\ isRunning' = FALSE
    /\ pass' = [p \in Pass |-> NoPass]
    /\ window' = BlockWindow
    /\ UNCHANGED <<chain, trades, routerSynced, blockSynced, history, faults>>

RouterCron == RouterTick \/ RouterStart

RouterStep ==
    \/ RouterAnswer \/ RouterHandle \/ RouterAdvance
    \/ RouterFails \/ RouterLoses

BlockStep(p) ==
    \/ BlockTick(p) \/ BlockStart(p) \/ BlockRange(p) \/ BlockLogs(p) \/ BlockLookup(p)
    \/ BlockFind(p) \/ LandHistory(p) \/ LandBulk(p) \/ BlockAdvance(p)
    \/ BlockWriteFails(p) \/ BlockFails(p)

Next ==
    \/ Mine \/ RefreshHead
    \/ RouterCron \/ RouterStep
    \/ \E p \in Pass : BlockStep(p)
    \/ Crash

Spec == Init /\ [][Next]_vars

\* The crons run for ever and an await ends: RefreshHead, both jobs.  Nothing is assumed of
\* the chain, of failures or of crashes.
FairSpec ==
    /\ Spec
    /\ WF_vars(RefreshHead)
    /\ WF_vars(RouterCron)
    /\ WF_vars(RouterStep)
    /\ \A p \in Pass : WF_vars(BlockStep(p))

-----------------------------------------------------------------------------
TypeOK ==
    /\ chain \in Seq(Log \cup {NoLog})
    /\ trades \in [Trade -> {"QUEUED", "OPENED", "CLOSED"}]
    /\ routerSynced \in Int
    /\ blockSynced \in Int
    /\ history \in SUBSET Nat
    /\ knownHead \in Int
    /\ tick \subseteq Int
    /\ router \in RouterPass
    /\ isRunning \in BOOLEAN
    /\ pass \in [Pass -> BlockPass]
    /\ window \in Nat
    /\ faults \in 0..MaxFaults
    /\ crashes \in 0..MaxCrashes

\* The block job's cursor never leaves a closing behind: when it is more than Lag blocks
\* past one, the closing is in the history.  Two passes may run at once, each from a cursor
\* that is stale, fail anywhere, and read a block that is not mined yet.
NoCloseSkipped ==
    \A b \in DOMAIN chain :
       chain[b].event = "close" /\ b + Lag + 2 <= blockSynced => b \in history

\* The router job records the openings it passes, unless it lost some: its errors do not
\* stop the cursor.
NoOpenSkipped ==
    faults = 0 =>
       \A b \in DOMAIN chain :
          chain[b].event = "open" /\ b + Lag + 1 <= routerSynced
             => trades[chain[b].trade] # "QUEUED"

\* Unless a write failed or the process died between the two writes of a pass, a closing
\* in the history is recorded, or will be: a pass never meets a closing whose trade the
\* router job has not recorded, for it reads no further than that job's cursor.
CloseFindsTrade ==
    faults = 0 /\ crashes = 0 =>
       \A b \in history :
          \/ trades[chain[b].trade] = "CLOSED"
          \/ \E p \in Pass : chain[b].trade \in pass[p].found /\ "bulk" \in pass[p].writing

\* The OpenTrade events that are read again, and whose record names no state, never open
\* a trade whose closing was recorded.
ClosedStaysClosed ==
    [][\A t \in Trade : trades[t] = "CLOSED" => trades'[t] = "CLOSED"]_vars

\* A trade the chain closes ends up CLOSED, however often reads fail and answers are too
\* large, while the writes succeed.
ClosesRecorded ==
    \A t \in Trade : (\E b \in DOMAIN chain : chain[b] = Close(t)) ~> trades[t] = "CLOSED"

\* The block job catches up with the router job, whatever the answers it got were.
BlocksCatchUp ==
    \A n \in 1..MaxHead : routerSynced > n ~> blockSynced > n

\* The collection and the contract as TradeLedger sees them.
Recorded == [t \in Trade |-> [QUEUED |-> "queued", OPENED |-> "opened",
                              CLOSED |-> "closed"][trades[t]]]
Contract == [t \in Trade |-> CASE \E b \in DOMAIN chain : chain[b] = Close(t) -> "closed"
                                [] \A b \in DOMAIN chain : chain[b] \notin {Open(t), Close(t)} -> "none"
                                [] OTHER -> "open"]
Ledger == INSTANCE TradeLedger WITH recorded <- Recorded, contract <- Contract

\* The two jobs together implement TradeLedger: although each has its own cursor, reads
\* blocks again and writes without looking at the state, openings and closings are recorded
\* in the order of the chain and never undone.
ImplementsLedger == Ledger!Spec
=============================================================================
