-------------------------- MODULE EventSyncProofs --------------------------
(***************************************************************************)
(* Type correctness of the two synchronisation jobs; that neither of their *)
(* cursors leaves an event of the chain behind; that they implement        *)
(* TradeLedger, although they write without looking at the state; and that *)
(* a closing finds its trade.                                              *)
(***************************************************************************)
EXTENDS EventSync, SequenceTheorems, FiniteSetTheorems, TLAPS

\* The closings a cursor at c has left behind are in the history.
Behind(c) ==
    \A b \in DOMAIN chain :
       chain[b].event = "close" /\ b + Lag + 2 <= c => b \in history

\* The openings a router cursor at c has left behind are recorded.
OpensBehind(c) ==
    \A b \in DOMAIN chain :
       chain[b].event = "open" /\ b + Lag + 1 <= c => trades[chain[b].trade] # "QUEUED"

\* What the pass of the router job has read: the openings from where it began to the Lag
\* blocks before its end.
InRouterPass(b) ==
    /\ b \in DOMAIN chain
    /\ chain[b].event = "open"
    /\ PassBegin(router.cursor, RouterOverlap) <= b
    /\ b + Lag <= router.to

\* What a pass of the block job has read: the closings from where it began to the Lag
\* blocks before its end.
InPass(p, b) ==
    /\ b \in DOMAIN chain
    /\ chain[b].event = "close"
    /\ PassBegin(pass[p].cursor, BlockOverlap) <= b
    /\ b + Lag + 1 <= pass[p].to

Started == {"start", "router", "logs", "lookup", "trades", "write"}
Ranged  == {"logs", "lookup", "trades", "write"}

\* No cursor or pass of the router job is beyond the newest block.
HeadInv ==
    /\ knownHead <= Len(chain)
    /\ routerSynced <= Len(chain) + 1
    /\ router.pc # "idle" => router.to <= Len(chain)

\* Where a pass of the block job is, and what it has made sure of.
PassInv(p) ==
    /\ pass[p].pc \notin {"write", "left"} => pass[p].writing = {}
    /\ pass[p].pc \in Started => pass[p].cursor <= Len(chain) + 2 /\ Behind(pass[p].cursor)
    /\ pass[p].pc \in Ranged => pass[p].to <= Len(chain) + 1
    /\ pass[p].pc \in {"lookup", "trades"} =>
          \A b \in Nat : InPass(p, b) => b \in pass[p].logs \cup history
    /\ pass[p].pc = "write" =>
          \A b \in Nat : InPass(p, b) =>
             b \in history \/ ("history" \in pass[p].writing /\ b \in pass[p].logs)

BlockInv ==
    /\ blockSynced <= Len(chain) + 2
    /\ Behind(blockSynced)
    /\ \A p \in Pass : PassInv(p)

\* Every cursor the router job holds is no further than the newest block.
CursorInv ==
    /\ \A c \in tick : c <= Len(chain) + 1
    /\ router.pc # "idle" => router.cursor <= Len(chain) + 1

\* What the router job has made sure of, each cursor it holds included.
OpenInv ==
    /\ OpensBehind(routerSynced)
    /\ \A c \in tick : OpensBehind(c)
    /\ router.pc # "idle" => OpensBehind(router.cursor)
    /\ router.pc = "handle" =>
          \A b \in Nat : InRouterPass(b) =>
             b \in router.events \/ trades[chain[b].trade] # "QUEUED"
    /\ router.pc = "advance" =>
          \A b \in Nat : InRouterPass(b) => trades[chain[b].trade] # "QUEUED"

-----------------------------------------------------------------------------
(* Lemmas *)

LEMMA Numbers ==
    /\ RouterWindow \in Int /\ RouterOverlap \in Int /\ BlockWindow \in Int
    /\ BlockOverlap \in Int /\ StartBack \in Int /\ Lag \in Int
    /\ RouterOverlap >= 0 /\ StartBack >= 0 /\ Lag >= 0 /\ BlockOverlap >= 0
    /\ BlockWindow >= 0 /\ RouterWindow >= 0
    /\ MinLife \in Nat
BY EventSyncAssumption

\* Where a pass ends, in a few inequalities.
LEMMA PassEndRange ==
    ASSUME NEW cursor \in Int, NEW size \in Int, NEW head \in Int, NEW overlap \in Int,
           PassBegin(cursor, overlap) <= head
    PROVE  /\ PassEnd(cursor, size, head, overlap) \in Int
           /\ PassEnd(cursor, size, head, overlap) <= head
BY DEF PassEnd, PassBegin, Max2, Min2

\* Nothing but Mine changes the chain, and it appends one block.
LEMMA MineAppends ==
    ASSUME TypeOK, Mine
    PROVE  \E log \in Log \cup {NoLog} : chain' = Append(chain, log)
<1>1. \A t \in Trade : Open(t) \in Log /\ Close(t) \in Log
  BY DEF Open, Close, Log
<1> QED
  BY <1>1 DEF Mine

LEMMA AppendedChain ==
    ASSUME chain \in Seq(Log \cup {NoLog}), NEW log \in Log \cup {NoLog},
           chain' = Append(chain, log)
    PROVE  /\ chain' \in Seq(Log \cup {NoLog})
           /\ Len(chain') = Len(chain) + 1
           /\ DOMAIN chain' = DOMAIN chain \cup {Len(chain) + 1}
           /\ DOMAIN chain = 1..Len(chain)
           /\ \A b \in DOMAIN chain : b \in DOMAIN chain' /\ chain'[b] = chain[b]
OBVIOUS

-----------------------------------------------------------------------------
(* Type correctness *)

LEMMA RouterBeginType ==
    ASSUME TypeOK, NEW cursor \in Int
    PROVE  RouterBegin(cursor) \in RouterPass
<1>1. NoRouterPass \in RouterPass
  BY DEF NoRouterPass, RouterPass
<1>2. CASE PassBegin(cursor, RouterOverlap) <= knownHead
  <2>1. PassEnd(cursor, RouterWindow, knownHead, RouterOverlap) \in Int
    BY <1>2, Numbers, PassEndRange DEF TypeOK
  <2> QED
    BY <1>1, <2>1 DEF RouterBegin, RouterPass, TypeOK
<1>3. CASE ~(PassBegin(cursor, RouterOverlap) <= knownHead)
  <2>1. PassBegin(cursor, RouterOverlap) > knownHead
    BY <1>3, Numbers DEF PassBegin, TypeOK
  <2> QED
    BY <2>1, <1>1 DEF RouterBegin
<1> QED
  BY <1>2, <1>3

LEMMA FreshPass ==
    ASSUME NEW at \in {"idle", "start", "router"}, NEW c \in Int
    PROVE  [NoPass EXCEPT !.pc = at, !.cursor = c] \in BlockPass
<1>1. NoPass \in BlockPass
  BY DEF NoPass, BlockPass
<1>2. ASSUME NEW r \in BlockPass PROVE [r EXCEPT !.pc = at, !.cursor = c] \in BlockPass
  BY DEF BlockPass
<1> QED
  BY <1>1, <1>2

LEMMA InitTypes == Init => TypeOK
<1> SUFFICES ASSUME Init PROVE TypeOK
  OBVIOUS
<1>1. chain \in Seq(Log \cup {NoLog}) /\ history \in SUBSET Nat
  BY DEF Init
<1>2. NoRouterPass \in RouterPass /\ NoPass \in BlockPass
  BY DEF NoRouterPass, RouterPass, NoPass, BlockPass
<1>3. NoHead \in Int /\ -StartBack \in Int
  BY Numbers DEF NoHead
<1>4. trades \in [Trade -> {"QUEUED", "OPENED", "CLOSED"}] /\ pass \in [Pass -> BlockPass]
  BY <1>2 DEF Init
<1>5. /\ routerSynced \in Int /\ blockSynced \in Int /\ knownHead \in Int
      /\ tick \subseteq Int /\ window \in Nat
  BY <1>3, EventSyncAssumption DEF Init
<1>6. faults \in 0..MaxFaults /\ crashes \in 0..MaxCrashes
  BY EventSyncAssumption DEF Init
<1>7. router \in RouterPass
  BY <1>2 DEF Init
<1>8. isRunning \in BOOLEAN
  BY Zenon DEF Init
<1> QED
  BY <1>1, <1>4, <1>5, <1>6, <1>7, <1>8 DEF TypeOK

LEMMA StepTypes == TypeOK /\ [Next]_vars => TypeOK'
<1> SUFFICES ASSUME TypeOK, [Next]_vars PROVE TypeOK'
  OBVIOUS
<1> USE DEF TypeOK
<1>n. NoRouterPass \in RouterPass /\ NoPass \in BlockPass
  BY DEF NoRouterPass, RouterPass, NoPass, BlockPass
<1>d. DOMAIN chain = 1..Len(chain) /\ Len(chain) \in Nat
  OBVIOUS
<1>f. ASSUME NEW kind, Fault(kind) PROVE faults' \in 0..MaxFaults /\ crashes' = crashes
  BY <1>f, EventSyncAssumption DEF Fault
<1>1. CASE Mine
  <2>1. PICK log \in Log \cup {NoLog} : chain' = Append(chain, log)
    BY <1>1, MineAppends
  <2>2. chain' \in Seq(Log \cup {NoLog})
    BY <2>1, AppendedChain
  <2> QED
    BY <1>1, <2>2 DEF Mine, routerVars, blockVars, bounded
<1>2. CASE RefreshHead
  BY <1>2, <1>d, Numbers DEF RefreshHead, Heights, routerVars, blockVars, bounded
<1>3. CASE RouterCron
  <2>1. CASE RouterTick
    BY <2>1 DEF RouterTick, blockVars, bounded
  <2>2. CASE RouterStart
    <3>1. router' \in RouterPass
      BY <2>2, RouterBeginType DEF RouterStart
    <3> QED
      BY <2>2, <3>1 DEF RouterStart, blockVars, bounded
  <2> QED
    BY <1>3, <2>1, <2>2 DEF RouterCron
<1>4. CASE RouterStep
  <2>1. CASE RouterAnswer
    <3>1. PICK h \in Heights :
            router' = [router EXCEPT !.pc = "handle",
               !.events = OpensIn(PassBegin(router.cursor, RouterOverlap), router.to, h)]
      BY <2>1 DEF RouterAnswer
    <3>2. OpensIn(PassBegin(router.cursor, RouterOverlap), router.to, h) \subseteq Nat
      BY <1>d DEF OpensIn
    <3>3. router' \in RouterPass
      BY <3>1, <3>2 DEF RouterPass
    <3> QED
      BY <2>1, <3>3 DEF RouterAnswer, blockVars, bounded
  <2>2. CASE RouterHandle
    <3>1. router' \in RouterPass
      BY <2>2 DEF RouterHandle, RouterPass
    <3> QED
      BY <2>2, <3>1 DEF RouterHandle, RecordOpens, blockVars, bounded
  <2>3. CASE RouterAdvance
    <3>1. router.to + 1 \in Int
      BY DEF RouterPass
    <3>2. router' \in RouterPass
      BY <2>3, <3>1, <1>n, RouterBeginType DEF RouterAdvance
    <3> QED
      BY <2>3, <3>1, <3>2 DEF RouterAdvance, blockVars, bounded
  <2>4. CASE RouterFails
    BY <2>4, <1>n, <1>f DEF RouterFails, blockVars
  <2>5. CASE RouterLoses
    <3>1. router' \in RouterPass
      BY <2>5 DEF RouterLoses, RouterPass
    <3> QED
      BY <2>5, <1>f, <3>1 DEF RouterLoses, RecordOpens, blockVars
  <2> QED
    BY <1>4, <2>1, <2>2, <2>3, <2>4, <2>5 DEF RouterStep
<1>5. ASSUME NEW p \in Pass, BlockStep(p) PROVE TypeOK'
  <2>p. pass[p] \in BlockPass
    OBVIOUS
  <2>e. ASSUME EndPass(p) PROVE pass' \in [Pass -> BlockPass] /\ isRunning' \in BOOLEAN
    BY <2>e, <1>n DEF EndPass
  <2>w. ASSUME NEW w, NEW failed \in BOOLEAN, WriteEnds(p, w, failed)
        PROVE  pass' \in [Pass -> BlockPass] /\ isRunning' \in BOOLEAN
    <3> DEFINE rest == pass[p].writing \ {w}
               over == failed \/ pass[p].pc = "left"
    <3>1. [pass[p] EXCEPT !.writing = rest, !.pc = IF over THEN "left" ELSE "write"] \in BlockPass
      BY <2>p DEF BlockPass
    <3> QED
      BY <2>w, <3>1, <1>n DEF WriteEnds
  <2>0. Shrunk(window) \in Nat
    BY DEF Shrunk
  <2>1. CASE BlockTick(p)
    <3>1. [NoPass EXCEPT !.pc = "start", !.cursor = blockSynced] \in BlockPass
      BY FreshPass
    <3> QED
      BY <2>1, <3>1 DEF BlockTick, routerVars, bounded
  <2>2. CASE BlockStart(p)
    <3>1. [pass[p] EXCEPT !.pc = "router"] \in BlockPass
      BY <2>p DEF BlockPass
    <3>2. pass' \in [Pass -> BlockPass] /\ isRunning' \in BOOLEAN
      BY <2>2, <3>1, <2>e DEF BlockStart
    <3> QED
      BY <2>2, <3>2 DEF BlockStart, routerVars, bounded
  <2>3. CASE BlockRange(p)
    <3>1. CASE PassBegin(pass[p].cursor, BlockOverlap) > Bound
      BY <2>3, <3>1, <2>e, <2>0 DEF BlockRange, routerVars, bounded
    <3>2. CASE ~(PassBegin(pass[p].cursor, BlockOverlap) > Bound)
      <4>1. PassEnd(pass[p].cursor, window, Bound, BlockOverlap) \in Int
        BY <2>p, Numbers DEF PassEnd, PassBegin, Max2, Min2, Bound, BlockPass
      <4>2. [pass[p] EXCEPT !.pc = "logs", !.bound = Bound,
               !.to = PassEnd(pass[p].cursor, window, Bound, BlockOverlap)] \in BlockPass
        BY <2>p, <4>1 DEF Bound, BlockPass
      <4>3. pass' = [pass EXCEPT ![p] = [pass[p] EXCEPT !.pc = "logs", !.bound = Bound,
               !.to = PassEnd(pass[p].cursor, window, Bound, BlockOverlap)]]
        BY <2>3, <3>2 DEF BlockRange
      <4> QED
        BY <2>3, <3>2, <4>2, <4>3 DEF BlockRange, routerVars, bounded
    <3> QED
      BY <3>1, <3>2
  <2>4. CASE BlockLogs(p)
    <3>1. PICK h \in Heights :
            \/ EndPass(p) /\ window' = Shrunk(window)
            \/ /\ pass' = [pass EXCEPT ![p].pc = "lookup", ![p].logs =
                     ClosesIn(PassBegin(pass[p].cursor, BlockOverlap), pass[p].to, h)]
               /\ window' = BlockWindow
               /\ UNCHANGED isRunning
      BY <2>4 DEF BlockLogs
    <3>2. ClosesIn(PassBegin(pass[p].cursor, BlockOverlap), pass[p].to, h) \subseteq Nat
      BY <1>d DEF ClosesIn
    <3>3. [pass[p] EXCEPT !.pc = "lookup", !.logs =
             ClosesIn(PassBegin(pass[p].cursor, BlockOverlap), pass[p].to, h)] \in BlockPass
      BY <2>p, <3>2 DEF BlockPass
    <3>4. CASE EndPass(p) /\ window' = Shrunk(window)
      BY <2>4, <3>4, <2>e, <2>0 DEF BlockLogs, routerVars, bounded
    <3>5. CASE /\ pass' = [pass EXCEPT ![p].pc = "lookup", ![p].logs =
                     ClosesIn(PassBegin(pass[p].cursor, BlockOverlap), pass[p].to, h)]
               /\ window' = BlockWindow
               /\ UNCHANGED isRunning
      <4>1. pass' = [pass EXCEPT ![p] = [pass[p] EXCEPT !.pc = "lookup", !.logs =
                     ClosesIn(PassBegin(pass[p].cursor, BlockOverlap), pass[p].to, h)]]
        BY <3>5
      <4>2. pass' \in [Pass -> BlockPass]
        BY <4>1, <3>3
      <4> QED
        BY <2>4, <3>5, <4>2, EventSyncAssumption DEF BlockLogs, routerVars, bounded
    <3> QED
      BY <3>1, <3>4, <3>5
  <2>5. CASE BlockLookup(p)
    <3>1. [pass[p] EXCEPT !.pc = "trades", !.logs = @ \ history] \in BlockPass
      BY <2>p DEF BlockPass
    <3> QED
      BY <2>5, <3>1 DEF BlockLookup, routerVars, bounded
  <2>6. CASE BlockFind(p)
    <3>1. PICK found \in SUBSET Trade, writing \in SUBSET {"history", "bulk"} :
            pass' = [pass EXCEPT ![p].pc = "write", ![p].found = found, ![p].writing = writing]
      BY <2>6 DEF BlockFind
    <3>2. [pass[p] EXCEPT !.pc = "write", !.found = found, !.writing = writing] \in BlockPass
      BY <2>p DEF BlockPass
    <3>3. pass' = [pass EXCEPT ![p] =
                      [pass[p] EXCEPT !.pc = "write", !.found = found, !.writing = writing]]
      BY <3>1
    <3>4. pass' \in [Pass -> BlockPass]
      BY <3>2, <3>3
    <3> QED
      BY <2>6, <3>4 DEF BlockFind, routerVars, bounded
  <2>7. CASE LandHistory(p)
    <3>1. PICK new \in SUBSET pass[p].logs :
            /\ history' = history \cup new
            /\ WriteEnds(p, "history", new # pass[p].logs)
      BY <2>7 DEF LandHistory
    <3>2. history' \in SUBSET Nat
      BY <2>p, <3>1 DEF BlockPass
    <3> QED
      BY <2>7, <2>w, <3>1, <3>2 DEF LandHistory, routerVars, bounded
  <2>8. CASE LandBulk(p)
    BY <2>8, <2>w DEF LandBulk, RecordCloses, routerVars, bounded
  <2>9. CASE BlockAdvance(p)
    <3>1. pass[p].to + 1 \in Int
      BY <2>p DEF BlockPass
    <3>2. [NoPass EXCEPT !.pc = "router", !.cursor = pass[p].to + 1] \in BlockPass
      BY <3>1, FreshPass
    <3>3. pass' \in [Pass -> BlockPass] /\ isRunning' \in BOOLEAN
      BY <2>9, <3>2, <2>e DEF BlockAdvance
    <3> QED
      BY <2>9, <3>1, <3>3 DEF BlockAdvance, routerVars, bounded
  <2>10. CASE BlockWriteFails(p)
    <3>1. PICK w \in {"history", "bulk"} : WriteEnds(p, w, TRUE)
      BY <2>10 DEF BlockWriteFails
    <3>2. pass[p].logs \in SUBSET Nat
      BY <2>p DEF BlockPass
    <3>3. history' \in SUBSET Nat
      BY <2>10, <3>2 DEF BlockWriteFails
    <3>4. trades' \in [Trade -> {"QUEUED", "OPENED", "CLOSED"}]
      BY <2>10 DEF BlockWriteFails, RecordCloses
    <3>5. faults' \in 0..MaxFaults /\ crashes' = crashes
      BY <2>10, <1>f DEF BlockWriteFails
    <3> QED
      BY <2>10, <2>w, <3>1, <3>3, <3>4, <3>5 DEF BlockWriteFails, routerVars
  <2>11. CASE BlockFails(p)
    BY <2>11, <2>e, <1>f DEF BlockFails, routerVars
  <2> QED
    BY <1>5, <2>1, <2>2, <2>3, <2>4, <2>5, <2>6, <2>7, <2>8, <2>9, <2>10, <2>11 DEF BlockStep
<1>6. CASE Crash
  <2>1. knownHead' \in Int
    BY <1>6, Numbers DEF Crash, NoHead
  <2>2. isRunning' \in BOOLEAN
    BY <1>6, Zenon DEF Crash
  <2>3. crashes' \in 0..MaxCrashes
    BY <1>6, EventSyncAssumption DEF Crash
  <2>4. router' \in RouterPass /\ pass' \in [Pass -> BlockPass] /\ tick' \subseteq Int
    BY <1>6, <1>n DEF Crash
  <2>5. window' \in Nat
    BY <1>6, EventSyncAssumption DEF Crash
  <2> QED
    BY <1>6, <2>1, <2>2, <2>3, <2>4, <2>5 DEF Crash
<1>7. CASE UNCHANGED vars
  BY <1>7 DEF vars, routerVars, blockVars, bounded
<1> QED
  BY <1>1, <1>2, <1>3, <1>4, <1>5, <1>6, <1>7 DEF Next

\* Every reachable state is well typed.
THEOREM SyncTypeCorrect == Spec => []TypeOK
<1> QED
  BY InitTypes, StepTypes, PTL DEF Spec
-----------------------------------------------------------------------------
(* The block job's cursor *)

LEMMA HeadInit == Init => HeadInv
<1> SUFFICES ASSUME Init PROVE HeadInv
  OBVIOUS
<1>1. Len(chain) = 0 /\ routerSynced = 0 /\ router.pc = "idle" /\ knownHead = NoHead
  BY DEF Init, NoRouterPass
<1> QED
  BY <1>1, Numbers DEF HeadInv, NoHead

\* A pass of the router job that begins stays below the cached head.
LEMMA RouterBeginRange ==
    ASSUME TypeOK, HeadInv, NEW cursor \in Int
    PROVE  RouterBegin(cursor).pc # "idle" => RouterBegin(cursor).to <= Len(chain)
<1>1. CASE PassBegin(cursor, RouterOverlap) <= knownHead
  <2>1. /\ PassEnd(cursor, RouterWindow, knownHead, RouterOverlap) \in Int
        /\ PassEnd(cursor, RouterWindow, knownHead, RouterOverlap) <= knownHead
    BY <1>1, Numbers, PassEndRange DEF TypeOK
  <2>2. ~(PassBegin(cursor, RouterOverlap) > knownHead)
    BY <1>1, Numbers DEF PassBegin, TypeOK
  <2>3. RouterBegin(cursor).to = PassEnd(cursor, RouterWindow, knownHead, RouterOverlap)
    BY <2>2 DEF RouterBegin
  <2> QED
    BY <2>1, <2>3 DEF HeadInv, TypeOK
<1>2. CASE ~(PassBegin(cursor, RouterOverlap) <= knownHead)
  <2>1. PassBegin(cursor, RouterOverlap) > knownHead
    BY <1>2, Numbers DEF PassBegin, TypeOK
  <2> QED
    BY <2>1 DEF RouterBegin, NoRouterPass
<1> QED
  BY <1>1, <1>2

LEMMA HeadStep == TypeOK /\ HeadInv /\ [Next]_vars => HeadInv'
<1> SUFFICES ASSUME TypeOK, HeadInv, [Next]_vars PROVE HeadInv'
  OBVIOUS
<1>t. /\ Len(chain) \in Nat /\ knownHead \in Int /\ routerSynced \in Int
      /\ router.to \in Int /\ tick \subseteq Int
  BY DEF TypeOK, RouterPass
<1>1. CASE Mine
  <2>1. PICK log \in Log \cup {NoLog} : chain' = Append(chain, log)
    BY <1>1, MineAppends
  <2>2. Len(chain') = Len(chain) + 1
    BY <2>1, AppendedChain DEF TypeOK
  <2> QED
    BY <1>1, <1>t, <2>2 DEF Mine, HeadInv, routerVars
<1>2. CASE RefreshHead
  BY <1>2, <1>t, Numbers DEF RefreshHead, Heights, HeadInv, routerVars
<1>3. CASE RouterCron
  <2>1. CASE RouterTick
    BY <2>1 DEF RouterTick, HeadInv
  <2>2. CASE RouterStart
    BY <2>2, <1>t, RouterBeginRange DEF RouterStart, HeadInv
  <2> QED
    BY <1>3, <2>1, <2>2 DEF RouterCron
<1>4. CASE RouterStep
  <2>1. CASE RouterAnswer \/ RouterHandle \/ RouterLoses \/ RouterFails
    <3>1. UNCHANGED <<chain, knownHead, routerSynced>>
      BY <2>1 DEF RouterAnswer, RouterHandle, RouterLoses, RouterFails
    <3>2. router \in RouterPass
      BY DEF TypeOK
    <3>3. router'.pc # "idle" => router.pc # "idle" /\ router'.to = router.to
      <4>1. CASE RouterAnswer
        <5>1. PICK events : router' = [router EXCEPT !.pc = "handle", !.events = events]
          BY <4>1 DEF RouterAnswer
        <5> QED
          BY <4>1, <5>1, <3>2 DEF RouterAnswer, RouterPass
      <4>2. CASE RouterHandle
        BY <4>2, <3>2 DEF RouterHandle, RouterPass
      <4>3. CASE RouterLoses
        BY <4>3, <3>2 DEF RouterLoses, RouterPass
      <4>4. CASE RouterFails
        BY <4>4 DEF RouterFails, NoRouterPass
      <4> QED
        BY <2>1, <4>1, <4>2, <4>3, <4>4
    <3> QED
      BY <3>1, <3>3 DEF HeadInv
  <2>2. CASE RouterAdvance
    <3>1. routerSynced' <= Len(chain) + 1
      BY <2>2, <1>t DEF RouterAdvance, HeadInv
    <3>2. router'.pc # "idle" => router'.to <= Len(chain)
      BY <2>2, <1>t, RouterBeginRange DEF RouterAdvance, NoRouterPass
    <3> QED
      BY <2>2, <3>1, <3>2 DEF RouterAdvance, HeadInv
  <2> QED
    BY <1>4, <2>1, <2>2 DEF RouterStep
<1>5. CASE \E p \in Pass : BlockStep(p)
  <2>1. UNCHANGED <<chain, knownHead, routerSynced, router>>
    BY <1>5 DEF BlockStep, BlockTick, BlockStart, BlockRange, BlockLogs, BlockLookup, BlockFind,
         LandHistory, LandBulk, BlockAdvance, BlockWriteFails, BlockFails, routerVars
  <2> QED
    BY <2>1 DEF HeadInv
<1>6. CASE Crash
  BY <1>6, <1>t, Numbers DEF Crash, HeadInv, NoHead, NoRouterPass
<1>7. CASE UNCHANGED vars
  BY <1>7 DEF vars, HeadInv, routerVars
<1> QED
  BY <1>1, <1>2, <1>3, <1>4, <1>5, <1>6, <1>7 DEF Next

\* While nothing is mined, a longer history keeps what is behind a cursor, and a pass that
\* does not move keeps what it knows.
LEMMA BehindKept ==
    ASSUME NEW c \in Int, Behind(c), chain' = chain, history \subseteq history'
    PROVE  \A b \in DOMAIN chain' :
              chain'[b].event = "close" /\ b + Lag + 2 <= c => b \in history'
BY DEF Behind

LEMMA PassKept ==
    ASSUME NEW p \in Pass, PassInv(p), chain' = chain, history \subseteq history',
           pass'[p] = pass[p]
    PROVE  PassInv(p)'
BY DEF PassInv, Behind, InPass

LEMMA IdlePass ==
    ASSUME NEW p \in Pass, pass'[p] = NoPass \/ pass'[p].pc = "left"
    PROVE  PassInv(p)'
BY DEF PassInv, Started, Ranged, NoPass

\* A block that is mined is beyond every cursor.
LEMMA MineKeeps ==
    ASSUME TypeOK, BlockInv, Mine
    PROVE  BlockInv'
<1>1. PICK log \in Log \cup {NoLog} : chain' = Append(chain, log)
  BY MineAppends
<1>2. /\ Len(chain) \in Nat /\ Len(chain') = Len(chain) + 1
      /\ DOMAIN chain' = DOMAIN chain \cup {Len(chain) + 1}
      /\ DOMAIN chain = 1..Len(chain)
      /\ \A b \in DOMAIN chain : b \in DOMAIN chain' /\ chain'[b] = chain[b]
  BY <1>1, AppendedChain DEF TypeOK
<1>3. /\ UNCHANGED <<history, blockSynced, pass>>
      /\ blockSynced \in Int
  BY DEF Mine, blockVars, TypeOK
<1>4. ASSUME NEW c \in Int, Behind(c), c <= Len(chain) + 2
      PROVE  \A b \in DOMAIN chain' :
                chain'[b].event = "close" /\ b + Lag + 2 <= c => b \in history'
  BY <1>2, <1>3, <1>4, Numbers DEF Behind
<1>5. Behind(blockSynced)'
  BY <1>3, <1>4 DEF BlockInv, Behind
<1>6. ASSUME NEW p \in Pass PROVE PassInv(p)'
  <2>1. /\ PassInv(p)
        /\ pass[p].cursor \in Int /\ pass[p].to \in Int
    BY DEF BlockInv, TypeOK, BlockPass
  <2>2. pass[p].pc \in Ranged =>
           \A b \in Nat : InPass(p, b)' => InPass(p, b)
    BY <1>2, <1>3, <2>1, Numbers DEF InPass, PassInv
  <2>3. pass[p].pc \in Started => Behind(pass[p].cursor)'
    BY <1>3, <1>4, <2>1 DEF PassInv, Behind
  <2> QED
    BY <1>2, <1>3, <2>1, <2>2, <2>3 DEF PassInv, Ranged, Started
<1> QED
  BY <1>2, <1>3, <1>5, <1>6 DEF BlockInv
\* Blocks between where a pass began and its end have been answered for, the last Lag
\* perhaps excepted.
LEMMA AnswerCovers ==
    ASSUME TypeOK, NEW p \in Pass, pass[p].to <= Len(chain) + 1, NEW h \in Heights,
           NEW b \in Nat, InPass(p, b)
    PROVE  b \in ClosesIn(PassBegin(pass[p].cursor, BlockOverlap), pass[p].to, h)
<1>1. pass[p].to \in Int /\ pass[p].cursor \in Int /\ Len(chain) \in Nat
  BY DEF TypeOK, BlockPass
<1>2. h \in Int /\ h >= Len(chain) - Lag
  BY <1>1, Numbers DEF Heights
<1>3. b <= h /\ b <= pass[p].to
  BY <1>1, <1>2, Numbers DEF InPass
<1> QED
  BY <1>3 DEF ClosesIn, InPass

\* With an overlap of more than Lag blocks a pass that has written leaves nothing behind.
LEMMA PassLeavesNothing ==
    ASSUME BlockOverlap >= Lag + 1, TypeOK, NEW p \in Pass, PassInv(p),
           pass[p].pc = "write", pass[p].writing = {}
    PROVE  Behind(pass[p].to + 1)
<1> SUFFICES ASSUME NEW b \in DOMAIN chain, chain[b].event = "close",
                    b + Lag + 2 <= pass[p].to + 1
             PROVE  b \in history
  BY DEF Behind
<1>1. pass[p].to \in Int /\ pass[p].cursor \in Int /\ b \in Nat
  BY DEF TypeOK, BlockPass
<1>2. CASE PassBegin(pass[p].cursor, BlockOverlap) <= b
  <2>1. InPass(p, b)
    BY <1>1, <1>2, Numbers DEF InPass
  <2> QED
    BY <1>1, <2>1 DEF PassInv
<1>3. CASE ~(PassBegin(pass[p].cursor, BlockOverlap) <= b)
  <2>1. b + Lag + 2 <= pass[p].cursor
    BY <1>1, <1>3, Numbers DEF PassBegin
  <2> QED
    BY <2>1 DEF PassInv, Started, Behind
<1> QED
  BY <1>2, <1>3

\* The steps of one pass.
LEMMA BlockStepKeeps ==
    ASSUME BlockOverlap >= Lag + 1, TypeOK, TypeOK', HeadInv, BlockInv,
           NEW p \in Pass, BlockStep(p)
    PROVE  BlockInv'
<1>1. chain' = chain /\ history \subseteq history'
  BY DEF BlockStep, BlockTick, BlockStart, BlockRange, BlockLogs, BlockLookup, BlockFind,
         LandHistory, LandBulk, BlockAdvance, BlockWriteFails, BlockFails
<1>t. /\ pass[p] \in BlockPass /\ pass[p].cursor \in Int /\ pass[p].to \in Int
      /\ blockSynced \in Int /\ Len(chain) \in Nat /\ routerSynced \in Int
  <2>1. pass[p] \in BlockPass
    BY DEF TypeOK
  <2>2. Len(chain) \in Nat
    BY DEF TypeOK
  <2>3. blockSynced \in Int /\ routerSynced \in Int
    BY DEF TypeOK
  <2> QED
    BY <2>1, <2>2, <2>3 DEF BlockPass
<1>i. PassInv(p)
  BY DEF BlockInv
<1>e. ASSUME EndPass(p) PROVE pass' = [pass EXCEPT ![p] = NoPass] /\ pass'[p] = NoPass
  BY <1>e DEF EndPass, TypeOK
<1>w. ASSUME NEW w \in {"history", "bulk"}, NEW failed \in BOOLEAN, WriteEnds(p, w, failed),
             w \in pass[p].writing
      PROVE  /\ \A q \in Pass : q # p => pass'[q] = pass[q]
             /\ \/ pass'[p] = NoPass \/ pass'[p].pc = "left"
                \/ /\ ~failed
                   /\ pass[p].pc # "left"
                   /\ pass'[p] = [pass[p] EXCEPT !.writing = @ \ {w}, !.pc = "write"]
  <2>1. CASE failed \/ pass[p].pc = "left"
    BY <1>t, <1>w, <2>1 DEF WriteEnds, BlockPass, NoPass, TypeOK
  <2>2. CASE ~failed /\ pass[p].pc # "left"
    BY <1>t, <1>w, <2>2 DEF WriteEnds, BlockPass, TypeOK
  <2> QED
    BY <2>1, <2>2
<1>2. \A q \in Pass : q # p => pass'[q] = pass[q]
  <2>1. CASE LandHistory(p) \/ LandBulk(p) \/ BlockWriteFails(p)
    BY <2>1, <1>w DEF LandHistory, LandBulk, BlockWriteFails
  <2>2. CASE BlockRange(p) \/ BlockLogs(p)
    BY <2>2, <1>e DEF BlockRange, BlockLogs, TypeOK
  <2>3. CASE BlockTick(p) \/ BlockStart(p) \/ BlockLookup(p) \/ BlockFind(p)
             \/ BlockAdvance(p) \/ BlockFails(p)
    BY <2>3, <1>e DEF BlockTick, BlockStart, BlockLookup, BlockFind, BlockAdvance, BlockFails,
                      TypeOK
  <2> QED
    BY <2>1, <2>2, <2>3 DEF BlockStep
<1>3. \A q \in Pass : q # p => PassInv(q)'
  BY <1>1, <1>2, PassKept DEF BlockInv
<1>b. ASSUME NEW c \in Int, Behind(c)
      PROVE  \A b \in DOMAIN chain' :
                chain'[b].event = "close" /\ b + Lag + 2 <= c => b \in history'
  BY <1>1, <1>b, BehindKept
<1>4. /\ blockSynced' <= Len(chain) + 2
      /\ Behind(blockSynced)'
      /\ PassInv(p)'
  <2>n. ASSUME blockSynced' = blockSynced
        PROVE  blockSynced' <= Len(chain) + 2 /\ Behind(blockSynced)'
    BY <2>n, <1>b, <1>t DEF BlockInv, Behind
  <2>1. CASE BlockTick(p)
    <3>1. blockSynced' = blockSynced /\ history' = history
      BY <2>1 DEF BlockTick
    <3>2. pass'[p].pc = "start" /\ pass'[p].cursor = blockSynced /\ pass'[p].writing = {}
      BY <2>1 DEF BlockTick, NoPass, TypeOK
    <3>3. PassInv(p)'
      BY <1>1, <3>1, <3>2 DEF PassInv, BlockInv, Behind, Started, Ranged
    <3> QED
      BY <2>n, <3>1, <3>3
  <2>2. CASE BlockStart(p)
    <3>1. blockSynced' = blockSynced /\ history' = history
      BY <2>2 DEF BlockStart
    <3>2. CASE isRunning
      BY <2>2, <2>n, <3>1, <3>2, <1>e, IdlePass DEF BlockStart
    <3>3. CASE ~isRunning
      <4>1. /\ pass[p].pc = "start" /\ pass'[p].pc = "router"
            /\ pass'[p].cursor = pass[p].cursor /\ pass'[p].writing = pass[p].writing
        BY <2>2, <3>3, <1>t DEF BlockStart, BlockPass, TypeOK
      <4>2. PassInv(p)'
        BY <1>1, <1>i, <3>1, <4>1 DEF PassInv, Behind, Started, Ranged
      <4> QED
        BY <2>n, <3>1, <4>2
    <3> QED
      BY <3>2, <3>3
  <2>3. CASE BlockRange(p)
    <3>1. blockSynced' = blockSynced /\ history' = history
      BY <2>3 DEF BlockRange
    <3>2. CASE PassBegin(pass[p].cursor, BlockOverlap) > Bound
      BY <2>3, <2>n, <3>1, <3>2, <1>e, IdlePass DEF BlockRange
    <3>3. CASE ~(PassBegin(pass[p].cursor, BlockOverlap) > Bound)
      <4> DEFINE to == PassEnd(pass[p].cursor, window, Bound, BlockOverlap)
      <4>1. /\ pass[p].pc = "router"
            /\ pass'[p] = [pass[p] EXCEPT !.pc = "logs", !.bound = Bound, !.to = to]
        BY <2>3, <3>3 DEF BlockRange, TypeOK
      <4>2. /\ pass'[p].pc = "logs" /\ pass'[p].cursor = pass[p].cursor
            /\ pass'[p].to = to /\ pass'[p].writing = pass[p].writing
        BY <4>1, <1>t DEF BlockPass
      <4>3. Bound \in Int /\ window \in Int /\ Bound <= Len(chain) + 1
        BY DEF Bound, TypeOK, HeadInv
      <4>4. PassBegin(pass[p].cursor, BlockOverlap) <= Bound
        BY <3>3, <4>3, <1>t, Numbers DEF PassBegin
      <4>5. to <= Len(chain) + 1
        <5>1. to \in Int /\ to <= Bound
          BY <4>3, <4>4, <1>t, Numbers, PassEndRange
        <5> QED
          BY <5>1, <4>3, <1>t
      <4>6. PassInv(p)'
        BY <1>1, <1>i, <3>1, <4>1, <4>2, <4>5 DEF PassInv, Behind, Started, Ranged
      <4> QED
        BY <2>n, <3>1, <4>6
    <3> QED
      BY <3>2, <3>3
  <2>4. CASE BlockLogs(p)
    <3>1. blockSynced' = blockSynced /\ history' = history /\ pass[p].pc = "logs"
      BY <2>4 DEF BlockLogs
    <3>2. PICK h \in Heights :
            \/ EndPass(p)
            \/ pass' = [pass EXCEPT ![p].pc = "lookup", ![p].logs =
                     ClosesIn(PassBegin(pass[p].cursor, BlockOverlap), pass[p].to, h)]
      BY <2>4 DEF BlockLogs
    <3>3. CASE EndPass(p)
      BY <2>n, <3>1, <3>3, <1>e, IdlePass
    <3>4. CASE pass' = [pass EXCEPT ![p].pc = "lookup", ![p].logs =
                     ClosesIn(PassBegin(pass[p].cursor, BlockOverlap), pass[p].to, h)]
      <4>1. /\ pass'[p].pc = "lookup" /\ pass'[p].cursor = pass[p].cursor
            /\ pass'[p].to = pass[p].to
            /\ pass'[p].logs = ClosesIn(PassBegin(pass[p].cursor, BlockOverlap), pass[p].to, h)
            /\ pass'[p].writing = pass[p].writing
        BY <3>4, <1>t DEF BlockPass, TypeOK
      <4>2. pass[p].to <= Len(chain) + 1
        BY <1>i, <3>1 DEF PassInv, Ranged
      <4>3. \A b \in Nat : InPass(p, b) => b \in pass'[p].logs
        BY <4>1, <4>2, AnswerCovers
      <4>4. \A b \in Nat : InPass(p, b)' => InPass(p, b)
        BY <1>1, <4>1 DEF InPass
      <4>5. PassInv(p)'
        BY <1>1, <1>i, <3>1, <4>1, <4>2, <4>3, <4>4 DEF PassInv, Behind, Started, Ranged
      <4> QED
        BY <2>n, <3>1, <4>5
    <3> QED
      BY <3>2, <3>3, <3>4
  <2>5. CASE BlockLookup(p)
    <3>1. blockSynced' = blockSynced /\ history' = history /\ pass[p].pc = "lookup"
      BY <2>5 DEF BlockLookup
    <3>2. /\ pass'[p].pc = "trades" /\ pass'[p].cursor = pass[p].cursor
          /\ pass'[p].to = pass[p].to /\ pass'[p].logs = pass[p].logs \ history
          /\ pass'[p].writing = pass[p].writing
      BY <2>5, <1>t DEF BlockLookup, BlockPass, TypeOK
    <3>3. \A b \in Nat : InPass(p, b)' => InPass(p, b)
      BY <1>1, <3>2 DEF InPass
    <3>4. PassInv(p)'
      BY <1>1, <1>i, <3>1, <3>2, <3>3 DEF PassInv, Behind, Started, Ranged
    <3> QED
      BY <2>n, <3>1, <3>4
  <2>6. CASE BlockFind(p)
    <3>1. blockSynced' = blockSynced /\ history' = history /\ pass[p].pc = "trades"
      BY <2>6 DEF BlockFind
    <3>2. /\ pass'[p].pc = "write" /\ pass'[p].cursor = pass[p].cursor
          /\ pass'[p].to = pass[p].to /\ pass'[p].logs = pass[p].logs
          /\ pass[p].logs # {} => "history" \in pass'[p].writing
      BY <2>6, <1>t DEF BlockFind, BlockPass, TypeOK
    <3>3. \A b \in Nat : InPass(p, b)' => InPass(p, b)
      BY <1>1, <3>2 DEF InPass
    <3>4. PassInv(p)'
      BY <1>1, <1>i, <3>1, <3>2, <3>3 DEF PassInv, Behind, Started, Ranged
    <3> QED
      BY <2>n, <3>1, <3>4
  <2>7. CASE LandHistory(p)
    <3>1. PICK new \in SUBSET pass[p].logs :
            /\ history' = history \cup new
            /\ WriteEnds(p, "history", new # pass[p].logs)
      BY <2>7 DEF LandHistory
    <3>2. "history" \in pass[p].writing /\ blockSynced' = blockSynced
      BY <2>7 DEF LandHistory
    <3>3. CASE pass'[p] = NoPass \/ pass'[p].pc = "left"
      BY <2>n, <3>2, <3>3, IdlePass
    <3>4. CASE /\ new = pass[p].logs /\ pass[p].pc # "left"
               /\ pass'[p] = [pass[p] EXCEPT !.writing = @ \ {"history"}, !.pc = "write"]
      <4>1. /\ pass'[p].pc = "write" /\ pass'[p].cursor = pass[p].cursor
            /\ pass'[p].to = pass[p].to
        BY <3>4, <1>t DEF BlockPass
      <4>2. pass[p].pc = "write"
        BY <1>i, <3>2, <3>4 DEF PassInv
      <4>3. \A b \in Nat : InPass(p, b)' => InPass(p, b)
        BY <1>1, <4>1 DEF InPass
      <4>4. PassInv(p)'
        BY <1>1, <1>i, <3>1, <3>4, <4>1, <4>2, <4>3 DEF PassInv, Behind, Started, Ranged
      <4> QED
        BY <2>n, <3>2, <4>4
    <3> QED
      BY <3>1, <3>2, <3>3, <3>4, <1>w
  <2>8. CASE LandBulk(p)
    <3>1. /\ WriteEnds(p, "bulk", FALSE)
          /\ "bulk" \in pass[p].writing /\ blockSynced' = blockSynced /\ history' = history
      BY <2>8 DEF LandBulk
    <3>2. CASE pass'[p] = NoPass \/ pass'[p].pc = "left"
      BY <2>n, <3>1, <3>2, IdlePass
    <3>3. CASE /\ pass[p].pc # "left"
               /\ pass'[p] = [pass[p] EXCEPT !.writing = @ \ {"bulk"}, !.pc = "write"]
      <4>1. /\ pass'[p].pc = "write" /\ pass'[p].cursor = pass[p].cursor
            /\ pass'[p].to = pass[p].to /\ pass'[p].logs = pass[p].logs
            /\ "history" \in pass'[p].writing <=> "history" \in pass[p].writing
        BY <3>3, <1>t DEF BlockPass
      <4>2. pass[p].pc = "write"
        BY <1>i, <3>1, <3>3 DEF PassInv
      <4>3. \A b \in Nat : InPass(p, b)' => InPass(p, b)
        BY <1>1, <4>1 DEF InPass
      <4>4. PassInv(p)'
        BY <1>1, <1>i, <3>1, <4>1, <4>2, <4>3 DEF PassInv, Behind, Started, Ranged
      <4> QED
        BY <2>n, <3>1, <4>4
    <3> QED
      BY <3>1, <3>2, <3>3, <1>w
  <2>9. CASE BlockAdvance(p)
    <3>1. /\ pass[p].pc = "write" /\ pass[p].writing = {}
          /\ blockSynced' = pass[p].to + 1 /\ history' = history
      BY <2>9 DEF BlockAdvance
    <3>2. Behind(pass[p].to + 1) /\ pass[p].to + 1 <= Len(chain) + 2
      BY <1>i, <1>t, <3>1, PassLeavesNothing DEF PassInv, Ranged
    <3>3. Behind(blockSynced)' /\ blockSynced' <= Len(chain) + 2
      BY <1>1, <3>1, <3>2 DEF Behind
    <3>4. CASE pass'[p] = NoPass
      BY <3>3, <3>4, IdlePass
    <3>5. CASE pass' = [pass EXCEPT ![p] =
                          [NoPass EXCEPT !.pc = "router", !.cursor = pass[p].to + 1]]
      <4>1. pass'[p].pc = "router" /\ pass'[p].cursor = pass[p].to + 1 /\ pass'[p].writing = {}
        BY <3>5 DEF NoPass, TypeOK
      <4>2. PassInv(p)'
        BY <1>1, <3>1, <3>2, <4>1 DEF PassInv, Behind, Started, Ranged
      <4> QED
        BY <3>3, <4>2
    <3> QED
      BY <2>9, <3>4, <3>5, <1>e DEF BlockAdvance
  <2>10. CASE BlockWriteFails(p)
    <3>1. PICK w \in {"history", "bulk"} : WriteEnds(p, w, TRUE) /\ w \in pass[p].writing
      BY <2>10 DEF BlockWriteFails
    <3>2. pass'[p] = NoPass \/ pass'[p].pc = "left"
      BY <3>1, <1>w
    <3>3. blockSynced' = blockSynced
      BY <2>10 DEF BlockWriteFails
    <3> QED
      BY <2>n, <3>2, <3>3, IdlePass
  <2>11. CASE BlockFails(p)
    BY <2>11, <2>n, <1>e, IdlePass DEF BlockFails
  <2> QED
    BY <2>1, <2>2, <2>3, <2>4, <2>5, <2>6, <2>7, <2>8, <2>9, <2>10, <2>11 DEF BlockStep
<1> QED
  BY <1>1, <1>3, <1>4 DEF BlockInv

LEMMA BlockInit == Init => BlockInv
<1> SUFFICES ASSUME Init PROVE BlockInv
  OBVIOUS
<1>1. chain = <<>> /\ blockSynced = -StartBack /\ \A p \in Pass : pass[p] = NoPass
  BY DEF Init
<1>2. \A p \in Pass : PassInv(p)
  BY <1>1 DEF PassInv, NoPass, Started, Ranged
<1> QED
  BY <1>1, <1>2, Numbers DEF BlockInv, Behind

LEMMA BlockInvStep ==
    ASSUME BlockOverlap >= Lag + 1, TypeOK, TypeOK', HeadInv, BlockInv, [Next]_vars
    PROVE  BlockInv'
<1>1. CASE Mine
  BY <1>1, MineKeeps
<1>2. CASE \E p \in Pass : BlockStep(p)
  BY <1>2, BlockStepKeeps
<1>3. CASE Crash
  <2>1. \A p \in Pass : PassInv(p)'
    BY <1>3, IdlePass DEF Crash
  <2> QED
    BY <1>3, <2>1 DEF Crash, BlockInv, Behind
<1>4. CASE RefreshHead \/ RouterCron \/ RouterStep \/ UNCHANGED vars
  <2>1. UNCHANGED <<chain, history, blockSynced, pass>>
    BY <1>4 DEF RefreshHead, RouterCron, RouterTick, RouterStart, RouterStep, RouterAnswer,
         RouterHandle, RouterAdvance, RouterFails, RouterLoses, blockVars, vars
  <2>2. \A p \in Pass : PassInv(p)'
    BY <2>1, PassKept DEF BlockInv
  <2> QED
    BY <2>1, <2>2 DEF BlockInv, Behind
<1> QED
  BY <1>1, <1>2, <1>3, <1>4 DEF Next

\* The block job never leaves a closing behind, whatever passes run at once, however far
\* they come, and whichever blocks an RPC node does not have yet, if the overlap exceeds the
\* lag of the nodes.
THEOREM NoCloseSkippedHolds ==
    ASSUME BlockOverlap >= Lag + 1
    PROVE  Spec => []NoCloseSkipped
<1>1. TypeOK /\ BlockInv => NoCloseSkipped
  BY DEF BlockInv, Behind, NoCloseSkipped
<1>2. TypeOK /\ TypeOK' /\ HeadInv /\ BlockInv /\ [Next]_vars => BlockInv'
  BY BlockInvStep
<1>3. Init => BlockInv /\ HeadInv
  BY BlockInit, HeadInit
<1>4. TypeOK /\ HeadInv /\ [Next]_vars => HeadInv'
  BY HeadStep
<1> QED
  BY <1>1, <1>2, <1>3, <1>4, SyncTypeCorrect, PTL DEF Spec
-----------------------------------------------------------------------------
(* The router job's cursor *)

LEMMA CursorInit == Init => CursorInv /\ OpenInv
<1> SUFFICES ASSUME Init PROVE CursorInv /\ OpenInv
  OBVIOUS
<1>1. chain = <<>> /\ tick = {} /\ router.pc = "idle"
  BY DEF Init, NoRouterPass
<1> QED
  BY <1>1 DEF CursorInv, OpenInv, OpensBehind

\* The cursor of a pass that begins.
LEMMA RouterBeginCursor ==
    ASSUME NEW cursor
    PROVE  \/ RouterBegin(cursor) = NoRouterPass
           \/ RouterBegin(cursor).pc = "query" /\ RouterBegin(cursor).cursor = cursor
BY DEF RouterBegin

\* What the steps of the router job do to its pass.
LEMMA RouterPassSteps ==
    ASSUME TypeOK, RouterStep
    PROVE  /\ UNCHANGED <<chain, tick>>
           /\ \/ RouterFails
              \/ RouterLoses
              \/ RouterAdvance
              \/ /\ RouterAnswer \/ RouterHandle
                 /\ router'.pc = IF RouterAnswer THEN "handle" ELSE "advance"
                 /\ router'.cursor = router.cursor
                 /\ router'.to = router.to
                 /\ routerSynced' = routerSynced
<1>1. router \in RouterPass
  BY DEF TypeOK
<1>2. CASE RouterAnswer
  <2>1. PICK events : router' = [router EXCEPT !.pc = "handle", !.events = events]
    BY <1>2 DEF RouterAnswer
  <2> QED
    BY <1>1, <1>2, <2>1 DEF RouterAnswer, RouterPass
<1>3. CASE RouterHandle
  <2>1. ~RouterAnswer
    BY <1>3 DEF RouterHandle, RouterAnswer
  <2>2. /\ router'.pc = "advance" /\ router'.cursor = router.cursor /\ router'.to = router.to
        /\ UNCHANGED <<chain, tick, routerSynced>>
    BY <1>1, <1>3 DEF RouterHandle, RouterPass
  <2> QED
    BY <1>3, <2>1, <2>2
<1>4. CASE RouterFails \/ RouterLoses \/ RouterAdvance
  BY <1>4 DEF RouterFails, RouterLoses, RouterAdvance
<1> QED
  BY <1>2, <1>3, <1>4 DEF RouterStep

LEMMA CursorStep ==
    ASSUME TypeOK, HeadInv, CursorInv, [Next]_vars
    PROVE  CursorInv'
<1>t. /\ Len(chain) \in Nat /\ routerSynced \in Int /\ router.to \in Int
      /\ router.cursor \in Int /\ tick \subseteq Int
  BY DEF TypeOK, RouterPass
<1>1. CASE Mine
  <2>1. PICK log \in Log \cup {NoLog} : chain' = Append(chain, log)
    BY <1>1, MineAppends
  <2>2. Len(chain') = Len(chain) + 1
    BY <2>1, AppendedChain DEF TypeOK
  <2> QED
    BY <1>1, <1>t, <2>2 DEF Mine, CursorInv, routerVars
<1>2. CASE RouterTick
  BY <1>2 DEF RouterTick, CursorInv, HeadInv
<1>3. CASE RouterStart
  BY <1>3, <1>t, RouterBeginCursor DEF RouterStart, CursorInv, NoRouterPass
<1>4. CASE RouterStep
  <2>1. CASE RouterAdvance
    <3>1. UNCHANGED <<chain, tick>> /\ router.to + 1 <= Len(chain) + 1
      BY <1>t, <2>1 DEF RouterAdvance, HeadInv
    <3> QED
      BY <2>1, <3>1, RouterBeginCursor DEF RouterAdvance, CursorInv, NoRouterPass
  <2>2. CASE RouterFails
    BY <2>2 DEF RouterFails, CursorInv, NoRouterPass
  <2>3. CASE RouterLoses
    <3>1. router'.cursor = router.cursor
      BY <2>3 DEF RouterLoses, TypeOK, RouterPass
    <3> QED
      BY <2>3, <3>1 DEF RouterLoses, CursorInv
  <2>4. CASE RouterAnswer \/ RouterHandle
    <3>1. router.pc # "idle"
      BY <2>4 DEF RouterAnswer, RouterHandle
    <3> QED
      BY <1>4, <2>1, <2>2, <2>3, <2>4, <3>1, RouterPassSteps DEF CursorInv
  <2> QED
    BY <1>4, <2>1, <2>2, <2>3, <2>4 DEF RouterStep
<1>5. CASE RefreshHead \/ (\E p \in Pass : BlockStep(p)) \/ UNCHANGED vars
  <2>1. UNCHANGED <<chain, tick, router>>
    BY <1>5 DEF RefreshHead, vars, BlockStep, BlockTick, BlockStart, BlockRange, BlockLogs,
         BlockLookup, BlockFind, LandHistory, LandBulk, BlockAdvance, BlockWriteFails,
         BlockFails, routerVars
  <2> QED
    BY <2>1 DEF CursorInv
<1>6. CASE Crash
  BY <1>6 DEF Crash, CursorInv, NoRouterPass
<1> QED
  BY <1>1, <1>2, <1>3, <1>4, <1>5, <1>6 DEF Next, RouterCron

\* No step queues a trade again, and a trade that was opened is one of Trade.
LEMMA TradesKept ==
    ASSUME TypeOK, [Next]_vars, NEW t \in Trade, trades[t] # "QUEUED"
    PROVE  trades'[t] # "QUEUED"
<1>1. ASSUME NEW events, RecordOpens(events) PROVE trades'[t] # "QUEUED"
  BY <1>1 DEF RecordOpens
<1>2. ASSUME NEW found, RecordCloses(found) PROVE trades'[t] # "QUEUED"
  BY <1>2 DEF RecordCloses
<1>3. CASE RouterHandle \/ RouterLoses
  BY <1>1, <1>3 DEF RouterHandle, RouterLoses
<1>4. CASE \E p \in Pass : LandBulk(p) \/ BlockWriteFails(p)
  BY <1>2, <1>4 DEF LandBulk, BlockWriteFails
<1>5. CASE trades' = trades
  BY <1>5
<1>6. \/ RouterHandle \/ RouterLoses
      \/ \E p \in Pass : LandBulk(p) \/ BlockWriteFails(p)
      \/ trades' = trades
  BY DEF Next, vars, Mine, RefreshHead, RouterCron, RouterTick, RouterStart, RouterStep,
         RouterAnswer, RouterAdvance, RouterFails, BlockStep, BlockTick, BlockStart, BlockRange,
         BlockLogs, BlockLookup, BlockFind, LandHistory, BlockAdvance, BlockFails, Crash
<1> QED
  BY <1>3, <1>4, <1>5, <1>6

LEMMA OpenedTrade ==
    ASSUME TypeOK, NEW b \in DOMAIN chain, chain[b].event = "open"
    PROVE  chain[b].trade \in Trade
<1>1. chain[b] \in Log \cup {NoLog}
  BY DEF TypeOK
<1> QED
  BY <1>1 DEF Log, NoLog

\* What is behind a cursor stays so, also when a block is mined beyond it.
LEMMA OpensBehindKept ==
    ASSUME TypeOK, [Next]_vars, NEW c \in Int, c <= Len(chain) + 1, OpensBehind(c)
    PROVE  \A b \in DOMAIN chain' :
              chain'[b].event = "open" /\ b + Lag + 1 <= c => trades'[chain'[b].trade] # "QUEUED"
<1> SUFFICES ASSUME NEW b \in DOMAIN chain', chain'[b].event = "open", b + Lag + 1 <= c
             PROVE  trades'[chain'[b].trade] # "QUEUED"
  OBVIOUS
<1>1. b \in DOMAIN chain /\ chain'[b] = chain[b]
  <2>1. CASE Mine
    <3>1. PICK log \in Log \cup {NoLog} : chain' = Append(chain, log)
      BY <2>1, MineAppends
    <3>2. /\ DOMAIN chain' = DOMAIN chain \cup {Len(chain) + 1}
          /\ \A d \in DOMAIN chain : chain'[d] = chain[d]
      BY <3>1, AppendedChain DEF TypeOK
    <3>3. Len(chain) \in Nat
      BY DEF TypeOK
    <3>4. b # Len(chain) + 1
      BY <3>3, Numbers
    <3> QED
      BY <3>2, <3>4
  <2>2. CASE chain' = chain
    BY <2>2
  <2>3. Mine \/ chain' = chain
    BY DEF Next, vars, RefreshHead, RouterCron, RouterTick, RouterStart, RouterStep,
         RouterAnswer, RouterHandle, RouterLoses, RouterAdvance, RouterFails, BlockStep,
         BlockTick, BlockStart, BlockRange, BlockLogs, BlockLookup, BlockFind, LandHistory,
         LandBulk, BlockWriteFails, BlockAdvance, BlockFails, Crash
  <2> QED
    BY <2>1, <2>2, <2>3
<1>2. chain[b].trade \in Trade /\ trades[chain[b].trade] # "QUEUED"
  BY <1>1, OpenedTrade DEF OpensBehind
<1> QED
  BY <1>1, <1>2, TradesKept

\* With an overlap of at least Lag blocks a pass that has recorded leaves nothing behind.
LEMMA RouterLeavesNothing ==
    ASSUME RouterOverlap >= Lag, TypeOK, OpenInv, router.pc = "advance"
    PROVE  OpensBehind(router.to + 1)
<1> SUFFICES ASSUME NEW b \in DOMAIN chain, chain[b].event = "open",
                    b + Lag + 1 <= router.to + 1
             PROVE  trades[chain[b].trade] # "QUEUED"
  BY DEF OpensBehind
<1>1. router.to \in Int /\ router.cursor \in Int /\ b \in Nat
  BY DEF TypeOK, RouterPass
<1>2. CASE PassBegin(router.cursor, RouterOverlap) <= b
  <2>1. InRouterPass(b)
    BY <1>1, <1>2, Numbers DEF InRouterPass
  <2> QED
    BY <1>1, <2>1 DEF OpenInv
<1>3. CASE ~(PassBegin(router.cursor, RouterOverlap) <= b)
  <2>1. b + Lag + 1 <= router.cursor
    BY <1>1, <1>3, Numbers DEF PassBegin
  <2> QED
    BY <2>1 DEF OpenInv, OpensBehind
<1> QED
  BY <1>2, <1>3

\* The answer has the openings up to Lag blocks before the end of the pass.
LEMMA RouterAnswerCovers ==
    ASSUME TypeOK, router.to <= Len(chain), NEW h \in Heights, NEW b \in Nat, InRouterPass(b)
    PROVE  b \in OpensIn(PassBegin(router.cursor, RouterOverlap), router.to, h)
<1>1. router.to \in Int /\ router.cursor \in Int /\ Len(chain) \in Nat
  BY DEF TypeOK, RouterPass
<1>2. h \in Int /\ h >= Len(chain) - Lag
  BY <1>1, Numbers DEF Heights
<1>3. b <= h /\ b <= router.to
  BY <1>1, <1>2, Numbers DEF InRouterPass
<1> QED
  BY <1>3 DEF OpensIn, InRouterPass

\* While no step fails, the steps of the router job keep OpenInv.
LEMMA OpenStep ==
    ASSUME RouterOverlap >= Lag, TypeOK, TypeOK', HeadInv, CursorInv, OpenInv, [Next]_vars,
           ~RouterLoses
    PROVE  OpenInv'
<1>t. /\ routerSynced \in Int /\ router.cursor \in Int /\ router.to \in Int
      /\ tick \subseteq Int /\ router \in RouterPass /\ Len(chain) \in Nat
  <2>1. router \in RouterPass
    BY DEF TypeOK
  <2>2. Len(chain) \in Nat /\ routerSynced \in Int /\ tick \subseteq Int
    BY DEF TypeOK
  <2> QED
    BY <2>1, <2>2 DEF RouterPass
<1>b. ASSUME NEW c \in Int, c <= Len(chain) + 1, OpensBehind(c)
      PROVE  \A b \in DOMAIN chain' :
                chain'[b].event = "open" /\ b + Lag + 1 <= c
                   => trades'[chain'[b].trade] # "QUEUED"
  BY <1>b, OpensBehindKept
<1>s. OpensBehind(routerSynced) /\ routerSynced <= Len(chain) + 1
  BY DEF OpenInv, HeadInv
<1>c. \A c \in tick : c \in Int /\ c <= Len(chain) + 1 /\ OpensBehind(c)
  BY <1>t DEF OpenInv, CursorInv
<1>r. router.pc # "idle" => OpensBehind(router.cursor) /\ router.cursor <= Len(chain) + 1
  BY DEF OpenInv, CursorInv
<1>k. ASSUME NEW b \in DOMAIN chain, chain[b].event = "open",
             trades[chain[b].trade] # "QUEUED"
      PROVE  trades'[chain[b].trade] # "QUEUED"
  BY <1>k, OpenedTrade, TradesKept
<1>1. CASE UNCHANGED <<routerSynced, tick, router>>
  <2>1. OpensBehind(routerSynced)'
    BY <1>1, <1>b, <1>s, <1>t DEF OpensBehind
  <2>2. (\A c \in tick : OpensBehind(c))'
    BY <1>1, <1>b, <1>c DEF OpensBehind
  <2>3. (router.pc # "idle" => OpensBehind(router.cursor))'
    BY <1>1, <1>b, <1>r, <1>t DEF OpensBehind
  <2>4. ASSUME NEW b \in Nat, router.pc # "idle", InRouterPass(b)'
        PROVE  InRouterPass(b) /\ chain'[b] = chain[b]
    <3>1. CASE Mine
      <4>1. PICK log \in Log \cup {NoLog} : chain' = Append(chain, log)
        BY <3>1, MineAppends
      <4>2. /\ DOMAIN chain' = DOMAIN chain \cup {Len(chain) + 1}
            /\ \A d \in DOMAIN chain : chain'[d] = chain[d]
        BY <4>1, AppendedChain DEF TypeOK
      <4>3. b # Len(chain) + 1
        BY <1>1, <1>t, <2>4, Numbers DEF InRouterPass, HeadInv
      <4> QED
        BY <1>1, <2>4, <4>2, <4>3 DEF InRouterPass
    <3>2. CASE chain' = chain
      BY <1>1, <2>4, <3>2 DEF InRouterPass
    <3>3. Mine \/ chain' = chain
      BY DEF Next, vars, RefreshHead, RouterCron, RouterTick, RouterStart, RouterStep,
           RouterAnswer, RouterHandle, RouterLoses, RouterAdvance, RouterFails, BlockStep,
           BlockTick, BlockStart, BlockRange, BlockLogs, BlockLookup, BlockFind, LandHistory,
           LandBulk, BlockWriteFails, BlockAdvance, BlockFails, Crash
    <3> QED
      BY <3>1, <3>2, <3>3
  <2>5. ASSUME NEW b \in Nat, router.pc = "handle", InRouterPass(b)'
        PROVE  b \in router.events \/ trades'[chain'[b].trade] # "QUEUED"
    BY <1>k, <2>4, <2>5 DEF OpenInv, InRouterPass
  <2>6. ASSUME NEW b \in Nat, router.pc = "advance", InRouterPass(b)'
        PROVE  trades'[chain'[b].trade] # "QUEUED"
    BY <1>k, <2>4, <2>6 DEF OpenInv, InRouterPass
  <2> QED
    BY <1>1, <2>1, <2>2, <2>3, <2>5, <2>6 DEF OpenInv
<1>2. CASE RouterTick
  <2>1. UNCHANGED <<chain, trades, routerSynced, router>> /\ tick' = {routerSynced}
    BY <1>2 DEF RouterTick
  <2> QED
    BY <2>1 DEF OpenInv, OpensBehind, InRouterPass
<1>3. CASE RouterStart
  <2>1. UNCHANGED <<chain, trades, routerSynced>> /\ tick' = {}
    BY <1>3 DEF RouterStart
  <2>2. CASE router' = router
    BY <2>1, <2>2 DEF OpenInv, OpensBehind, InRouterPass
  <2>3. ASSUME NEW c \in tick, router' = RouterBegin(c) PROVE OpenInv'
    BY <1>s, <1>c, <2>1, <2>3, RouterBeginCursor DEF OpenInv, OpensBehind, NoRouterPass
  <2> QED
    BY <1>3, <2>2, <2>3 DEF RouterStart
<1>4. CASE RouterAnswer
  <2>1. /\ UNCHANGED <<chain, trades, routerSynced, tick>> /\ router.pc = "query"
    BY <1>4 DEF RouterAnswer
  <2>2. PICK h \in Heights : router' = [router EXCEPT !.pc = "handle",
                  !.events = OpensIn(PassBegin(router.cursor, RouterOverlap), router.to, h)]
    BY <1>4 DEF RouterAnswer
  <2>3. /\ router'.pc = "handle" /\ router'.cursor = router.cursor /\ router'.to = router.to
        /\ router'.events = OpensIn(PassBegin(router.cursor, RouterOverlap), router.to, h)
    BY <1>t, <2>2 DEF RouterPass
  <2>4. router.to <= Len(chain)
    BY <2>1 DEF HeadInv
  <2>5. \A b \in Nat : InRouterPass(b) => b \in router'.events
    BY <2>3, <2>4, RouterAnswerCovers
  <2>6. \A b \in Nat : InRouterPass(b)' => InRouterPass(b)
    BY <2>1, <2>3 DEF InRouterPass
  <2> QED
    BY <1>s, <1>c, <1>r, <2>1, <2>3, <2>5, <2>6 DEF OpenInv, OpensBehind
<1>5. CASE RouterHandle
  <2>1. /\ UNCHANGED <<chain, routerSynced, tick>> /\ router.pc = "handle"
        /\ RecordOpens(router.events)
    BY <1>5 DEF RouterHandle
  <2>2. /\ router'.pc = "advance" /\ router'.cursor = router.cursor /\ router'.to = router.to
    BY <1>5, <1>t DEF RouterHandle, RouterPass
  <2>3. \A b \in Nat : InRouterPass(b)' => InRouterPass(b)
    BY <2>1, <2>2 DEF InRouterPass
  <2>4. ASSUME NEW b \in Nat, InRouterPass(b)
        PROVE  trades'[chain[b].trade] # "QUEUED"
    <3>1. b \in DOMAIN chain /\ chain[b].event = "open"
      BY <2>4 DEF InRouterPass
    <3>2. chain[b].trade \in Trade
      BY <3>1, OpenedTrade
    <3>3. CASE b \in router.events
      BY <2>1, <3>2, <3>3 DEF RecordOpens
    <3>4. CASE trades[chain[b].trade] # "QUEUED"
      BY <1>k, <3>1, <3>4
    <3> QED
      BY <2>1, <2>4, <3>3, <3>4 DEF OpenInv
  <2>5. \A b \in DOMAIN chain : chain[b].event = "open" /\ trades[chain[b].trade] # "QUEUED"
           => trades'[chain[b].trade] # "QUEUED"
    BY <1>k
  <2> QED
    BY <1>s, <1>c, <1>r, <2>1, <2>2, <2>3, <2>4, <2>5 DEF OpenInv, OpensBehind
<1>6. CASE RouterAdvance
  <2>1. /\ UNCHANGED <<chain, trades, tick>> /\ routerSynced' = router.to + 1
        /\ router.pc = "advance"
    BY <1>6 DEF RouterAdvance
  <2>2. OpensBehind(router.to + 1)
    BY <2>1, RouterLeavesNothing
  <2>3. OpensBehind(routerSynced)' /\ (\A c \in tick : OpensBehind(c))'
    BY <1>c, <2>1, <2>2 DEF OpensBehind
  <2>4. router' = NoRouterPass \/ router' = RouterBegin(router.to + 1)
    BY <1>6 DEF RouterAdvance
  <2>5. \/ router'.pc = "idle"
        \/ router'.pc = "query" /\ router'.cursor = router.to + 1
    BY <2>4, RouterBeginCursor DEF NoRouterPass
  <2> QED
    BY <2>1, <2>2, <2>3, <2>5 DEF OpenInv, OpensBehind
<1>7. CASE RouterFails
  <2>1. UNCHANGED <<chain, trades, routerSynced, tick>> /\ router'.pc = "idle"
    BY <1>7 DEF RouterFails, NoRouterPass
  <2> QED
    BY <2>1 DEF OpenInv, OpensBehind
<1>8. CASE Crash
  <2>1. UNCHANGED <<chain, trades, routerSynced>> /\ tick' = {} /\ router'.pc = "idle"
    BY <1>8 DEF Crash, NoRouterPass
  <2> QED
    BY <2>1 DEF OpenInv, OpensBehind
<1>9. CASE Mine \/ RefreshHead \/ (\E p \in Pass : BlockStep(p)) \/ UNCHANGED vars
  <2>1. UNCHANGED <<routerSynced, tick, router>>
    BY <1>9 DEF Mine, RefreshHead, vars, BlockStep, BlockTick, BlockStart, BlockRange,
         BlockLogs, BlockLookup, BlockFind, LandHistory, LandBulk, BlockAdvance,
         BlockWriteFails, BlockFails, routerVars
  <2> QED
    BY <1>1, <2>1
<1> QED
  BY <1>2, <1>3, <1>4, <1>5, <1>6, <1>7, <1>8, <1>9 DEF Next, RouterCron, RouterStep

\* Nothing has failed before a step after which nothing has.
LEMMA FaultsStay ==
    ASSUME TypeOK, [Next]_vars, faults' = 0
    PROVE  faults = 0 /\ ~RouterLoses
<1>1. faults \in Nat
  BY EventSyncAssumption DEF TypeOK
<1>2. ASSUME NEW kind, Fault(kind) PROVE FALSE
  BY <1>1, <1>2 DEF Fault
<1>3. /\ ~RouterLoses /\ ~RouterFails
      /\ \A p \in Pass : ~BlockWriteFails(p) /\ ~BlockFails(p)
  BY <1>2 DEF RouterLoses, RouterFails, BlockWriteFails, BlockFails
<1>4. faults' = faults
  BY <1>3 DEF Next, vars, Mine, RefreshHead, RouterCron, RouterTick, RouterStart, RouterStep,
         RouterAnswer, RouterHandle, RouterAdvance, BlockStep, BlockTick, BlockStart, BlockRange,
         BlockLogs, BlockLookup, BlockFind, LandHistory, LandBulk, BlockAdvance, Crash, bounded
<1> QED
  BY <1>3, <1>4

\* While no step has failed, the router job leaves no opening behind that it has not
\* recorded, although its cron may start from a cursor that is stale.
THEOREM NoOpenSkippedHolds ==
    ASSUME RouterOverlap >= Lag
    PROVE  Spec => []NoOpenSkipped
<1> DEFINE Inv == CursorInv /\ (faults = 0 => OpenInv)
<1>1. TypeOK /\ Inv => NoOpenSkipped
  BY DEF OpenInv, OpensBehind, NoOpenSkipped
<1>2. TypeOK /\ TypeOK' /\ HeadInv /\ Inv /\ [Next]_vars => Inv'
  BY CursorStep, OpenStep, FaultsStay
<1>3. Init => Inv /\ HeadInv
  BY CursorInit, HeadInit
<1>4. TypeOK /\ HeadInv /\ [Next]_vars => HeadInv'
  BY HeadStep
<1> QED
  BY <1>1, <1>2, <1>3, <1>4, SyncTypeCorrect, PTL DEF Spec

-----------------------------------------------------------------------------
(* What the router job's cursor has reached *)

\* The cursor may fall back, when the head it is given does, but never by more than Lag
\* blocks: a height it has reached stays reached up to Lag.
Reached(n) ==
    /\ n <= routerSynced + Lag
    /\ n <= Len(chain) + 1
    /\ knownHead # NoHead => n <= knownHead + 1 + Lag
    /\ router.pc # "idle" => n <= router.to + 1 + Lag

\* Without slow reads a pass of the router job begins where the cursor is.
CursorKept ==
    /\ routerSynced >= 0
    /\ knownHead = NoHead \/ knownHead >= 0
    /\ tick \subseteq {routerSynced}
    /\ router.pc # "idle" =>
          /\ tick = {} /\ router.cursor = routerSynced /\ router.to >= 0
          /\ knownHead # NoHead => router.to <= knownHead + Lag
    /\ Reached(routerSynced)

LEMMA ReachedBelow ==
    ASSUME TypeOK, NEW m \in Int, NEW n \in Int, m <= n, Reached(n) PROVE Reached(m)
<1>1. /\ routerSynced \in Int /\ Len(chain) \in Int /\ knownHead \in Int /\ Lag \in Int
      /\ router \in RouterPass
  BY Numbers DEF TypeOK
<1>2. router.to \in Int
  BY <1>1 DEF RouterPass
<1> QED
  BY <1>1, <1>2 DEF Reached

LEMMA RouterBeginReached ==
    ASSUME TypeOK, NEW c \in Int, c >= 0, knownHead = NoHead \/ knownHead >= 0,
           RouterBegin(c).pc # "idle"
    PROVE  /\ RouterBegin(c).pc = "query" /\ RouterBegin(c).cursor = c
           /\ RouterBegin(c).to \in Int /\ RouterBegin(c).to >= 0
           /\ knownHead # NoHead /\ RouterBegin(c).to <= knownHead
           /\ \A n \in Int : n <= c + Lag /\ n <= knownHead + 1 + Lag
                                => n <= RouterBegin(c).to + 1 + Lag
<1>0. knownHead \in Int
  BY DEF TypeOK
<1>1. /\ PassBegin(c, RouterOverlap) <= knownHead
      /\ RouterBegin(c) = [pc |-> "query", cursor |-> c, head |-> knownHead, events |-> {},
                           to |-> PassEnd(c, RouterWindow, knownHead, RouterOverlap)]
  <2>1. PassBegin(c, RouterOverlap) \in Int
    BY Numbers DEF PassBegin
  <2> QED
    BY <1>0, <2>1 DEF RouterBegin, NoRouterPass
<1>2. knownHead # NoHead
  BY <1>0, <1>1, Numbers DEF NoHead, PassBegin
<1>3. /\ RouterBegin(c).pc = "query" /\ RouterBegin(c).cursor = c
      /\ RouterBegin(c).to = PassEnd(c, RouterWindow, knownHead, RouterOverlap)
  BY <1>1
<1> DEFINE to == PassEnd(c, RouterWindow, knownHead, RouterOverlap)
<1>4. to \in Int /\ to <= knownHead
  BY <1>0, <1>1, Numbers, PassEndRange
<1>5. to >= 0 /\ (to >= c \/ to >= knownHead)
  BY <1>0, <1>2, Numbers DEF PassEnd, PassBegin, Max2, Min2
<1> HIDE DEF to
<1>6. \A n \in Int : n <= c + Lag /\ n <= knownHead + 1 + Lag => n <= to + 1 + Lag
  BY <1>0, <1>4, <1>5, Numbers
<1> QED
  BY <1>2, <1>3, <1>4, <1>5, <1>6 DEF to

LEMMA CursorKeptStep ==
    ASSUME ~SlowReads, TypeOK, HeadInv, CursorKept, [Next]_vars
    PROVE  CursorKept' /\ \A n \in Int : Reached(n) => Reached(n)'
<1>0. /\ routerSynced \in Int /\ Len(chain) \in Nat /\ knownHead \in Int /\ Lag \in Int /\ Lag >= 0
      /\ router \in RouterPass /\ router.to \in Int
  <2>1. router \in RouterPass
    BY DEF TypeOK
  <2> QED
    BY <2>1, Numbers DEF TypeOK, RouterPass
<1>i. NoRouterPass.pc = "idle"
  BY DEF NoRouterPass
<1> DEFINE Goal == CursorKept' /\ \A n \in Int : Reached(n) => Reached(n)'
<1>1. CASE Mine
  <2>1. PICK log \in Log \cup {NoLog} : chain' = Append(chain, log)
    BY <1>1, MineAppends
  <2>2. Len(chain') = Len(chain) + 1
    BY <2>1, AppendedChain DEF TypeOK
  <2>3. UNCHANGED <<routerSynced, knownHead, tick, router>>
    BY <1>1 DEF Mine, routerVars
  <2> QED
    BY <1>0, <2>2, <2>3 DEF CursorKept, Reached
<1>2. CASE RefreshHead
  <2>1. /\ knownHead' \in Int /\ knownHead' >= Len(chain) - Lag /\ knownHead' >= 0
    BY <1>0, <1>2 DEF RefreshHead, Heights
  <2>2. UNCHANGED <<chain, routerSynced, tick, router>>
    BY <1>2 DEF RefreshHead, routerVars
  <2>3. router.pc # "idle" => router.to <= Len(chain)
    BY DEF HeadInv
  <2>4. \A n \in Int : n <= Len(chain) + 1 => n <= knownHead' + 1 + Lag
    <3>1. \A k, l, n \in Int : k >= l - Lag /\ n <= l + 1 => n <= k + 1 + Lag
      BY <1>0
    <3>2. Len(chain) \in Int
      BY <1>0
    <3> QED
      BY <2>1, <3>1, <3>2
  <2>5. \A n \in Int : Reached(n) => Reached(n)'
    BY <2>2, <2>4 DEF Reached
  <2>6. router.pc # "idle" => router.to <= knownHead' + Lag
    BY <1>0, <2>1, <2>3
  <2> QED
    BY <1>0, <2>1, <2>2, <2>5, <2>6 DEF CursorKept
<1>3. CASE RouterTick
  <2>1. router.pc = "idle" /\ tick' = {routerSynced} /\ UNCHANGED <<chain, routerSynced, knownHead, router>>
    BY <1>3 DEF RouterTick
  <2> QED
    BY <2>1 DEF CursorKept, Reached
<1>4. CASE RouterStart
  <2>1. PICK c \in tick : router' = IF router.pc = "idle" THEN RouterBegin(c) ELSE router
    BY <1>4 DEF RouterStart
  <2>2. c = routerSynced /\ router' = RouterBegin(routerSynced)
    BY <2>1 DEF CursorKept
  <2>3. tick' = {} /\ UNCHANGED <<chain, routerSynced, knownHead>>
    BY <1>4 DEF RouterStart
  <2>4. CASE router'.pc = "idle"
    BY <2>3, <2>4 DEF CursorKept, Reached
  <2>5. CASE router'.pc # "idle"
    <3>1. /\ router'.cursor = routerSynced /\ router'.to \in Int /\ router'.to >= 0
          /\ knownHead # NoHead /\ router'.to <= knownHead
          /\ \A n \in Int : n <= routerSynced + Lag /\ n <= knownHead + 1 + Lag
                               => n <= router'.to + 1 + Lag
      BY <1>0, <2>2, <2>5, RouterBeginReached DEF CursorKept
    <3>2. \A n \in Int : Reached(n) => Reached(n)'
      BY <2>3, <3>1 DEF Reached
    <3> QED
      BY <1>0, <2>3, <3>1, <3>2 DEF CursorKept
  <2> QED
    BY <2>4, <2>5
<1>5. CASE RouterAnswer \/ RouterHandle \/ RouterLoses
  <2>1. /\ UNCHANGED <<chain, routerSynced, knownHead, tick>>
        /\ router.pc # "idle" /\ router'.pc # "idle"
        /\ router'.to = router.to /\ router'.cursor = router.cursor
    BY <1>0, <1>5 DEF RouterAnswer, RouterHandle, RouterLoses, RouterPass
  <2> QED
    BY <2>1 DEF CursorKept, Reached
<1>6. CASE RouterFails
  <2>1. UNCHANGED <<chain, routerSynced, knownHead, tick>> /\ router'.pc = "idle"
    BY <1>i, <1>6 DEF RouterFails
  <2> QED
    BY <2>1 DEF CursorKept, Reached
<1>7. CASE RouterAdvance
  <2>1. /\ router.pc = "advance" /\ routerSynced' = router.to + 1
        /\ router' = RouterBegin(router.to + 1) \/ router' = NoRouterPass
        /\ UNCHANGED <<chain, knownHead, tick>>
    BY <1>7 DEF RouterAdvance
  <2>2. /\ router.to >= 0 /\ tick = {} /\ router.to <= Len(chain)
        /\ knownHead # NoHead => router.to <= knownHead + Lag
    BY <2>1 DEF CursorKept, HeadInv
  <2>3. \A n \in Int : Reached(n) => n <= router.to + 1 + Lag
    BY <2>1 DEF Reached
  <2>4. CASE router'.pc = "idle"
    <3>1. \A n \in Int : Reached(n) => Reached(n)'
      BY <2>1, <2>3, <2>4 DEF Reached
    <3>2. Reached(routerSynced)'
      BY <1>0, <2>1, <2>2, <2>4 DEF Reached
    <3> QED
      BY <1>0, <2>1, <2>2, <2>4, <3>1, <3>2 DEF CursorKept
  <2>5. CASE router'.pc # "idle"
    <3>1. router' = RouterBegin(router.to + 1)
      BY <1>i, <2>1, <2>5
    <3>2. /\ router'.cursor = router.to + 1 /\ router'.to \in Int /\ router'.to >= 0
          /\ knownHead # NoHead /\ router'.to <= knownHead
          /\ \A n \in Int : n <= router.to + 1 + Lag /\ n <= knownHead + 1 + Lag
                               => n <= router'.to + 1 + Lag
      BY SMTT(30), <1>0, <2>2, <2>5, <3>1, RouterBeginReached DEF CursorKept
    <3>3. \A n \in Int : Reached(n) => Reached(n)'
      BY <2>1, <2>3, <3>2 DEF Reached
    <3>4. Reached(routerSynced)'
      BY <1>0, <2>1, <2>2, <3>2 DEF Reached
    <3> QED
      BY <1>0, <2>1, <2>2, <3>2, <3>3, <3>4 DEF CursorKept
  <2> QED
    BY <2>4, <2>5
<1>8. CASE Crash
  <2>1. /\ UNCHANGED <<chain, routerSynced>> /\ knownHead' = NoHead /\ tick' = {}
        /\ router'.pc = "idle"
    BY <1>i, <1>8 DEF Crash
  <2>2. NoHead' = NoHead
    BY DEF NoHead
  <2> QED
    BY <2>1, <2>2 DEF CursorKept, Reached
<1>9. CASE (\E p \in Pass : BlockStep(p)) \/ UNCHANGED vars
  <2>1. UNCHANGED <<chain, routerSynced, knownHead, tick, router>>
    BY <1>9 DEF BlockStep, BlockTick, BlockStart, BlockRange, BlockLogs, BlockLookup, BlockFind,
         LandHistory, LandBulk, BlockWriteFails, BlockAdvance, BlockFails, routerVars, vars
  <2> QED
    BY <2>1 DEF CursorKept, Reached
<1> QED
  BY <1>1, <1>2, <1>3, <1>4, <1>5, <1>6, <1>7, <1>8, <1>9 DEF Next, RouterCron, RouterStep

-----------------------------------------------------------------------------
(* What the chain says of a trade *)

\* A trade is opened once and closed MinLife blocks later or more.
Lives ==
    \A t \in Trade :
       /\ \A b, c \in DOMAIN chain : chain[b] = Open(t) /\ chain[c] = Open(t) => b = c
       /\ \A c \in DOMAIN chain : chain[c] = Close(t) =>
             \E b \in DOMAIN chain : chain[b] = Open(t) /\ b + MinLife <= c

LEMMA LogNames ==
    ASSUME TypeOK, NEW b \in DOMAIN chain
    PROVE  /\ chain[b].event = "open" => chain[b].trade \in Trade /\ chain[b] = Open(chain[b].trade)
           /\ chain[b].event = "close" => chain[b].trade \in Trade /\ chain[b] = Close(chain[b].trade)
<1>1. chain[b] \in Log \cup {NoLog}
  BY DEF TypeOK
<1>2. NoLog.event = "none"
  BY DEF NoLog
<1> QED
  BY <1>1, <1>2 DEF Log, Open, Close

LEMMA ChainKept ==
    ASSUME TypeOK, [Next]_vars
    PROVE  /\ \A b \in DOMAIN chain : b \in DOMAIN chain' /\ chain'[b] = chain[b]
           /\ ~Mine => chain' = chain
<1>1. CASE Mine
  <2>1. PICK log \in Log \cup {NoLog} : chain' = Append(chain, log)
    BY <1>1, MineAppends
  <2> QED
    BY <1>1, <2>1, AppendedChain DEF TypeOK
<1>2. ~Mine => chain' = chain
  BY DEF Next, vars, RefreshHead, RouterCron, RouterTick, RouterStart, RouterStep,
       RouterAnswer, RouterHandle, RouterLoses, RouterAdvance, RouterFails, BlockStep,
       BlockTick, BlockStart, BlockRange, BlockLogs, BlockLookup, BlockFind, LandHistory,
       LandBulk, BlockWriteFails, BlockAdvance, BlockFails, Crash
<1> QED
  BY <1>1, <1>2

LEMMA LivesStep ==
    ASSUME TypeOK, Lives, [Next]_vars PROVE Lives'
<1>1. CASE Mine
  <2>1. PICK log \in Log \cup {NoLog} :
           /\ chain' = Append(chain, log)
           /\ \A t \in Trade :
                 /\ log = Open(t) => \A b \in DOMAIN chain : chain[b] # Open(t)
                 /\ log = Close(t) =>
                       \E b \in DOMAIN chain : chain[b] = Open(t) /\ b + MinLife <= Len(chain) + 1
    <3>1. \A t, u \in Trade : /\ Open(t) # Close(u) /\ Open(t) # NoLog /\ Close(t) # NoLog
                              /\ Open(t) \in Log /\ Close(t) \in Log
                              /\ Open(t) = Open(u) => t = u
                              /\ Close(t) = Close(u) => t = u
      BY DEF Open, Close, NoLog, Log
    <3>2. CASE chain' = Append(chain, NoLog)
      BY <3>1, <3>2
    <3>3. ASSUME NEW t \in Trade, \A b \in DOMAIN chain : chain[b] # Open(t),
                 chain' = Append(chain, Open(t))
          PROVE  \E log \in Log \cup {NoLog} :
           /\ chain' = Append(chain, log)
           /\ \A u \in Trade :
                 /\ log = Open(u) => \A b \in DOMAIN chain : chain[b] # Open(u)
                 /\ log = Close(u) =>
                       \E b \in DOMAIN chain : chain[b] = Open(u) /\ b + MinLife <= Len(chain) + 1
      BY <3>1, <3>3
    <3>4. ASSUME NEW t \in Trade,
                 \E b \in DOMAIN chain : chain[b] = Open(t) /\ b + MinLife <= Len(chain) + 1,
                 chain' = Append(chain, Close(t))
          PROVE  \E log \in Log \cup {NoLog} :
           /\ chain' = Append(chain, log)
           /\ \A u \in Trade :
                 /\ log = Open(u) => \A b \in DOMAIN chain : chain[b] # Open(u)
                 /\ log = Close(u) =>
                       \E b \in DOMAIN chain : chain[b] = Open(u) /\ b + MinLife <= Len(chain) + 1
      BY <3>1, <3>4
    <3> QED
      BY <1>1, <3>2, <3>3, <3>4 DEF Mine
  <2>2. /\ DOMAIN chain' = DOMAIN chain \cup {Len(chain) + 1}
        /\ Len(chain) + 1 \notin DOMAIN chain
        /\ \A b \in DOMAIN chain : chain'[b] = chain[b]
        /\ chain'[Len(chain) + 1] = log
    BY <2>1, AppendedChain DEF TypeOK
  <2> QED
    BY <2>1, <2>2 DEF Lives
<1>2. CASE ~Mine
  BY <1>2, ChainKept DEF Lives
<1> QED
  BY <1>1, <1>2

-----------------------------------------------------------------------------
(* What is closed, or will be, is behind the router job *)

\* The chain closed a trade in a block the router job has reached.
ClosedAt(t) == \E c \in DOMAIN chain : chain[c] = Close(t) /\ Reached(c)

PassCloses(p) ==
    /\ pass[p].pc \in {"logs", "lookup", "trades"} => Reached(pass[p].to)
    /\ \A c \in pass[p].logs : c \in DOMAIN chain /\ chain[c].event = "close" /\ Reached(c)
    /\ \A t \in pass[p].found : trades[t] # "QUEUED" /\ ClosedAt(t)

CloseInv ==
    /\ \A p \in Pass : PassCloses(p)
    /\ \A t \in Trade : trades[t] = "CLOSED" => ClosedAt(t)
    /\ router.pc = "handle" =>
          \A b \in router.events :
             /\ b \in DOMAIN chain /\ chain[b].event = "open"
             /\ PassBegin(routerSynced, RouterOverlap) <= b

\* What a step does to the state of a trade.
LEMMA TradeMoves ==
    ASSUME TypeOK, [Next]_vars, NEW t \in Trade, trades'[t] # trades[t]
    PROVE  \/ /\ trades'[t] = "OPENED" /\ router.pc = "handle"
              /\ \E b \in router.events : chain[b].trade = t
           \/ /\ trades'[t] = "CLOSED"
              /\ \E p \in Pass : t \in pass[p].found
<1>1. ASSUME NEW events \in SUBSET router.events, RecordOpens(events)
      PROVE  trades'[t] = "OPENED" /\ \E b \in router.events : chain[b].trade = t
  BY <1>1 DEF RecordOpens
<1>2. CASE RouterHandle \/ RouterLoses
  BY <1>1, <1>2 DEF RouterHandle, RouterLoses
<1>3. ASSUME NEW p \in Pass, NEW found \in SUBSET pass[p].found, RecordCloses(found)
      PROVE  trades'[t] = "CLOSED" /\ t \in pass[p].found
  BY <1>3 DEF RecordCloses
<1>4. CASE \E p \in Pass : LandBulk(p) \/ BlockWriteFails(p)
  BY <1>3, <1>4 DEF LandBulk, BlockWriteFails
<1>5. \/ RouterHandle \/ RouterLoses
      \/ \E p \in Pass : LandBulk(p) \/ BlockWriteFails(p)
  BY DEF Next, vars, Mine, RefreshHead, RouterCron, RouterTick, RouterStart, RouterStep,
         RouterAnswer, RouterAdvance, RouterFails, BlockStep, BlockTick, BlockStart, BlockRange,
         BlockLogs, BlockLookup, BlockFind, LandHistory, BlockAdvance, BlockFails, Crash
<1> QED
  BY <1>2, <1>4, <1>5

\* A pass of the router job reads no opening of a trade whose closing it has reached.
LEMMA OpenNotReadAgain ==
    ASSUME MinLife > RouterOverlap + Lag, TypeOK, Lives, CloseInv, router.pc = "handle",
           NEW b \in router.events, NEW t \in Trade, chain[b].trade = t, ClosedAt(t)
    PROVE  FALSE
<1>1. /\ b \in DOMAIN chain /\ chain[b] = Open(t)
      /\ PassBegin(routerSynced, RouterOverlap) <= b
  BY LogNames DEF CloseInv
<1>2. PICK c \in DOMAIN chain : chain[c] = Close(t) /\ c <= routerSynced + Lag
  BY DEF ClosedAt, Reached
<1>3. b + MinLife <= c
  BY <1>1, <1>2 DEF Lives
<1>4. routerSynced \in Int /\ b \in Int /\ c \in Int /\ DOMAIN chain = 1..Len(chain)
  BY <1>1, <1>2 DEF TypeOK
<1> QED
  BY <1>1, <1>2, <1>3, <1>4, Numbers DEF PassBegin

LEMMA ClosedStays ==
    ASSUME MinLife > RouterOverlap + Lag, TypeOK, Lives, CloseInv, [Next]_vars,
           NEW t \in Trade, trades[t] = "CLOSED"
    PROVE  trades'[t] = "CLOSED"
  BY TradeMoves, OpenNotReadAgain DEF CloseInv

\* A pass ends, or one of its writes does.
LEMMA PassEnds ==
    ASSUME TypeOK, NEW p \in Pass, EndPass(p)
    PROVE  pass'[p] = NoPass /\ \A q \in Pass : q # p => pass'[q] = pass[q]
  BY DEF EndPass, TypeOK

LEMMA WriteEndsPass ==
    ASSUME TypeOK, NEW p \in Pass, NEW w, NEW failed \in BOOLEAN, WriteEnds(p, w, failed)
    PROVE  /\ \A q \in Pass : q # p => pass'[q] = pass[q]
           /\ \/ pass'[p] = NoPass /\ pass[p].writing \subseteq {w}
              \/ /\ pass'[p].pc \in {"write", "left"}
                 /\ pass'[p].logs = pass[p].logs /\ pass'[p].found = pass[p].found
                 /\ pass'[p].writing = pass[p].writing \ {w}
<1>0. pass[p] \in BlockPass /\ pass \in [Pass -> BlockPass]
  BY DEF TypeOK
<1> DEFINE rest == pass[p].writing \ {w}
           over == failed \/ pass[p].pc = "left"
<1>1. pass' = [pass EXCEPT ![p] =
                 IF over /\ rest = {} THEN NoPass
                 ELSE [pass[p] EXCEPT !.writing = rest, !.pc = IF over THEN "left" ELSE "write"]]
  BY DEF WriteEnds
<1>2. \A q \in Pass : q # p => pass'[q] = pass[q]
  BY <1>0, <1>1
<1>3. CASE over /\ rest = {}
  BY <1>0, <1>1, <1>2, <1>3
<1>4. CASE ~(over /\ rest = {})
  <2>1. pass'[p] = [pass[p] EXCEPT !.writing = rest, !.pc = IF over THEN "left" ELSE "write"]
    BY <1>0, <1>1, <1>4
  <2>2. /\ pass'[p].pc \in {"write", "left"}
        /\ pass'[p].logs = pass[p].logs /\ pass'[p].found = pass[p].found
        /\ pass'[p].writing = rest
    BY <1>0, <2>1 DEF BlockPass
  <2> QED
    BY <1>2, <2>2
<1> QED
  BY <1>3, <1>4

LEMMA HistoryEnds ==
    ASSUME NEW p \in Pass, LandHistory(p)
    PROVE  \E failed \in BOOLEAN : WriteEnds(p, "history", failed)
<1>1. PICK new : WriteEnds(p, "history", new # pass[p].logs)
  BY DEF LandHistory
<1>2. (new # pass[p].logs) \in BOOLEAN
  OBVIOUS
<1> QED
  BY <1>1, <1>2

\* What becomes of pass p of the block job in one of its steps.
Ends(p)    == pass'[p] = NoPass
Begins(p)  == /\ pass'[p].pc \in {"start", "router"}
              /\ pass'[p].logs \subseteq pass[p].logs /\ pass'[p].found \subseteq pass[p].found
              /\ pass'[p].writing = {} \/ pass'[p].writing = pass[p].writing
Ranges(p)  == /\ pass[p].pc = "router" /\ pass'[p].pc = "logs" /\ pass'[p].to <= routerSynced
              /\ pass'[p].logs = pass[p].logs /\ pass'[p].found = pass[p].found
              /\ pass'[p].writing = pass[p].writing
Reads(p)   == /\ pass[p].pc = "logs" /\ pass'[p].pc = "lookup" /\ pass'[p].to = pass[p].to
              /\ \A c \in pass'[p].logs :
                    c \in DOMAIN chain /\ chain[c].event = "close" /\ c <= pass[p].to
              /\ pass'[p].found = pass[p].found /\ pass'[p].writing = pass[p].writing
Looks(p)   == /\ pass[p].pc = "lookup" /\ pass'[p].pc = "trades" /\ pass'[p].to = pass[p].to
              /\ pass'[p].logs \subseteq pass[p].logs
              /\ pass'[p].found = pass[p].found /\ pass'[p].writing = pass[p].writing
Finds(p)   == /\ pass[p].pc = "trades" /\ pass'[p].pc = "write" /\ pass'[p].logs = pass[p].logs
              /\ pass'[p].found = {t \in Trade : /\ trades[t] # "QUEUED"
                                                 /\ \E b \in pass[p].logs : chain[b].trade = t}
              /\ "bulk" \in pass'[p].writing <=> pass'[p].found # {}
Writes(p)  == /\ pass'[p].pc \in {"write", "left"}
              /\ pass'[p].logs = pass[p].logs /\ pass'[p].found = pass[p].found
              /\ pass'[p].writing \subseteq pass[p].writing

LEMMA PassMoves ==
    ASSUME TypeOK, NEW p \in Pass, BlockStep(p)
    PROVE  /\ \A q \in Pass : q # p => pass'[q] = pass[q]
           /\ \/ /\ Ends(p) /\ \/ pass[p].pc \notin {"write", "left"} \/ pass[p].writing = {}
                               \/ LandHistory(p) \/ LandBulk(p) \/ BlockWriteFails(p)
              \/ Begins(p) /\ \/ pass[p].pc \notin {"write", "left"} \/ pass[p].writing = {}
              \/ Ranges(p) \/ Reads(p) \/ Looks(p) \/ Finds(p)
              \/ Writes(p) /\ (LandHistory(p) \/ LandBulk(p) \/ BlockWriteFails(p))
<1>0. pass[p] \in BlockPass /\ pass \in [Pass -> BlockPass]
  BY DEF TypeOK
<1>s. ASSUME NEW r, pass' = [pass EXCEPT ![p] = r]
      PROVE  pass'[p] = r /\ \A q \in Pass : q # p => pass'[q] = pass[q]
  BY <1>0, <1>s
<1>f. ASSUME NEW at, NEW c, pass' = [pass EXCEPT ![p] = [NoPass EXCEPT !.pc = at, !.cursor = c]]
      PROVE  /\ pass'[p].pc = at /\ pass'[p].logs = {} /\ pass'[p].found = {}
             /\ pass'[p].writing = {}
             /\ \A q \in Pass : q # p => pass'[q] = pass[q]
  <2>1. pass'[p] = [NoPass EXCEPT !.pc = at, !.cursor = c]
    BY <1>s, <1>f
  <2> QED
    BY ZenonT(60), <1>s, <1>f, <2>1 DEF NoPass
<1>1. CASE BlockTick(p)
  <2>1. /\ pass[p].pc = "idle"
        /\ pass' = [pass EXCEPT ![p] = [NoPass EXCEPT !.pc = "start", !.cursor = blockSynced]]
    BY <1>1 DEF BlockTick
  <2> QED
    BY <1>f, <2>1 DEF Begins
<1>2. CASE BlockStart(p)
  <2>1. CASE isRunning
    BY <1>2, <2>1, PassEnds DEF BlockStart, Ends
  <2>2. CASE ~isRunning
    <3>1. pass[p].pc = "start" /\ pass' = [pass EXCEPT ![p] = [pass[p] EXCEPT !.pc = "router"]]
      BY <1>2, <2>2 DEF BlockStart
    <3>2. pass'[p] = [pass[p] EXCEPT !.pc = "router"] /\ \A q \in Pass : q # p => pass'[q] = pass[q]
      BY <1>s, <3>1
    <3>3. pass'[p].pc = "router" /\ pass'[p].logs = pass[p].logs /\ pass'[p].found = pass[p].found
          /\ pass'[p].writing = pass[p].writing
      BY <1>0, <3>2 DEF BlockPass
    <3> QED
      BY <3>1, <3>2, <3>3 DEF Begins
  <2> QED
    BY <2>1, <2>2
<1>3. CASE BlockRange(p)
  <2> DEFINE to == PassEnd(pass[p].cursor, window, Bound, BlockOverlap)
  <2>1. pass[p].pc = "router"
    BY <1>3 DEF BlockRange
  <2>2. CASE PassBegin(pass[p].cursor, BlockOverlap) > Bound
    BY <1>3, <2>1, <2>2, PassEnds DEF BlockRange, Ends
  <2>3. CASE ~(PassBegin(pass[p].cursor, BlockOverlap) > Bound)
    <3>1. pass' = [pass EXCEPT ![p] = [pass[p] EXCEPT !.pc = "logs", !.bound = Bound, !.to = to]]
      BY <1>3, <2>3 DEF BlockRange
    <3>2. /\ pass'[p] = [pass[p] EXCEPT !.pc = "logs", !.bound = Bound, !.to = to]
          /\ \A q \in Pass : q # p => pass'[q] = pass[q]
      BY <1>s, <3>1
    <3>3. to <= routerSynced
      <4>1. pass[p].cursor \in Int /\ Bound \in Int /\ window \in Int /\ Bound = routerSynced
        BY <1>0 DEF BlockPass, Bound, TypeOK
      <4>2. PassBegin(pass[p].cursor, BlockOverlap) <= Bound
        BY <2>3, <4>1, Numbers DEF PassBegin
      <4> QED
        BY <4>1, <4>2, Numbers, PassEndRange
    <3> HIDE DEF to
    <3>4. /\ pass'[p].pc = "logs" /\ pass'[p].to = to /\ pass'[p].logs = pass[p].logs
          /\ pass'[p].found = pass[p].found /\ pass'[p].writing = pass[p].writing
      BY <1>0, <3>2 DEF BlockPass
    <3> QED
      BY <2>1, <3>2, <3>3, <3>4 DEF Ranges
  <2> QED
    BY <2>2, <2>3
<1>4. CASE BlockLogs(p)
  <2>1. pass[p].pc = "logs"
    BY <1>4 DEF BlockLogs
  <2>2. PICK h \in Heights :
            \/ EndPass(p)
            \/ pass' = [pass EXCEPT ![p] = [pass[p] EXCEPT !.pc = "lookup", !.logs =
                     ClosesIn(PassBegin(pass[p].cursor, BlockOverlap), pass[p].to, h)]]
    BY <1>4 DEF BlockLogs
  <2>3. CASE EndPass(p)
    BY <2>1, <2>3, PassEnds DEF Ends
  <2>4. CASE pass' = [pass EXCEPT ![p] = [pass[p] EXCEPT !.pc = "lookup", !.logs =
                     ClosesIn(PassBegin(pass[p].cursor, BlockOverlap), pass[p].to, h)]]
    <3> DEFINE logs == ClosesIn(PassBegin(pass[p].cursor, BlockOverlap), pass[p].to, h)
    <3>1. /\ pass'[p] = [pass[p] EXCEPT !.pc = "lookup", !.logs = logs]
          /\ \A q \in Pass : q # p => pass'[q] = pass[q]
      BY <1>s, <2>4
    <3>2. \A c \in logs : c \in DOMAIN chain /\ chain[c].event = "close" /\ c <= pass[p].to
      BY DEF ClosesIn
    <3> HIDE DEF logs
    <3>3. /\ pass'[p].pc = "lookup" /\ pass'[p].to = pass[p].to /\ pass'[p].logs = logs
          /\ pass'[p].found = pass[p].found /\ pass'[p].writing = pass[p].writing
      BY <1>0, <3>1 DEF BlockPass
    <3> QED
      BY <2>1, <3>1, <3>2, <3>3 DEF Reads
  <2> QED
    BY <2>2, <2>3, <2>4
<1>5. CASE BlockLookup(p)
  <2>1. pass[p].pc = "lookup"
        /\ pass' = [pass EXCEPT ![p] = [pass[p] EXCEPT !.pc = "trades", !.logs = @ \ history]]
    BY <1>5 DEF BlockLookup
  <2>2. /\ pass'[p] = [pass[p] EXCEPT !.pc = "trades", !.logs = @ \ history]
        /\ \A q \in Pass : q # p => pass'[q] = pass[q]
    BY <1>s, <2>1
  <2>3. /\ pass'[p].pc = "trades" /\ pass'[p].to = pass[p].to /\ pass'[p].logs = pass[p].logs \ history
        /\ pass'[p].found = pass[p].found /\ pass'[p].writing = pass[p].writing
    BY <1>0, <2>2 DEF BlockPass
  <2> QED
    BY <2>1, <2>2, <2>3 DEF Looks
<1>6. CASE BlockFind(p)
  <2> DEFINE found == {t \in Trade : /\ HasOption(t)
                                     /\ \E b \in pass[p].logs : chain[b].trade = t}
             writing == {w \in {"history", "bulk"} :
                          IF w = "history" THEN pass[p].logs # {} ELSE found # {}}
  <2>1. pass[p].pc = "trades"
        /\ pass' = [pass EXCEPT ![p] = [pass[p] EXCEPT !.pc = "write", !.found = found,
                                                       !.writing = writing]]
    BY <1>6 DEF BlockFind
  <2>2. /\ pass'[p] = [pass[p] EXCEPT !.pc = "write", !.found = found, !.writing = writing]
        /\ \A q \in Pass : q # p => pass'[q] = pass[q]
    BY <1>s, <2>1
  <2>3. "bulk" \in writing <=> found # {}
    OBVIOUS
  <2>4. found = {t \in Trade : /\ trades[t] # "QUEUED"
                               /\ \E b \in pass[p].logs : chain[b].trade = t}
    BY DEF HasOption
  <2> HIDE DEF found, writing
  <2>5. /\ pass'[p].pc = "write" /\ pass'[p].logs = pass[p].logs
        /\ pass'[p].found = found /\ pass'[p].writing = writing
    BY <1>0, <2>2 DEF BlockPass
  <2> QED
    BY <2>1, <2>2, <2>3, <2>4, <2>5 DEF Finds
<1>7. CASE LandHistory(p) \/ LandBulk(p) \/ BlockWriteFails(p)
  <2>1. \E w \in {"history", "bulk"}, failed \in BOOLEAN : WriteEnds(p, w, failed)
    <3>1. CASE LandHistory(p)
      BY <3>1, HistoryEnds
    <3>2. CASE LandBulk(p) \/ BlockWriteFails(p)
      BY <3>2 DEF LandBulk, BlockWriteFails
    <3> QED
      BY <1>7, <3>1, <3>2
  <2> QED
    BY <1>7, <2>1, WriteEndsPass DEF Ends, Writes
<1>8. CASE BlockAdvance(p)
  <2>1. pass[p].writing = {}
    BY <1>8 DEF BlockAdvance
  <2>2. CASE EndPass(p)
    BY <2>1, <2>2, PassEnds DEF Ends
  <2>3. CASE pass' = [pass EXCEPT ![p] = [NoPass EXCEPT !.pc = "router", !.cursor = pass[p].to + 1]]
    BY <1>f, <2>1, <2>3 DEF Begins
  <2> QED
    BY <1>8, <2>2, <2>3 DEF BlockAdvance
<1>9. CASE BlockFails(p)
  <2>1. EndPass(p) /\ (pass[p].pc \notin {"write", "left"} \/ pass[p].writing = {})
    BY <1>9 DEF BlockFails
  <2> QED
    BY <2>1, PassEnds DEF Ends
<1> QED
  BY <1>1, <1>2, <1>3, <1>4, <1>5, <1>6, <1>7, <1>8, <1>9 DEF BlockStep

LEMMA PassFields ==
    ASSUME NEW q \in BlockPass
    PROVE  q.to \in Int /\ q.found \subseteq Trade
  BY DEF BlockPass

LEMMA ChainNumbers ==
    ASSUME TypeOK
    PROVE  routerSynced \in Int /\ Len(chain) \in Nat /\ \A b \in DOMAIN chain : b \in Int
<1>1. \A C : \A s \in Seq(C) : Len(s) \in Nat /\ DOMAIN s = 1..Len(s)
  OBVIOUS
<1>2. PICK C : chain \in Seq(C)
  BY DEF TypeOK
<1> QED
  BY <1>1, <1>2 DEF TypeOK

LEMMA CloseInvStep ==
    ASSUME ~SlowReads, TypeOK, TypeOK', HeadInv, CursorKept, CloseInv, [Next]_vars
    PROVE  CloseInv'
<1>0. /\ routerSynced \in Int
      /\ \A p \in Pass : pass[p] \in BlockPass /\ pass[p].to \in Int /\ pass[p].found \subseteq Trade
      /\ \A p \in Pass : pass'[p] \in BlockPass /\ pass'[p].to \in Int
      /\ \A b \in DOMAIN chain : b \in Int
  <2>1. \A p \in Pass : pass[p] \in BlockPass /\ pass'[p] \in BlockPass
    BY DEF TypeOK
  <2>2. \A q \in BlockPass : q.to \in Int /\ q.found \subseteq Trade
    BY PassFields
  <2>3. /\ routerSynced \in Int /\ Len(chain) \in Nat
        /\ \A b \in DOMAIN chain : b \in Int
    BY ChainNumbers
  <2> QED
    BY <2>1, <2>2, <2>3
<1>c. \A b \in DOMAIN chain : b \in DOMAIN chain' /\ chain'[b] = chain[b]
  BY ChainKept
<1>r. CursorKept' /\ \A n \in Int : Reached(n) => Reached(n)'
  BY CursorKeptStep
<1>a. ASSUME NEW t \in Trade, ClosedAt(t) PROVE ClosedAt(t)'
  <2>1. Close(t)' = Close(t)
    BY DEF Close
  <2> QED
    BY <1>0, <1>a, <1>c, <1>r, <2>1 DEF ClosedAt
<1>q. \A t \in Trade : trades[t] # "QUEUED" => trades'[t] # "QUEUED"
  BY TradesKept
<1>l. ASSUME NEW c \in DOMAIN chain, chain[c].event = "close", Reached(c)
      PROVE  c \in DOMAIN chain' /\ chain'[c].event = "close" /\ Reached(c)'
  BY <1>0, <1>c, <1>l, <1>r
<1>1. ASSUME NEW p \in Pass PROVE PassCloses(p)'
  <2>0. PassCloses(p)
    BY DEF CloseInv
  <2>1. CASE pass'[p] = NoPass
    BY <2>1 DEF PassCloses, NoPass
  <2>2. ASSUME pass'[p].logs \subseteq pass[p].logs, pass'[p].found \subseteq pass[p].found,
               pass'[p].pc \in {"logs", "lookup", "trades"} => Reached(pass'[p].to)
        PROVE  PassCloses(p)'
    <3>1. \A c \in pass'[p].logs :
             c \in DOMAIN chain' /\ chain'[c].event = "close" /\ Reached(c)'
      BY <1>l, <2>0, <2>2 DEF PassCloses
    <3>2. \A t \in pass'[p].found : trades'[t] # "QUEUED" /\ ClosedAt(t)'
      BY <1>0, <1>a, <1>q, <2>0, <2>2 DEF PassCloses
    <3>3. (pass[p].pc \in {"logs", "lookup", "trades"} => Reached(pass[p].to))'
      BY <1>0, <2>2, <1>r DEF Reached
    <3> QED
      BY <3>1, <3>2, <3>3 DEF PassCloses
  <2>3. CASE pass'[p] = pass[p]
    BY <2>0, <2>2, <2>3 DEF PassCloses
  <2>4. CASE BlockStep(p)
    <3>1. CASE Begins(p) \/ Writes(p)
      BY <2>2, <3>1 DEF Begins, Writes
    <3>2. CASE Ranges(p)
      <4>1. Reached(pass'[p].to)
        BY <1>0, <3>2, ReachedBelow DEF Ranges, CursorKept
      <4> QED
        BY <2>2, <3>2, <4>1 DEF Ranges
    <3>3. CASE Looks(p)
      BY <2>0, <2>2, <3>3 DEF Looks, PassCloses
    <3>4. CASE Reads(p)
      <4>1. Reached(pass[p].to)
        BY <2>0, <3>4 DEF Reads, PassCloses
      <4>2. \A c \in pass'[p].logs : c \in DOMAIN chain /\ chain[c].event = "close" /\ Reached(c)
        BY <1>0, <3>4, <4>1, ReachedBelow DEF Reads
      <4>3. \A c \in pass'[p].logs :
               c \in DOMAIN chain' /\ chain'[c].event = "close" /\ Reached(c)'
        BY <1>l, <4>2
      <4>4. \A t \in pass'[p].found : trades'[t] # "QUEUED" /\ ClosedAt(t)'
        BY <1>0, <1>a, <1>q, <2>0, <3>4 DEF PassCloses, Reads
      <4>5. Reached(pass[p].to)'
        BY <1>0, <1>r, <3>4, <4>1 DEF Reads, Reached
      <4> QED
        BY <4>3, <4>4, <4>5 DEF PassCloses
    <3>5. CASE Finds(p)
      <4>1. \A t \in pass'[p].found : trades'[t] # "QUEUED" /\ ClosedAt(t)'
        <5>1. ASSUME NEW t \in pass'[p].found PROVE trades'[t] # "QUEUED" /\ ClosedAt(t)'
          <6>1. t \in Trade /\ trades[t] # "QUEUED" /\ \E b \in pass[p].logs : chain[b].trade = t
            BY <3>5 DEF Finds
          <6>2. ClosedAt(t)
            BY <2>0, <6>1, LogNames DEF PassCloses, ClosedAt
          <6> QED
            BY <1>a, <1>q, <6>1, <6>2
        <5> QED
          BY <5>1
      <4>2. \A c \in pass'[p].logs :
               c \in DOMAIN chain' /\ chain'[c].event = "close" /\ Reached(c)'
        BY <1>l, <2>0, <3>5 DEF PassCloses, Finds
      <4>3. pass'[p].pc = "write"
        BY <3>5 DEF Finds
      <4> QED
        BY <4>1, <4>2, <4>3 DEF PassCloses
    <3> QED
      BY <2>1, <2>4, <3>1, <3>2, <3>3, <3>4, <3>5, PassMoves DEF Ends
  <2>5. CASE ~\E q \in Pass : BlockStep(q)
    <3>1. pass' = pass \/ Crash
      BY <2>5 DEF Next, vars, Mine, RefreshHead, RouterCron, RouterTick, RouterStart, RouterStep,
           RouterAnswer, RouterHandle, RouterLoses, RouterAdvance, RouterFails, blockVars
    <3> QED
      BY <2>1, <2>3, <3>1 DEF Crash
  <2>6. ASSUME NEW q \in Pass, BlockStep(q), q # p PROVE PassCloses(p)'
    BY <2>3, <2>6, PassMoves
  <2> QED
    BY <2>4, <2>5, <2>6
<1>2. ASSUME NEW t \in Trade, trades'[t] = "CLOSED" PROVE ClosedAt(t)'
  <2>1. CASE trades[t] = "CLOSED"
    BY <1>a, <2>1 DEF CloseInv
  <2>2. CASE trades[t] # "CLOSED"
    <3>1. PICK p \in Pass : t \in pass[p].found
      BY <1>2, <2>2, TradeMoves
    <3> QED
      BY <1>a, <3>1 DEF CloseInv, PassCloses
  <2> QED
    BY <2>1, <2>2
<1>3. router'.pc = "handle" =>
          \A b \in router'.events :
             /\ b \in DOMAIN chain' /\ chain'[b].event = "open"
             /\ PassBegin(routerSynced', RouterOverlap) <= b
  <2>1. CASE RouterAnswer
    <3>1. PICK h \in Heights : router' = [router EXCEPT !.pc = "handle",
                  !.events = OpensIn(PassBegin(router.cursor, RouterOverlap), router.to, h)]
      BY <2>1 DEF RouterAnswer
    <3>2. router'.events = OpensIn(PassBegin(router.cursor, RouterOverlap), router.to, h)
      BY <3>1 DEF TypeOK, RouterPass
    <3>3. router.cursor = routerSynced /\ UNCHANGED <<chain, routerSynced>>
      BY <2>1 DEF RouterAnswer, CursorKept
    <3> QED
      BY <3>2, <3>3 DEF OpensIn
  <2>2. CASE router'.pc # "handle"
    BY <2>2
  <2>3. CASE router' = router /\ routerSynced' = routerSynced
    BY <1>c, <2>3 DEF CloseInv
  <2>4. RouterAnswer \/ router'.pc # "handle" \/ (router' = router /\ routerSynced' = routerSynced)
    <3>1. CASE RouterStart
      BY <3>1 DEF RouterStart, RouterBegin, NoRouterPass
    <3>2. CASE RouterHandle \/ RouterLoses
      BY <3>2 DEF RouterHandle, RouterLoses, TypeOK, RouterPass
    <3>3. CASE RouterAdvance
      BY <3>3 DEF RouterAdvance, RouterBegin, NoRouterPass
    <3>4. CASE RouterFails \/ Crash
      BY <3>4 DEF RouterFails, Crash, NoRouterPass
    <3>5. CASE Mine \/ RefreshHead \/ RouterTick \/ (\E p \in Pass : BlockStep(p)) \/ UNCHANGED vars
      BY <3>5 DEF Mine, RefreshHead, RouterTick, BlockStep, BlockTick, BlockStart, BlockRange,
           BlockLogs, BlockLookup, BlockFind, LandHistory, LandBulk, BlockWriteFails, BlockAdvance,
           BlockFails, routerVars, vars
    <3> QED
      BY <3>1, <3>2, <3>3, <3>4, <3>5 DEF Next, RouterCron, RouterStep
  <2> QED
    BY <2>1, <2>2, <2>3, <2>4
<1> QED
  BY <1>1, <1>2, <1>3 DEF CloseInv

\* Where the invariants begin, and that a run keeps them.
LEMMA CloseInit == Init => CursorKept /\ Lives /\ CloseInv
<1> SUFFICES ASSUME Init PROVE CursorKept /\ Lives /\ CloseInv
  OBVIOUS
<1>1. /\ chain = <<>> /\ routerSynced = 0 /\ knownHead = NoHead /\ tick = {}
      /\ router.pc = "idle" /\ DOMAIN chain = {} /\ Len(chain) = 0
  BY DEF Init, NoRouterPass
<1>2. \A p \in Pass : pass[p].pc = "idle" /\ pass[p].logs = {} /\ pass[p].found = {}
  BY DEF Init, NoPass
<1>3. \A t \in Trade : trades[t] = "QUEUED"
  BY DEF Init
<1>4. CursorKept
  BY <1>1, Numbers DEF CursorKept, Reached
<1>5. Lives
  BY <1>1 DEF Lives
<1> QED
  BY <1>1, <1>2, <1>3, <1>4, <1>5 DEF CloseInv, PassCloses

LEMMA CloseInvHolds ==
    ASSUME ~SlowReads
    PROVE  Spec => [](TypeOK /\ HeadInv /\ CursorKept /\ Lives /\ CloseInv)
<1>1. TypeOK /\ TypeOK' /\ HeadInv /\ CursorKept /\ Lives /\ CloseInv /\ [Next]_vars
         => HeadInv' /\ CursorKept' /\ Lives' /\ CloseInv'
  BY HeadStep, CursorKeptStep, LivesStep, CloseInvStep
<1>2. Init => HeadInv /\ CursorKept /\ Lives /\ CloseInv
  BY HeadInit, CloseInit
<1> QED
  BY <1>1, <1>2, SyncTypeCorrect, PTL DEF Spec

\* No opening that is read again, and whose record names no state, opens a trade whose
\* closing was recorded: the cron reads the cursor before its next pass begins, and a trade
\* lives longer than the blocks that a pass reads again and a lagging node takes back.
THEOREM ClosedStaysClosedHolds ==
    ASSUME ~SlowReads, MinLife > RouterOverlap + Lag
    PROVE  Spec => ClosedStaysClosed
<1>1. TypeOK /\ Lives /\ CloseInv /\ [Next]_vars
         => [\A t \in Trade : trades[t] = "CLOSED" => trades'[t] = "CLOSED"]_vars
  BY ClosedStays
<1> QED
  BY <1>1, CloseInvHolds, PTL DEF Spec, ClosedStaysClosed

-----------------------------------------------------------------------------
(* The two jobs implement TradeLedger *)

OpenedOnChain(t) == \E b \in DOMAIN chain : chain[b] = Open(t)
ClosedOnChain(t) == \E b \in DOMAIN chain : chain[b] = Close(t)

\* What the ledger sees of a state.
LEMMA SyncSeen ==
    ASSUME NEW t \in Trade
    PROVE  /\ Recorded[t] = [QUEUED |-> "queued", OPENED |-> "opened", CLOSED |-> "closed"][trades[t]]
           /\ Contract[t] = IF ClosedOnChain(t) THEN "closed"
                            ELSE IF OpenedOnChain(t) THEN "open" ELSE "none"
BY DEF Recorded, Contract, OpenedOnChain, ClosedOnChain

LEMMA SyncSeenLater ==
    ASSUME NEW t \in Trade
    PROVE  /\ Recorded'[t] = [QUEUED |-> "queued", OPENED |-> "opened", CLOSED |-> "closed"][trades'[t]]
           /\ Contract'[t] = IF ClosedOnChain(t)' THEN "closed"
                             ELSE IF OpenedOnChain(t)' THEN "open" ELSE "none"
BY DEF Recorded, Contract, OpenedOnChain, ClosedOnChain, Open, Close

LEMMA SyncLedgerInit == Init => Ledger!Init
<1> SUFFICES ASSUME Init PROVE Ledger!Init
  OBVIOUS
<1>1. \A t \in Trade : trades[t] = "QUEUED" /\ ~OpenedOnChain(t) /\ ~ClosedOnChain(t)
  BY DEF Init, OpenedOnChain, ClosedOnChain
<1>2. \A t \in Trade : Recorded[t] = "queued" /\ Contract[t] = "none"
  BY <1>1, SyncSeen
<1>3. Recorded \in [Trade -> {"none", "queued"}] /\ Contract = [t \in Trade |-> "none"]
  <2>1. Recorded = [t \in Trade |-> Recorded[t]] /\ Contract = [t \in Trade |-> Contract[t]]
    BY DEF Recorded, Contract
  <2> QED
    BY <1>2, <2>1
<1> QED
  BY <1>3 DEF Ledger!Init

\* What one more block says: a trade that was not open is, an open one is closed, or none.
LEMMA MineSays ==
    ASSUME TypeOK, Lives, Mine
    PROVE  \/ \A u \in Trade : /\ OpenedOnChain(u)' <=> OpenedOnChain(u)
                               /\ ClosedOnChain(u)' <=> ClosedOnChain(u)
           \/ \E t \in Trade :
                 /\ ~OpenedOnChain(t) /\ ~ClosedOnChain(t)
                 /\ \A u \in Trade : /\ OpenedOnChain(u)' <=> OpenedOnChain(u) \/ u = t
                                     /\ ClosedOnChain(u)' <=> ClosedOnChain(u)
           \/ \E t \in Trade :
                 /\ OpenedOnChain(t) /\ ~ClosedOnChain(t)
                 /\ \A u \in Trade : /\ OpenedOnChain(u)' <=> OpenedOnChain(u)
                                     /\ ClosedOnChain(u)' <=> ClosedOnChain(u) \/ u = t
<1>1. \A t, u \in Trade : /\ Open(t) # Close(u) /\ Open(t) # NoLog /\ Close(t) # NoLog
                          /\ Open(t) \in Log /\ Close(t) \in Log
                          /\ Open(t) = Open(u) => t = u
                          /\ Close(t) = Close(u) => t = u
  BY DEF Open, Close, NoLog, Log
<1>2. ASSUME NEW log \in Log \cup {NoLog}, chain' = Append(chain, log)
      PROVE  \A u \in Trade : /\ OpenedOnChain(u)' <=> OpenedOnChain(u) \/ log = Open(u)
                              /\ ClosedOnChain(u)' <=> ClosedOnChain(u) \/ log = Close(u)
  <2>1. /\ DOMAIN chain' = DOMAIN chain \cup {Len(chain) + 1}
        /\ Len(chain) + 1 \notin DOMAIN chain
        /\ \A b \in DOMAIN chain : chain'[b] = chain[b]
        /\ chain'[Len(chain) + 1] = log
    BY <1>2, AppendedChain DEF TypeOK
  <2> QED
    BY <2>1 DEF OpenedOnChain, ClosedOnChain, Open, Close
<1>3. CASE chain' = Append(chain, NoLog)
  BY <1>1, <1>2, <1>3
<1>4. ASSUME NEW t \in Trade, \A b \in DOMAIN chain : chain[b] # Open(t),
             chain' = Append(chain, Open(t))
      PROVE  /\ ~OpenedOnChain(t) /\ ~ClosedOnChain(t)
             /\ \A u \in Trade : /\ OpenedOnChain(u)' <=> OpenedOnChain(u) \/ u = t
                                 /\ ClosedOnChain(u)' <=> ClosedOnChain(u)
  <2>1. ~OpenedOnChain(t) /\ ~ClosedOnChain(t)
    BY <1>4 DEF OpenedOnChain, ClosedOnChain, Lives
  <2> QED
    BY <1>1, <1>2, <1>4, <2>1
<1>5. ASSUME NEW t \in Trade, \E b \in DOMAIN chain : chain[b] = Open(t),
             \A b \in DOMAIN chain : chain[b] # Close(t), chain' = Append(chain, Close(t))
      PROVE  /\ OpenedOnChain(t) /\ ~ClosedOnChain(t)
             /\ \A u \in Trade : /\ OpenedOnChain(u)' <=> OpenedOnChain(u)
                                 /\ ClosedOnChain(u)' <=> ClosedOnChain(u) \/ u = t
  <2>1. OpenedOnChain(t) /\ ~ClosedOnChain(t)
    BY <1>5 DEF OpenedOnChain, ClosedOnChain
  <2> QED
    BY <1>1, <1>2, <1>5, <2>1
<1>6. \/ chain' = Append(chain, NoLog)
      \/ \E t \in Trade : /\ \A b \in DOMAIN chain : chain[b] # Open(t)
                          /\ chain' = Append(chain, Open(t))
      \/ \E t \in Trade : /\ \E b \in DOMAIN chain : chain[b] = Open(t)
                          /\ \A b \in DOMAIN chain : chain[b] # Close(t)
                          /\ chain' = Append(chain, Close(t))
  BY DEF Mine
<1> QED
  BY <1>3, <1>4, <1>5, <1>6

LEMMA SyncLedgerStep ==
    ASSUME MinLife > RouterOverlap + Lag, TypeOK, TypeOK', Lives, CloseInv, [Next]_vars
    PROVE  [Ledger!Next]_Ledger!vars
<1>0. /\ \A t \in Trade : /\ trades[t] \in {"QUEUED", "OPENED", "CLOSED"}
                          /\ trades'[t] \in {"QUEUED", "OPENED", "CLOSED"}
      /\ Recorded = [t \in Trade |-> Recorded[t]] /\ Contract = [t \in Trade |-> Contract[t]]
      /\ Recorded' = [t \in Trade |-> Recorded'[t]] /\ Contract' = [t \in Trade |-> Contract'[t]]
  BY DEF TypeOK, Recorded, Contract
<1>1. CASE Mine
  <2>1. \A t \in Trade : Recorded'[t] = Recorded[t] /\ Recorded[t] # "none"
    BY <1>0, <1>1, SyncSeen, SyncSeenLater DEF Mine
  <2>2. UNCHANGED Recorded
    BY <1>0, <2>1
  <2>3. CASE \A u \in Trade : /\ OpenedOnChain(u)' <=> OpenedOnChain(u)
                              /\ ClosedOnChain(u)' <=> ClosedOnChain(u)
    <3>1. \A u \in Trade : Contract'[u] = Contract[u]
      BY <2>3, SyncSeen, SyncSeenLater
    <3>2. UNCHANGED Contract
      BY <1>0, <3>1
    <3> QED
      BY <2>2, <3>2 DEF Ledger!vars
  <2>4. ASSUME NEW t \in Trade, ~OpenedOnChain(t), ~ClosedOnChain(t),
               \A u \in Trade : /\ OpenedOnChain(u)' <=> OpenedOnChain(u) \/ u = t
                                /\ ClosedOnChain(u)' <=> ClosedOnChain(u)
        PROVE  Ledger!OpenOnChain(t)
    <3>1. Contract[t] = "none" /\ \A u \in Trade : Contract'[u] = IF u = t THEN "open" ELSE Contract[u]
      BY <2>4, SyncSeen, SyncSeenLater
    <3>2. Contract' = [Contract EXCEPT ![t] = "open"]
      BY <1>0, <3>1
    <3> QED
      BY <2>1, <2>2, <3>1, <3>2 DEF Ledger!OpenOnChain
  <2>5. ASSUME NEW t \in Trade, OpenedOnChain(t), ~ClosedOnChain(t),
               \A u \in Trade : /\ OpenedOnChain(u)' <=> OpenedOnChain(u)
                                /\ ClosedOnChain(u)' <=> ClosedOnChain(u) \/ u = t
        PROVE  Ledger!CloseOnChain(t)
    <3>1. Contract[t] = "open" /\ \A u \in Trade : Contract'[u] = IF u = t THEN "closed" ELSE Contract[u]
      BY <2>5, SyncSeen, SyncSeenLater
    <3>2. Contract' = [Contract EXCEPT ![t] = "closed"]
      BY <1>0, <3>1
    <3> QED
      BY <2>2, <3>1, <3>2 DEF Ledger!CloseOnChain
  <2> QED
    BY <1>1, <2>3, <2>4, <2>5, MineSays DEF Ledger!Next
<1>2. CASE ~Mine
  <2>1. chain' = chain
    BY <1>2, ChainKept
  <2>2. UNCHANGED Contract
    BY <2>1 DEF Contract, Open, Close
  <2>3. ASSUME NEW t \in Trade PROVE Ledger!May(Recorded[t], Recorded'[t], Contract[t])
    <3>1. CASE trades'[t] = trades[t]
      BY <3>1, SyncSeen, SyncSeenLater DEF Ledger!May
    <3>2. CASE trades'[t] # trades[t]
      <4>1. CASE trades'[t] = "OPENED" /\ router.pc = "handle" /\ \E b \in router.events : chain[b].trade = t
        <5>1. OpenedOnChain(t)
          BY <4>1, LogNames DEF CloseInv, OpenedOnChain
        <5>2. trades[t] = "QUEUED"
          BY <1>0, <3>2, <4>1, ClosedStays
        <5>3. Recorded[t] = "queued" /\ Recorded'[t] = "opened" /\ Contract[t] # "none"
          BY <4>1, <5>1, <5>2, SyncSeen, SyncSeenLater
        <5> QED
          BY <5>3 DEF Ledger!May
      <4>2. ASSUME trades'[t] = "CLOSED", NEW p \in Pass, t \in pass[p].found
            PROVE  Ledger!May(Recorded[t], Recorded'[t], Contract[t])
        <5>1. trades[t] = "OPENED" /\ ClosedOnChain(t)
          BY <1>0, <3>2, <4>2 DEF CloseInv, PassCloses, ClosedAt, ClosedOnChain
        <5>2. Recorded[t] = "opened" /\ Recorded'[t] = "closed" /\ Contract[t] = "closed"
          BY <4>2, <5>1, SyncSeen, SyncSeenLater
        <5> QED
          BY <5>2 DEF Ledger!May
      <4> QED
        BY <3>2, <4>1, <4>2, TradeMoves
    <3> QED
      BY <3>1, <3>2
  <2>4. \A t \in Trade : Recorded'[t] \in Ledger!Recorded
    BY <1>0, SyncSeenLater DEF Ledger!Recorded
  <2>5. Recorded' \in [Trade -> Ledger!Recorded]
    BY <1>0, <2>4
  <2> QED
    BY <2>2, <2>3, <2>5 DEF Ledger!Next, Ledger!RecordTrades
<1> QED
  BY <1>1, <1>2

\* The two jobs together implement TradeLedger, for any number of trades and of passes at
\* once, whatever fails and whenever the process dies: each records what the chain did, in
\* its order.
THEOREM SyncImplementsLedger ==
    ASSUME ~SlowReads, MinLife > RouterOverlap + Lag
    PROVE  Spec => ImplementsLedger
<1>1. TypeOK /\ TypeOK' /\ Lives /\ CloseInv /\ [Next]_vars => [Ledger!Next]_Ledger!vars
  BY SyncLedgerStep
<1> QED
  BY <1>1, CloseInvHolds, SyncLedgerInit, PTL DEF Spec, ImplementsLedger, Ledger!Spec

-----------------------------------------------------------------------------
(* A closing finds its trade *)

\* The closing of t is recorded, or a bulkWrite that records it is under way.
BeingClosed(t) ==
    \/ trades[t] = "CLOSED"
    \/ \E p \in Pass : t \in pass[p].found /\ "bulk" \in pass[p].writing

\* A pass reads closings of trades whose opening is recorded, and writes the history of no
\* others.
PassFinds(p) ==
    /\ pass[p].pc \notin {"write", "left"} => pass[p].writing = {}
    /\ pass[p].pc \in {"logs", "lookup", "trades"} => OpensBehind(pass[p].to)
    /\ pass[p].pc \in {"lookup", "trades"} => \A b \in pass[p].logs : b <= pass[p].to
    /\ "history" \in pass[p].writing =>
          \A b \in pass[p].logs :
             /\ chain[b].trade \in pass[p].found
             /\ "bulk" \in pass[p].writing \/ trades[chain[b].trade] = "CLOSED"

FindInv ==
    /\ \A b \in history :
          b \in DOMAIN chain /\ chain[b].event = "close" /\ BeingClosed(chain[b].trade)
    /\ \A p \in Pass : PassFinds(p)

\* A pass that has read to the router job's cursor finds the trades of all its closings.
LEMMA AllFound ==
    ASSUME MinLife > RouterOverlap + Lag, TypeOK, Lives, CloseInv, FindInv,
           NEW p \in Pass, pass[p].pc = "trades", NEW b \in pass[p].logs
    PROVE  chain[b].trade \in Trade /\ trades[chain[b].trade] # "QUEUED"
<1>1. b \in DOMAIN chain /\ chain[b].event = "close" /\ b <= pass[p].to /\ OpensBehind(pass[p].to)
  BY DEF CloseInv, PassCloses, FindInv, PassFinds
<1> DEFINE t == chain[b].trade
<1>2. t \in Trade /\ chain[b] = Close(t)
  BY <1>1, LogNames
<1>3. PICK o \in DOMAIN chain : chain[o] = Open(t) /\ o + MinLife <= b
  BY <1>1, <1>2 DEF Lives
<1>4. pass[p] \in BlockPass /\ o \in Int /\ b \in Int
  BY <1>1, <1>3 DEF TypeOK
<1>5. pass[p].to \in Int
  BY <1>4 DEF BlockPass
<1>6. o + Lag + 1 <= pass[p].to
  BY <1>1, <1>3, <1>4, <1>5, Numbers
<1>7. chain[o].event = "open" /\ chain[o].trade = t
  BY <1>3 DEF Open
<1> QED
  BY <1>1, <1>2, <1>6, <1>7 DEF OpensBehind

\* No write fails before a step after which none has.
LEMMA WritesSucceed ==
    ASSUME TypeOK, NEW p \in Pass, BlockWriteFails(p) PROVE faults' # 0
<1>1. faults \in Nat /\ faults' = faults + 1
  BY EventSyncAssumption DEF BlockWriteFails, Fault, TypeOK
<1> QED
  BY <1>1

LEMMA ClosingGoesOn ==
    ASSUME MinLife > RouterOverlap + Lag, TypeOK, Lives, CloseInv, FindInv, [Next]_vars,
           faults' = 0, crashes' = 0, NEW t \in Trade, BeingClosed(t)
    PROVE  BeingClosed(t)'
<1>1. CASE trades[t] = "CLOSED"
  BY <1>1, ClosedStays DEF BeingClosed
<1>2. ASSUME NEW p \in Pass, t \in pass[p].found, "bulk" \in pass[p].writing
      PROVE  BeingClosed(t)'
  <2>0. pass[p].pc \in {"write", "left"} /\ pass[p].writing # {}
    BY <1>2 DEF FindInv, PassFinds
  <2>1. CASE pass'[p] = pass[p]
    BY <1>2, <2>1 DEF BeingClosed
  <2>2. CASE LandHistory(p)
    <3>1. PICK failed \in BOOLEAN : WriteEnds(p, "history", failed)
      BY <2>2, HistoryEnds
    <3>2. pass'[p].found = pass[p].found /\ pass'[p].writing = pass[p].writing \ {"history"}
      BY <1>2, <3>1, WriteEndsPass
    <3> QED
      BY <1>2, <3>2 DEF BeingClosed
  <2>3. CASE LandBulk(p)
    BY <1>2, <2>3 DEF LandBulk, RecordCloses, BeingClosed
  <2>4. CASE BlockStep(p)
    BY <2>0, <2>2, <2>3, <2>4, PassMoves, WritesSucceed DEF Ranges, Reads, Looks, Finds
  <2>5. ASSUME NEW q \in Pass, BlockStep(q), q # p PROVE BeingClosed(t)'
    BY <2>1, <2>5, PassMoves
  <2>6. CASE ~\E q \in Pass : BlockStep(q)
    <3>1. pass' = pass \/ Crash
      BY <2>6 DEF Next, vars, Mine, RefreshHead, RouterCron, RouterTick, RouterStart, RouterStep,
           RouterAnswer, RouterHandle, RouterLoses, RouterAdvance, RouterFails, blockVars
    <3>2. ~Crash
      BY EventSyncAssumption DEF Crash, TypeOK
    <3> QED
      BY <2>1, <3>1, <3>2
  <2> QED
    BY <2>4, <2>5, <2>6
<1> QED
  BY <1>1, <1>2 DEF BeingClosed

LEMMA FindInvStep ==
    ASSUME MinLife > RouterOverlap + Lag, TypeOK, TypeOK', HeadInv, OpenInv,
           Lives, CloseInv, FindInv, [Next]_vars, faults' = 0, crashes' = 0
    PROVE  FindInv'
<1>0. /\ routerSynced \in Int /\ Len(chain) \in Nat
      /\ \A p \in Pass : pass[p] \in BlockPass /\ pass[p].to \in Int /\ pass[p].found \subseteq Trade
      /\ \A p \in Pass : pass'[p] \in BlockPass /\ pass'[p].to \in Int
      /\ \A b \in DOMAIN chain : b \in Int
  <2>1. \A p \in Pass : pass[p] \in BlockPass /\ pass'[p] \in BlockPass
    BY DEF TypeOK
  <2>2. \A q \in BlockPass : q.to \in Int /\ q.found \subseteq Trade
    BY PassFields
  <2>3. /\ routerSynced \in Int /\ Len(chain) \in Nat
        /\ \A b \in DOMAIN chain : b \in Int
    BY ChainNumbers
  <2> QED
    BY <2>1, <2>2, <2>3
<1>c. \A b \in DOMAIN chain : b \in DOMAIN chain' /\ chain'[b] = chain[b]
  BY ChainKept
<1>o. ASSUME NEW c \in Int, c <= Len(chain) + 1, OpensBehind(c) PROVE OpensBehind(c)'
  BY <1>o, OpensBehindKept DEF OpensBehind
<1>l. \A p \in Pass : \A b \in pass[p].logs :
         b \in DOMAIN chain /\ chain[b].event = "close" /\ chain[b].trade \in Trade
  BY LogNames DEF CloseInv, PassCloses
<1>1. ASSUME NEW b \in history'
      PROVE  /\ b \in DOMAIN chain' /\ chain'[b].event = "close"
             /\ \E t \in Trade : t = chain'[b].trade /\ BeingClosed(t)'
  <2>1. /\ b \in DOMAIN chain /\ chain[b].event = "close" /\ BeingClosed(chain[b].trade)
    <3>1. CASE b \in history
      BY <3>1 DEF FindInv
    <3>2. CASE b \notin history
      <4>1. PICK p \in Pass : LandHistory(p)
        <5>1. history' = history \/ \E p \in Pass : LandHistory(p) \/ BlockWriteFails(p)
          BY DEF Next, vars, Mine, RefreshHead, RouterCron, RouterTick, RouterStart, RouterStep,
               RouterAnswer, RouterHandle, RouterLoses, RouterAdvance, RouterFails, BlockStep,
               BlockTick, BlockStart, BlockRange, BlockLogs, BlockLookup, BlockFind, LandBulk,
               BlockAdvance, BlockFails, Crash
        <5> QED
          BY <1>1, <3>2, <5>1, WritesSucceed
      <4>2. b \in pass[p].logs /\ "history" \in pass[p].writing
        BY <1>1, <3>2, <4>1 DEF LandHistory
      <4>3. PassFinds(p)
        BY DEF FindInv
      <4> QED
        BY <1>l, <4>2, <4>3 DEF PassFinds, BeingClosed
    <3> QED
      BY <3>1, <3>2
  <2>2. PICK t \in Trade : t = chain[b].trade
    BY <2>1, LogNames
  <2>3. BeingClosed(t)'
    BY <2>1, <2>2, ClosingGoesOn
  <2> QED
    BY <1>c, <2>1, <2>2, <2>3
<1>2. ASSUME NEW p \in Pass PROVE PassFinds(p)'
  <2>0. PassFinds(p)
    BY DEF FindInv
  <2>k. ASSUME NEW t \in Trade, trades[t] = "CLOSED" PROVE trades'[t] = "CLOSED"
    BY <2>k, ClosedStays
  <2>1. CASE pass'[p] = NoPass
    BY <2>1 DEF PassFinds, NoPass
  <2>r. pass[p].pc \in {"logs", "lookup", "trades"} =>
           \E n \in Int : n = pass[p].to /\ OpensBehind(n)'
    <3>1. pass[p].pc \in {"logs", "lookup", "trades"} =>
             \E n \in Int : n = pass[p].to /\ n <= Len(chain) + 1 /\ OpensBehind(n)
      BY <1>0, <2>0 DEF PassFinds, CloseInv, PassCloses, Reached
    <3> QED
      BY <1>o, <3>1
  <2>2. CASE pass'[p] = pass[p]
    <3>1. (pass[p].pc \in {"logs", "lookup", "trades"} => OpensBehind(pass[p].to))'
      BY <2>2, <2>r DEF OpensBehind
    <3>2. "history" \in pass[p].writing =>
            \A b \in pass[p].logs :
               /\ chain'[b].trade \in pass[p].found
               /\ "bulk" \in pass[p].writing \/ trades'[chain'[b].trade] = "CLOSED"
      BY <1>c, <1>l, <2>0, <2>k DEF PassFinds
    <3> QED
      BY <2>0, <2>2, <3>1, <3>2 DEF PassFinds
  <2>3. CASE BlockStep(p)
    <3>1. CASE Begins(p) /\ (pass[p].pc \notin {"write", "left"} \/ pass[p].writing = {})
      <4>1. pass'[p].writing = {}
        BY <2>0, <3>1 DEF Begins, PassFinds
      <4>2. pass'[p].pc \in {"start", "router"}
        BY <3>1 DEF Begins
      <4> QED
        BY <4>1, <4>2 DEF PassFinds
    <3>2. CASE Ranges(p)
      <4>1. OpensBehind(pass'[p].to) /\ pass'[p].to <= Len(chain) + 1
        BY <1>0, <3>2, Numbers DEF Ranges, OpenInv, OpensBehind, HeadInv
      <4>2. (OpensBehind(pass[p].to))'
        BY <1>0, <1>o, <4>1 DEF OpensBehind
      <4>3. pass'[p].pc = "logs" /\ pass'[p].writing = {}
        BY <2>0, <3>2 DEF Ranges, PassFinds
      <4> QED
        BY <4>2, <4>3 DEF PassFinds
    <3>3. CASE Reads(p) \/ Looks(p)
      <4>1. (OpensBehind(pass[p].to))'
        BY <2>r, <3>3 DEF Reads, Looks, OpensBehind
      <4>2. pass'[p].writing = {} /\ \A b \in pass'[p].logs : b <= pass'[p].to
        BY <2>0, <3>3 DEF Reads, Looks, PassFinds
      <4> QED
        BY <4>1, <4>2 DEF PassFinds
    <3>4. CASE Finds(p)
      <4>1. pass'[p].pc = "write" /\ pass'[p].logs = pass[p].logs
        BY <3>4 DEF Finds
      <4>2. ASSUME NEW b \in pass[p].logs
            PROVE  chain'[b].trade \in pass'[p].found /\ "bulk" \in pass'[p].writing
        BY <1>c, <1>l, <3>4, AllFound DEF Finds
      <4> QED
        BY <4>1, <4>2 DEF PassFinds
    <3>5. CASE LandHistory(p)
      <4>1. \/ pass'[p] = NoPass
            \/ pass'[p].pc \in {"write", "left"} /\ "history" \notin pass'[p].writing
        BY <3>5, HistoryEnds, WriteEndsPass
      <4> QED
        BY <2>1, <4>1 DEF PassFinds
    <3>6. CASE LandBulk(p)
      <4>1. WriteEnds(p, "bulk", FALSE) /\ RecordCloses(pass[p].found)
        BY <3>6 DEF LandBulk
      <4>2. \/ pass'[p] = NoPass
            \/ /\ pass'[p].pc \in {"write", "left"}
               /\ pass'[p].logs = pass[p].logs /\ pass'[p].found = pass[p].found
               /\ pass'[p].writing = pass[p].writing \ {"bulk"}
        BY <4>1, WriteEndsPass
      <4>3. \A t \in pass[p].found : trades'[t] = "CLOSED"
        BY <1>0, <4>1 DEF RecordCloses
      <4>4. "history" \in pass[p].writing =>
              \A b \in pass[p].logs :
                 chain'[b].trade \in pass[p].found /\ trades'[chain'[b].trade] = "CLOSED"
        BY <1>c, <1>l, <2>0, <4>3 DEF PassFinds
      <4> QED
        BY <2>1, <4>2, <4>4 DEF PassFinds
    <3> QED
      BY <2>1, <2>3, <3>1, <3>2, <3>3, <3>4, <3>5, <3>6, PassMoves, WritesSucceed DEF Ends
  <2>4. CASE ~\E q \in Pass : BlockStep(q)
    <3>1. pass' = pass \/ Crash
      BY <2>4 DEF Next, vars, Mine, RefreshHead, RouterCron, RouterTick, RouterStart, RouterStep,
           RouterAnswer, RouterHandle, RouterLoses, RouterAdvance, RouterFails, blockVars
    <3> QED
      BY <2>1, <2>2, <3>1 DEF Crash
  <2>5. ASSUME NEW q \in Pass, BlockStep(q), q # p PROVE PassFinds(p)'
    BY <2>2, <2>5, PassMoves
  <2> QED
    BY <2>3, <2>4, <2>5
<1> QED
  BY <1>1, <1>2 DEF FindInv, BeingClosed

LEMMA FindInit == Init => FindInv
<1> SUFFICES ASSUME Init PROVE FindInv
  OBVIOUS
<1>1. history = {} /\ \A p \in Pass : pass[p].pc = "idle" /\ pass[p].writing = {}
  BY DEF Init, NoPass
<1> QED
  BY <1>1 DEF FindInv, PassFinds

LEMMA CrashesStay ==
    ASSUME TypeOK, [Next]_vars, crashes' = 0 PROVE crashes = 0
<1>1. crashes \in Nat
  BY EventSyncAssumption DEF TypeOK
<1>2. crashes' = crashes \/ crashes' = crashes + 1
  BY DEF Next, vars, Mine, RefreshHead, RouterCron, RouterTick, RouterStart, RouterStep,
         RouterAnswer, RouterHandle, RouterLoses, RouterAdvance, RouterFails, BlockStep,
         BlockTick, BlockStart, BlockRange, BlockLogs, BlockLookup, BlockFind, LandHistory,
         LandBulk, BlockWriteFails, BlockAdvance, BlockFails, Crash, Fault, bounded
<1> QED
  BY <1>1, <1>2

\* While no step has failed and the process has not died, no closing is taken for handled
\* without its trade, however many passes there are: a pass reads no further than the
\* router job, which has recorded the openings up to there.
THEOREM CloseFindsTradeHolds ==
    ASSUME ~SlowReads, MinLife > RouterOverlap + Lag, RouterOverlap >= Lag
    PROVE  Spec => []CloseFindsTrade
<1> DEFINE Base == TypeOK /\ HeadInv /\ CursorKept /\ Lives /\ CloseInv
           Quiet == faults = 0 /\ crashes = 0
           Inv == CursorInv /\ (faults = 0 => OpenInv) /\ (Quiet => FindInv)
<1>1. Inv => CloseFindsTrade
  BY DEF FindInv, BeingClosed, CloseFindsTrade
<1>2. Base /\ Base' /\ Inv /\ [Next]_vars => Inv'
  BY CursorStep, OpenStep, FindInvStep, FaultsStay, CrashesStay
<1>3. Init => Inv
  BY CursorInit, FindInit
<1>4. Spec => []Base
  BY CloseInvHolds
<1> HIDE DEF Base, Inv
<1> QED
  BY <1>1, <1>2, <1>3, <1>4, PTL DEF Spec
=============================================================================
