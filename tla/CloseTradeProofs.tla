-------------------------- MODULE CloseTradeProofs --------------------------
(***************************************************************************)
(* What CloseTrade guarantees for any number of trades, objects, retries,  *)
(* failures and crashes: the types, TradeLedger, and the attempts to close *)
(* a trade: the option they are made for is known, there are never two at  *)
(* a time, and there is always one.                                        *)
(***************************************************************************)
EXTENDS CloseTrade, FiniteSetTheorems, WellFoundedInduction, TLAPS

\* The objects of one trade are finitely many.
LEMMA OwnFinite ==
    ASSUME NEW S \in SUBSET Entry, NEW t \in Trade
    PROVE  /\ IsFiniteSet({e \in S : e[1] = t})
           /\ Cardinality({e \in S : e[1] = t}) \in Nat
<1>1. MaxCopies \in Int /\ 1 \in Int
  BY CloseTradeAssumption
<1>2. IsFiniteSet({t}) /\ IsFiniteSet(1..MaxCopies)
  BY <1>1, FS_Singleton, FS_Interval
<1>3. IsFiniteSet({t} \X (1..MaxCopies))
  BY <1>2, FS_Product
<1>4. {e \in S : e[1] = t} \in SUBSET ({t} \X (1..MaxCopies))
  BY DEF Entry
<1> QED
  BY <1>3, <1>4, FS_Subset, FS_CardinalityType

\* What an action makes of an object is an object.
LEMMA ObjectsTyped ==
    /\ NoObject \in TradeObject
    /\ \A o \in TradeObject : o.place \in Place /\ o.option \in BOOLEAN
                              /\ o.closing \in BOOLEAN /\ o.call_close \in Nat
    /\ \A o \in TradeObject, p \in Place :
          /\ MovedTo(p, o) \in TradeObject
          /\ [o EXCEPT !.place = p, !.closing = TRUE] \in TradeObject
          /\ [o EXCEPT !.place = p, !.call_close = @ + 1] \in TradeObject
    /\ \A o \in TradeObject : [o EXCEPT !.option = TRUE] \in TradeObject
<1>1. ASSUME NEW o \in TradeObject
      PROVE  /\ o.place \in Place /\ o.option \in BOOLEAN
             /\ o.closing \in BOOLEAN /\ o.call_close \in Nat
             /\ o = [place |-> o.place, option |-> o.option, closing |-> o.closing,
                     call_close |-> o.call_close]
  BY DEF TradeObject
<1>2. ASSUME NEW o \in TradeObject, NEW p \in Place
      PROVE  /\ MovedTo(p, o) \in TradeObject
             /\ [o EXCEPT !.place = p, !.closing = TRUE] \in TradeObject
             /\ [o EXCEPT !.option = TRUE] \in TradeObject
  BY DEF TradeObject, MovedTo
<1>3. ASSUME NEW o \in TradeObject, NEW p \in Place
      PROVE  [o EXCEPT !.place = p, !.call_close = @ + 1] \in TradeObject
  <2>1. [o EXCEPT !.place = p] \in TradeObject
    BY DEF TradeObject
  <2>2. \A q \in TradeObject, n \in Nat : [q EXCEPT !.call_close = n] \in TradeObject
    BY DEF TradeObject
  <2>3. o.call_close + 1 \in Nat
    BY <1>1
  <2> QED
    BY <2>1, <2>2, <2>3
<1>4. NoObject \in TradeObject /\ "none" \in Place
  BY DEF NoObject, TradeObject, Place
<1> QED
  BY <1>1, <1>2, <1>3, <1>4

\* The pass of the router job reads only what may be read again, and beyond the cursor.
Base == IF Reread THEN settled ELSE synced
ScanAhead == scan.pc # "idle" => scan.from > Base /\ synced <= scan.to

TypeInv == TypeOK /\ ScanAhead

\* The steps that touch only objects, calls, requests and loaders.
LEMMA TypeMemory ==
    ASSUME TypeInv,
           UNCHANGED <<chain, log, age, synced, settled, scan>>,
           db' \in [Trade -> TradeRecord],
           entry' \in [Entry -> TradeObject], calls' \subseteq Call,
           incs' \in [Trade -> Nat], sent' \in [Trade -> Nat],
           req' \in [Trade -> {"idle", "read", "write"}],
           toLoad' \subseteq {"opening", "active"},
           faults' \in 0..MaxFaults, crashes' \in 0..MaxCrashes
    PROVE  TypeInv'
  BY DEF TypeInv, TypeOK, ScanAhead, Base

LEMMA FaultTyped ==
    ASSUME TypeOK, NEW kind, Fault(kind)
    PROVE  faults' \in 0..MaxFaults /\ crashes' = crashes
  BY CloseTradeAssumption DEF Fault, TypeOK

\* A trade taken from the collection is an object.
LEMMA AddFromDbTyped ==
    ASSUME TypeOK, NEW ts, NEW p \in Place, NEW o \in BOOLEAN, AddFromDb(ts, p, o)
    PROVE  entry' \in [Entry -> TradeObject]
<1>1. \A e \in Entry : [place |-> p, option |-> o, closing |-> db[e[1]].closing,
                        call_close |-> db[e[1]].call_close] \in TradeObject
  BY DEF TypeOK, Entry, TradeRecord, TradeObject
<1> QED
  BY <1>1 DEF AddFromDb, TypeOK

LEMMA TypeInit == Init => TypeInv
<1> SUFFICES ASSUME Init PROVE TypeInv
  OBVIOUS
<1>1. entry \in [Entry -> TradeObject]
  BY ObjectsTyped DEF Init, Place
<1>2. scan \in [pc: {"idle", "find", "push", "write"}, from: Nat \ {0}, to: 0..Len(log)]
      /\ log \in Seq(RouterEvent) /\ Len(log) = 0
  BY DEF Init, Idle
<1> QED
  BY <1>1, <1>2, CloseTradeAssumption DEF Init, TypeInv, TypeOK, ScanAhead, Idle, TradeRecord

\* Objects that move, are changed or dropped stay objects.
LEMMA UpdatedTyped ==
    ASSUME TypeOK, NEW es
    PROVE  /\ \A p \in Place : Updated(es, LAMBDA o : MovedTo(p, o)) => entry' \in [Entry -> TradeObject]
           /\ Updated(es, Dropped) => entry' \in [Entry -> TradeObject]
           /\ Updated(es, LAMBDA o : [o EXCEPT !.option = TRUE]) => entry' \in [Entry -> TradeObject]
<1>0. entry \in [Entry -> TradeObject] /\ \A e \in Entry : entry[e] \in TradeObject
  BY DEF TypeOK
<1>1. ASSUME NEW p \in Place, Updated(es, LAMBDA o : MovedTo(p, o))
      PROVE  entry' \in [Entry -> TradeObject]
  <2>1. \A e \in Entry : (IF e \in es THEN MovedTo(p, entry[e]) ELSE entry[e]) \in TradeObject
    BY <1>0, ObjectsTyped
  <2> QED
    BY <1>1, <2>1 DEF Updated
<1>2. ASSUME Updated(es, Dropped) PROVE entry' \in [Entry -> TradeObject]
  BY <1>0, <1>2, ObjectsTyped DEF Updated, Dropped
<1>3. ASSUME Updated(es, LAMBDA o : [o EXCEPT !.option = TRUE])
      PROVE  entry' \in [Entry -> TradeObject]
  BY <1>0, <1>3, ObjectsTyped DEF Updated
<1> QED
  BY <1>1, <1>2, <1>3

LEMMA TypeRequests ==
    ASSUME TypeInv, NEW t \in Trade, UserStep(t) PROVE TypeInv'
<1>0. TypeOK /\ db \in [Trade -> TradeRecord] /\ entry \in [Entry -> TradeObject]
      /\ req \in [Trade -> {"idle", "read", "write"}]
  BY DEF TypeInv, TypeOK
<1> USE DEF chainVars, routerVars, bounded
<1>1. CASE CloseRead(t)
  <2>1. req' \in [Trade -> {"idle", "read", "write"}]
    BY <1>0, <1>1 DEF CloseRead
  <2> QED
    BY <1>0, <1>1, <2>1, TypeMemory DEF CloseRead, TypeOK
<1>2. CASE CloseMove(t)
  <2>1. req' \in [Trade -> {"idle", "read", "write"}]
    BY <1>0, <1>2 DEF CloseMove
  <2>2. entry' \in [Entry -> TradeObject]
    <3>1. \/ UNCHANGED entry
          \/ \E moved : Updated(moved, LAMBDA o : [o EXCEPT !.place = "anytime", !.closing = TRUE])
      BY <1>2 DEF CloseMove
    <3> QED
      BY ZenonT(60), <1>0, <3>1, ObjectsTyped DEF Updated, Place
  <2> QED
    BY <1>0, <1>2, <2>1, <2>2, TypeMemory DEF CloseMove, TypeOK
<1>3. CASE CloseWrite(t)
  <2>1. req' \in [Trade -> {"idle", "read", "write"}]
    BY <1>0, <1>3 DEF CloseWrite
  <2>2. db' \in [Trade -> TradeRecord]
    BY ZenonT(60), <1>0, <1>3 DEF CloseWrite, TradeRecord
  <2>3. faults' \in 0..MaxFaults /\ crashes' \in 0..MaxCrashes
    BY <1>0, <1>3, FaultTyped DEF CloseWrite, TypeOK
  <2> QED
    BY <1>0, <1>3, <2>1, <2>2, <2>3, TypeMemory DEF CloseWrite, TypeOK
<1> QED
  BY <1>1, <1>2, <1>3 DEF UserStep

LEMMA TypeStartCall ==
    ASSUME TypeInv, NEW kind \in {"execute", "close"}, NEW batch \in SUBSET Entry,
           StartCall(kind, batch)
    PROVE  TypeInv'
<1>0. TypeOK /\ entry \in [Entry -> TradeObject] /\ incs \in [Trade -> Nat]
      /\ crashes \in 0..MaxCrashes /\ faults \in 0..MaxFaults /\ calls \subseteq Call
  BY DEF TypeInv, TypeOK
<1> USE DEF chainVars, routerVars, bounded
<1>1. entry' \in [Entry -> TradeObject]
  <2>1. \A e \in Entry : [entry[e] EXCEPT !.place = "call", !.call_close = @ + 1] \in TradeObject
    BY <1>0, ObjectsTyped DEF Place
  <2> QED
    BY <1>0, <2>1 DEF StartCall, Updated
<1>2. calls' \subseteq Call
  <2>1. calls' = calls \cup {[kind |-> kind, batch |-> batch, sent |-> FALSE]}
    BY DEF StartCall
  <2>2. [kind |-> kind, batch |-> batch, sent |-> FALSE] \in Call
    BY DEF Call
  <2> QED
    BY <1>0, <2>1, <2>2
<1>3. incs' \in [Trade -> Nat]
  <2>1. \A t \in Trade : Cardinality({e \in batch : e[1] = t}) \in Nat
    BY OwnFinite
  <2> QED
    BY <1>0, <2>1 DEF StartCall
<1> QED
  BY <1>0, <1>1, <1>2, <1>3, TypeMemory DEF StartCall, TypeOK

LEMMA TypeJobs == ASSUME TypeInv, JobStep PROVE TypeInv'
<1>0. TypeOK
  BY DEF TypeInv
<1> USE DEF chainVars, routerVars, bounded
<1>1. CASE ExcuteOptions \/ CloseTradesAnyTime
  BY <1>1, TypeStartCall DEF ExcuteOptions, CloseTradesAnyTime, Batches, At
<1>2. CASE LoseAnyTimeBatch
  <2>1. entry' \in [Entry -> TradeObject]
    BY <1>0, <1>2, UpdatedTyped DEF LoseAnyTimeBatch
  <2>2. faults' \in 0..MaxFaults /\ crashes' \in 0..MaxCrashes
    BY <1>0, <1>2, FaultTyped DEF LoseAnyTimeBatch, TypeOK
  <2> QED
    BY <1>0, <1>2, <2>1, <2>2, TypeMemory DEF LoseAnyTimeBatch, TypeOK
<1> QED
  BY <1>1, <1>2 DEF JobStep

LEMMA TypeCalls == ASSUME TypeInv, CallStep PROVE TypeInv'
<1>0. /\ TypeOK /\ entry \in [Entry -> TradeObject] /\ sent \in [Trade -> Nat]
      /\ calls \subseteq Call /\ \A c \in calls : c.batch \in SUBSET Entry
  BY DEF TypeInv, TypeOK, Call
<1> USE DEF chainVars, routerVars, bounded
<1>1. CASE SendCall
  <2>1. PICK c \in calls :
           /\ calls' = (calls \ {c}) \cup {[c EXCEPT !.sent = TRUE]}
           /\ sent' = [t \in Trade |->
                 sent[t] + Cardinality({e \in c.batch : e[1] = t /\ entry[e].option})]
    BY <1>1 DEF SendCall
  <2>2. calls' \subseteq Call
    BY <1>0, <2>1 DEF Call
  <2>3. \A t \in Trade : Cardinality({e \in c.batch : e[1] = t /\ entry[e].option}) \in Nat
    <3>1. TAKE t \in Trade
    <3>2. {e \in c.batch : e[1] = t /\ entry[e].option}
             = {e \in {f \in c.batch : entry[f].option} : e[1] = t}
      OBVIOUS
    <3>3. {f \in c.batch : entry[f].option} \in SUBSET Entry
      BY <1>0
    <3> QED
      BY <3>2, <3>3, OwnFinite
  <2>4. sent' \in [Trade -> Nat]
    BY <1>0, <2>1, <2>3
  <2> QED
    BY <1>0, <1>1, <2>2, <2>4, TypeMemory DEF SendCall, TypeOK
<1>2. CASE CallResolves
  <2>1. entry' \in [Entry -> TradeObject]
    BY <1>0, <1>2, UpdatedTyped DEF CallResolves
  <2> QED
    BY <1>0, <1>2, <2>1, TypeMemory DEF CallResolves, TypeOK
<1>3. CASE CallFails
  <2>1. entry' \in [Entry -> TradeObject]
    <3>1. \A e \in Entry, p \in {"active", "anytime"} :
             /\ [entry[e] EXCEPT !.place = p, !.call_close = @ + 1] \in TradeObject
             /\ NoObject \in TradeObject
      BY <1>0, ObjectsTyped DEF Place
    <3>2. PICK c \in calls : Updated(c.batch, LAMBDA o :
             IF MayRetry(o.call_close)
             THEN [o EXCEPT !.place = IF c.kind = "execute" THEN "active" ELSE "anytime",
                            !.call_close = @ + 1]
             ELSE NoObject)
      BY <1>3 DEF CallFails
    <3> QED
      BY <1>0, <3>1, <3>2 DEF Updated
  <2> QED
    BY <1>0, <1>3, <2>1, TypeMemory DEF CallFails, TypeOK
<1> QED
  BY <1>1, <1>2, <1>3 DEF CallStep

\* The steps of the chain and of the clock.
LEMMA TypeChain ==
    ASSUME TypeInv, NEW t \in Trade,
           ChainStep(t) \/ LoseTx(t) \/ RecordClose(t) \/ LandInc(t) \/ Tick(t)
    PROVE  TypeInv'
<1>0. /\ TypeOK /\ ScanAhead /\ db \in [Trade -> TradeRecord] /\ sent \in [Trade -> Nat]
      /\ log \in Seq(RouterEvent) /\ Len(log) \in Nat
      /\ chain \in [Trade -> {"sent", "open", "closed"}]
      /\ synced \in 0..Len(log) /\ settled \in 0..synced
      /\ scan \in [pc: {"idle", "find", "push", "write"}, from: Nat \ {0}, to: 0..Len(log)]
  BY DEF TypeInv, TypeOK
<1> USE DEF memVars, chainVars, routerVars, bounded
<1>1. ASSUME NEW event \in RouterEvent, log' = Append(log, event),
             UNCHANGED <<synced, settled, scan>>
      PROVE  /\ log' \in Seq(RouterEvent)
             /\ synced' \in 0..Len(log') /\ settled' \in 0..synced'
             /\ scan' \in [pc: {"idle", "find", "push", "write"}, from: Nat \ {0}, to: 0..Len(log')]
             /\ ScanAhead'
  <2>1. Len(log') = Len(log) + 1 /\ log' \in Seq(RouterEvent)
    BY <1>0, <1>1
  <2>2. scan.to \in 0..Len(log')
    BY <1>0, <2>1
  <2>3. scan = [pc |-> scan.pc, from |-> scan.from, to |-> scan.to]
    BY <1>0
  <2> QED
    BY <1>0, <1>1, <2>1, <2>2, <2>3 DEF ScanAhead, Base
<1>2. CASE MineOpen(t)
  <2>1. Opening(t) \in RouterEvent
    BY DEF Opening, RouterEvent
  <2>2. chain' \in [Trade -> {"sent", "open", "closed"}]
    BY <1>0, <1>2 DEF MineOpen
  <2> QED
    BY <1>0, <1>1, <1>2, <2>1, <2>2 DEF MineOpen, TypeInv, TypeOK
<1>3. CASE MineClose(t)
  <2>1. Failing(t) \in RouterEvent
    BY DEF Failing, RouterEvent
  <2>2. sent' \in [Trade -> Nat] /\ chain' \in [Trade -> {"sent", "open", "closed"}]
    <3>1. sent[t] > 0 /\ sent' = [sent EXCEPT ![t] = @ - 1]
      BY <1>3 DEF MineClose
    <3>2. UNCHANGED chain \/ chain' = [chain EXCEPT ![t] = "closed"]
      BY <1>3 DEF MineClose
    <3> QED
      BY SMTT(30), <1>0, <3>1, <3>2
  <2>3. CASE UNCHANGED log
    BY <1>0, <1>3, <2>2, <2>3 DEF MineClose, TypeInv, TypeOK, ScanAhead, Base
  <2>4. CASE log' = Append(log, Failing(t))
    BY <1>0, <1>1, <1>3, <2>1, <2>2, <2>4 DEF MineClose, TypeInv, TypeOK
  <2> QED
    BY <1>3, <2>3, <2>4 DEF MineClose
<1>4. CASE LoseTx(t)
  <2>1. sent' \in [Trade -> Nat]
    BY <1>0, <1>4 DEF LoseTx
  <2>2. faults' \in 0..MaxFaults /\ crashes' \in 0..MaxCrashes
    BY <1>0, <1>4, FaultTyped DEF LoseTx, TypeOK
  <2> QED
    BY <1>0, <1>4, <2>1, <2>2 DEF LoseTx, TypeInv, TypeOK, ScanAhead, Base
<1>5. CASE RecordClose(t) \/ LandInc(t)
  <2>1. db' \in [Trade -> TradeRecord]
    <3>1. db[t] \in TradeRecord /\ db[t].call_close \in Nat
      BY <1>0 DEF TradeRecord
    <3>2. \A r \in TradeRecord, n \in Nat : [r EXCEPT !.call_close = n] \in TradeRecord
      BY DEF TradeRecord
    <3>3. [db[t] EXCEPT !.state = "CLOSED"] \in TradeRecord
      BY <3>1 DEF TradeRecord
    <3>4. CASE RecordClose(t)
      BY <1>0, <3>3, <3>4 DEF RecordClose
    <3>5. CASE LandInc(t)
      <4>1. db' = [db EXCEPT ![t].call_close = @ + 1]
        BY <3>5 DEF LandInc
      <4>2. [db[t] EXCEPT !.call_close = db[t].call_close + 1] \in TradeRecord
        <5>1. db[t].call_close + 1 \in Nat
          BY <3>1
        <5> QED
          BY <3>1, <3>2, <5>1
      <4>3. db' = [db EXCEPT ![t] = [db[t] EXCEPT !.call_close = db[t].call_close + 1]]
        BY <4>1
      <4> QED
        BY <1>0, <4>2, <4>3
    <3> QED
      BY <1>5, <3>4, <3>5
  <2>2. incs' \in [Trade -> Nat]
    <3>1. incs \in [Trade -> Nat]
      BY <1>0 DEF TypeOK
    <3> QED
      BY <1>5, <3>1 DEF RecordClose, LandInc
  <2>3. UNCHANGED <<age, entry, calls, req, toLoad, chain, sent, log, synced, settled, scan, faults, crashes>>
    BY <1>5 DEF RecordClose, LandInc
  <2> QED
    BY <1>0, <2>1, <2>2, <2>3, TypeMemory DEF TypeOK
<1>6. CASE Tick(t)
  <2>0. age \in [Trade -> 0..2] /\ age[t] < 2
    BY <1>0, <1>6 DEF Tick, TypeOK
  <2>1. age[t] \in 0..2 /\ age[t] + 1 \in 0..2
    BY <2>0
  <2>2. age' \in [Trade -> 0..2]
    BY <1>6, <2>0, <2>1 DEF Tick
  <2> QED
    BY <1>0, <1>6, <2>2 DEF Tick, TypeInv, TypeOK, ScanAhead, Base
<1> QED
  BY <1>2, <1>3, <1>4, <1>5, <1>6 DEF ChainStep

\* The steps of the router job.
LEMMA TypeRouter ==
    ASSUME TypeInv, RouterStep \/ CursorMoves PROVE TypeInv'
<1>0. /\ TypeOK /\ ScanAhead /\ db \in [Trade -> TradeRecord]
      /\ Len(log) \in Nat /\ synced \in 0..Len(log) /\ settled \in 0..synced
      /\ scan \in [pc: {"idle", "find", "push", "write"}, from: Nat \ {0}, to: 0..Len(log)]
      /\ faults \in 0..MaxFaults /\ crashes \in 0..MaxCrashes
  BY DEF TypeInv, TypeOK
<1>i. Idle \in [pc: {"idle", "find", "push", "write"}, from: Nat \ {0}, to: 0..Len(log)]
      /\ Idle.pc = "idle"
  BY <1>0 DEF Idle
<1> USE DEF memVars, chainVars, routerVars, bounded
<1>1. CASE RouterScan
  <2>1. PICK from \in ScanStarts :
           LET pass == [pc |-> "write", from |-> from, to |-> Len(log)]
           IN  /\ from <= Len(log)
               /\ Told(Opens(pass))
               /\ scan' = IF Fails(pass) = {} THEN pass ELSE [pass EXCEPT !.pc = "find"]
    BY <1>1 DEF RouterScan
  <2>2. from \in Nat \ {0} /\ from > Base
    BY <1>0 DEF ScanStarts, Base
  <2>3. scan' \in {[pc |-> pc, from |-> from, to |-> Len(log)] : pc \in {"write", "find"}}
    BY <2>1
  <2>4. /\ scan' \in [pc: {"idle", "find", "push", "write"}, from: Nat \ {0}, to: 0..Len(log)]
        /\ scan'.from = from /\ scan'.to = Len(log)
    BY <1>0, <2>2, <2>3
  <2>5. entry' \in [Entry -> TradeObject]
    BY <1>0, <2>1, UpdatedTyped DEF Told
  <2> QED
    BY SMTT(30), <1>0, <1>1, <2>2, <2>4, <2>5 DEF RouterScan, TypeInv, TypeOK, ScanAhead, Base
<1>2. CASE RouterFind
  <2>1. entry' \in [Entry -> TradeObject]
    BY <1>0, <1>2, AddFromDbTyped DEF RouterFind, Place
  <2>2. /\ scan' \in [pc: {"idle", "find", "push", "write"}, from: Nat \ {0}, to: 0..Len(log)]
        /\ scan'.from = scan.from /\ scan'.to = scan.to /\ scan.pc # "idle"
    BY <1>0, <1>2 DEF RouterFind
  <2> QED
    BY <1>0, <1>2, <2>1, <2>2 DEF RouterFind, TypeInv, TypeOK, ScanAhead, Base
<1>3. CASE RouterPush
  <2>1. entry' \in [Entry -> TradeObject]
    <3>1. \A e \in Entry, p \in {"active", "anytime"} : MovedTo(p, entry[e]) \in TradeObject
      BY <1>0, ObjectsTyped DEF TypeOK, Place
    <3> QED
      BY <1>0, <1>3, <3>1 DEF RouterPush, Updated, TypeOK
  <2>2. /\ scan' \in [pc: {"idle", "find", "push", "write"}, from: Nat \ {0}, to: 0..Len(log)]
        /\ scan'.from = scan.from /\ scan'.to = scan.to /\ scan.pc # "idle"
    BY <1>0, <1>3 DEF RouterPush
  <2> QED
    BY <1>0, <1>3, <2>1, <2>2 DEF RouterPush, TypeInv, TypeOK, ScanAhead, Base
<1>4. CASE RouterWrite
  <2>1. db' \in [Trade -> TradeRecord]
    <3>1. \A t \in Trade : [db[t] EXCEPT !.state = "OPENED"] \in TradeRecord /\ db[t] \in TradeRecord
      BY <1>0 DEF TradeRecord
    <3> QED
      BY <1>0, <1>4, <3>1 DEF RouterWrite
  <2>2. faults' \in 0..MaxFaults /\ crashes' \in 0..MaxCrashes
    BY <1>0, <1>4, FaultTyped DEF RouterWrite
  <2>3. synced' \in 0..Len(log) /\ settled \in 0..synced'
    BY <1>0, <1>4 DEF RouterWrite, End, ScanAhead
  <2> QED
    BY <1>0, <1>i, <1>4, <2>1, <2>2, <2>3 DEF RouterWrite, TypeInv, TypeOK, ScanAhead
<1>5. CASE RouterThrows
  <2>2. faults' \in 0..MaxFaults /\ crashes' \in 0..MaxCrashes
    BY <1>0, <1>5, FaultTyped DEF RouterThrows
  <2>3. synced' \in 0..Len(log) /\ settled \in 0..synced'
    BY <1>0, <1>5 DEF RouterThrows, End, ScanAhead
  <2> QED
    BY <1>0, <1>i, <1>5, <2>2, <2>3 DEF RouterThrows, TypeInv, TypeOK, ScanAhead
<1>6. CASE CursorMoves
  <2>1. settled' \in 0..synced /\ scan.pc = "idle"
    BY <1>0, <1>i, <1>6 DEF CursorMoves
  <2> QED
    BY <1>0, <1>6, <2>1 DEF CursorMoves, TypeInv, TypeOK, ScanAhead
<1> QED
  BY <1>1, <1>2, <1>3, <1>4, <1>5, <1>6 DEF RouterStep

\* The steps of the start-up, and a crash.
LEMMA TypeStart ==
    ASSUME TypeInv, LoadStep \/ Crash \/ OpenResolves \/ UNCHANGED vars PROVE TypeInv'
<1>0. TypeOK /\ ScanAhead /\ entry \in [Entry -> TradeObject] /\ Len(log) \in Nat
  BY DEF TypeInv, TypeOK
<1> USE DEF memVars, chainVars, routerVars, bounded
<1>1. ASSUME NEW kind \in {"opening", "active"}, LoadRead(kind) PROVE TypeInv'
  <2>1. entry' \in [Entry -> TradeObject]
    BY <1>0, <1>1, AddFromDbTyped DEF LoadRead, Place
  <2> QED
    BY <1>0, <1>1, <2>1, TypeMemory DEF LoadRead, TypeOK
<1>2. CASE LoadPush
  <2>1. entry' \in [Entry -> TradeObject]
    BY <1>0, <1>2, UpdatedTyped DEF LoadPush, Place
  <2> QED
    BY <1>0, <1>2, <2>1, TypeMemory DEF LoadPush, TypeOK
<1>3. CASE OpenResolves
  <2>1. entry' \in [Entry -> TradeObject]
    BY <1>0, <1>3, UpdatedTyped DEF OpenResolves, Place
  <2> QED
    BY <1>0, <1>3, <2>1, TypeMemory DEF OpenResolves, TypeOK
<1>4. CASE Crash
  <2>1. entry' \in [Entry -> TradeObject]
    BY <1>0, <1>4, ObjectsTyped DEF Crash
  <2>2. scan' \in [pc: {"idle", "find", "push", "write"}, from: Nat \ {0}, to: 0..Len(log)]
        /\ scan'.pc = "idle"
    BY <1>0, <1>4 DEF Crash, Idle
  <2> QED
    BY <1>0, <1>4, <2>1, <2>2, CloseTradeAssumption DEF Crash, TypeInv, TypeOK, ScanAhead
<1>5. CASE UNCHANGED vars
  BY <1>0, <1>5 DEF vars, TypeInv, TypeOK, ScanAhead, Base
<1> QED
  BY <1>1, <1>2, <1>3, <1>4, <1>5 DEF LoadStep

LEMMA TypeStep == TypeInv /\ [Next]_vars => TypeInv'
  BY TypeRequests, TypeJobs, TypeCalls, TypeChain, TypeRouter, TypeStart DEF Next

LEMMA TypeInvHolds == Spec => []TypeInv
  BY TypeInit, TypeStep, PTL DEF Spec

\* The state of the closing pipeline is well formed in every reachable state; in particular
\* the cursor of the router job never passes the last event, nor moves back over what it
\* gave up reading again.
THEOREM TypeCorrect == Spec => []TypeOK
<1>1. TypeInv => TypeOK
  BY DEF TypeInv
<1> QED
  BY <1>1, TypeInvHolds, PTL

-----------------------------------------------------------------------------
(* Objects and calls *)

\* An object is in one call at most, and then in no list.
OneCall ==
    /\ \A c \in calls : \A e \in c.batch : entry[e].place = "call"
    /\ \A c, d \in calls : c # d => c.batch \cap d.batch = {}

\* Steps that start or end no call and leave the objects in calls where they are.
LEMMA CallFrame ==
    ASSUME TypeInv, OneCall, UNCHANGED calls,
           \A e \in Entry : entry[e].place = "call" => entry'[e].place = "call"
    PROVE  OneCall'
<1>1. \A c \in calls : c.batch \subseteq Entry
  BY DEF TypeInv, TypeOK, Call
<1> QED
  BY <1>1 DEF OneCall

\* A trade taken from the collection disturbs no object.
LEMMA AddFromDbPlaces ==
    ASSUME NEW ts, NEW p, NEW opt, AddFromDb(ts, p, opt), NEW e \in Entry
    PROVE  entry[e].place = "none" \/ entry'[e] = entry[e]
  BY DEF AddFromDb

LEMMA OneCallStartCall ==
    ASSUME TypeInv, OneCall, NEW kind, NEW batch \in SUBSET Entry, batch # {},
           \A e \in batch : entry[e].place # "call", StartCall(kind, batch)
    PROVE  OneCall'
<1>0. /\ \A e \in Entry : entry[e] \in TradeObject
      /\ \A c \in calls : c.batch \subseteq Entry
  BY DEF TypeInv, TypeOK, Call
<1>1. \A e \in Entry : entry'[e].place = IF e \in batch THEN "call" ELSE entry[e].place
  <2>1. Updated(batch, LAMBDA o : [o EXCEPT !.place = "call", !.call_close = @ + 1])
    BY DEF StartCall
  <2> QED
    BY <1>0, <2>1 DEF Updated, TradeObject
<1> DEFINE new == [kind |-> kind, batch |-> batch, sent |-> FALSE]
<1>2. calls' = calls \cup {new} /\ new.batch = batch
  BY DEF StartCall
<1>3. \A c \in calls : c.batch \cap batch = {}
  BY DEF OneCall
<1>4. \A c \in calls' : \A e \in c.batch : entry'[e].place = "call"
  BY <1>0, <1>1, <1>2 DEF OneCall
<1>5. \A c, d \in calls' : c # d => c.batch \cap d.batch = {}
  BY <1>2, <1>3 DEF OneCall
<1> QED
  BY <1>4, <1>5 DEF OneCall

LEMMA OneCallStep ==
    ASSUME TypeInv, OneCall, [Next]_vars PROVE OneCall'
<1>0. /\ TypeOK /\ \A e \in Entry : entry[e] \in TradeObject
      /\ \A c \in calls : c.batch \subseteq Entry
  BY DEF TypeInv, TypeOK, Call
<1> USE DEF memVars, chainVars, routerVars, bounded
<1>1. ASSUME NEW t \in Trade, UserStep(t) PROVE OneCall'
  <2>1. \A e \in Entry : entry[e].place = "call" => entry'[e].place = "call"
    <3>1. \/ UNCHANGED entry
          \/ \E moved \in SUBSET At("active") :
                Updated(moved, LAMBDA o : [o EXCEPT !.place = "anytime", !.closing = TRUE])
      BY <1>1 DEF UserStep, CloseRead, CloseMove, CloseWrite
    <3> QED
      BY <3>1 DEF Updated, At
  <2> QED
    BY <1>1, <2>1, CallFrame DEF UserStep, CloseRead, CloseMove, CloseWrite
<1>2. CASE ExcuteOptions \/ CloseTradesAnyTime
  <2>1. PICK kind \in {"execute", "close"}, batch \in SUBSET Entry :
           /\ batch # {} /\ StartCall(kind, batch)
           /\ batch \subseteq At("active") \/ batch \subseteq At("anytime")
    BY <1>2 DEF ExcuteOptions, CloseTradesAnyTime, Batches, At
  <2> QED
    BY <2>1, OneCallStartCall DEF At
<1>3. CASE LoseAnyTimeBatch
  <2>1. PICK batch \in SUBSET At("anytime") : Updated(batch, Dropped)
    BY <1>3 DEF LoseAnyTimeBatch, Batches
  <2>2. \A e \in Entry : entry[e].place = "call" => entry'[e].place = "call"
    BY <2>1 DEF Updated, At
  <2> QED
    BY <1>3, <2>2, CallFrame DEF LoseAnyTimeBatch
<1>4. CASE SendCall
  <2>1. PICK c \in calls : calls' = (calls \ {c}) \cup {[c EXCEPT !.sent = TRUE]} /\ UNCHANGED entry
    BY <1>4 DEF SendCall
  <2>2. [c EXCEPT !.sent = TRUE].batch = c.batch
    BY <2>1 DEF TypeInv, TypeOK, Call
  <2>3. \A d \in calls' : \/ d \in calls /\ d # c
                          \/ d = [c EXCEPT !.sent = TRUE]
    BY <2>1
  <2> QED
    BY <2>1, <2>2, <2>3 DEF OneCall
<1>5. CASE CallResolves \/ CallFails
  <2>1. PICK c \in calls : /\ calls' = calls \ {c}
                           /\ \A e \in Entry : e \notin c.batch => entry'[e] = entry[e]
    BY <1>5 DEF CallResolves, CallFails, Updated
  <2>2. \A d \in calls' : d \in calls /\ \A e \in d.batch : e \in Entry /\ e \notin c.batch
    BY <1>0, <2>1 DEF OneCall
  <2> QED
    BY <2>1, <2>2 DEF OneCall
<1>6. CASE OpenResolves \/ LoadPush
  <2>1. PICK es \in SUBSET (At("opening") \cup At("loading")) :
           entry' = [e \in Entry |-> IF e \in es THEN MovedTo("active", entry[e]) ELSE entry[e]]
    <3>1. CASE OpenResolves
      <4>1. PICK f \in At("opening") : Updated({f}, LAMBDA o : MovedTo("active", o))
        BY <3>1 DEF OpenResolves
      <4> QED
        BY <4>1 DEF Updated
    <3>2. CASE LoadPush
      BY <3>2 DEF LoadPush, Updated
    <3> QED
      BY <1>6, <3>1, <3>2
  <2>2. \A e \in Entry : entry[e].place = "call" => entry'[e] = entry[e]
    BY <2>1 DEF At
  <2> QED
    BY <1>6, <2>2, CallFrame DEF OpenResolves, LoadPush
<1>7. CASE RouterScan
  <2>1. PICK told : Updated(told, LAMBDA o : [o EXCEPT !.option = TRUE])
    BY <1>7 DEF RouterScan, Told
  <2>2. \A e \in Entry : entry'[e].place = entry[e].place
    BY <1>0, <2>1 DEF Updated, TradeObject
  <2> QED
    BY <1>7, <2>2, CallFrame DEF RouterScan
<1>8. CASE RouterFind \/ \E kind \in {"opening", "active"} : LoadRead(kind)
  <2>1. \E ts, p, opt : AddFromDb(ts, p, opt)
    BY <1>8 DEF RouterFind, LoadRead
  <2>2. \A e \in Entry : entry[e].place = "call" => entry'[e].place = "call"
    BY <2>1, AddFromDbPlaces
  <2> QED
    BY <1>8, <2>2, CallFrame DEF RouterFind, LoadRead
<1>9. CASE RouterPush
  <2>1. \A e \in Entry : entry[e].place = "call" => entry'[e] = entry[e]
    BY <1>9 DEF RouterPush, Updated, At
  <2> QED
    BY <1>9, <2>1, CallFrame DEF RouterPush
<1>10. CASE RouterWrite \/ RouterThrows \/ CursorMoves \/ UNCHANGED vars
  BY <1>10, CallFrame DEF RouterWrite, RouterThrows, CursorMoves, vars
<1>11. CASE Crash
  BY <1>11 DEF Crash, OneCall
<1>12. ASSUME NEW t \in Trade, ChainStep(t) \/ LoseTx(t) \/ RecordClose(t) \/ LandInc(t) \/ Tick(t)
       PROVE  OneCall'
  BY <1>12, CallFrame DEF ChainStep, MineOpen, MineClose, LoseTx, RecordClose, LandInc, Tick
<1> QED
  BY <1>1, <1>2, <1>3, <1>4, <1>5, <1>6, <1>7, <1>8, <1>9, <1>10, <1>11, <1>12
     DEF Next, JobStep, CallStep, RouterStep, LoadStep

LEMMA OneCallHolds == Spec => []OneCall
<1>1. Init => OneCall
  BY DEF Init, OneCall
<1> QED
  BY <1>1, OneCallStep, TypeInvHolds, PTL DEF Spec

-----------------------------------------------------------------------------
(* The closing pipeline implements TradeLedger *)

\* Of a trade the contract has not opened nothing is known: it is QUEUED, no object has its
\* option, no closing of it is on its way, and no event tells of it.
Unopened ==
    \A t \in Trade : chain[t] = "sent" =>
       /\ db[t].state = "QUEUED"
       /\ sent[t] = 0
       /\ \A e \in Entry : e[1] = t => ~entry[e].option
       /\ \A i \in 1..Len(log) : log[i].trade # t

\* A trade recorded CLOSED was closed by the contract, and no pass reads its opening again.
ClosedSettled ==
    \A t \in Trade : db[t].state = "CLOSED" =>
       /\ chain[t] = "closed"
       /\ \A i \in 1..Len(log) : log[i] = Opening(t) => i <= Base

ChainInv == Unopened /\ ClosedSettled

LEMMA ChainInit == Init => ChainInv
  BY DEF Init, ChainInv, Unopened, ClosedSettled, NoObject, MovedTo

-----------------------------------------------------------------------------
(* What a step does to the records and to the chain *)

\* A pass records OPENED what the contract opened, and nothing that is recorded CLOSED.
LEMMA RouterRecords ==
    ASSUME TypeInv, ChainInv, scan.pc = "write", NEW t \in Opens(scan)
    PROVE  t \in Trade /\ chain[t] # "sent" /\ db[t].state # "CLOSED"
<1>1. /\ scan.from \in Nat \ {0} /\ scan.to \in 0..Len(log) /\ Len(log) \in Nat
      /\ scan.from > Base /\ Base \in Nat
  BY DEF TypeInv, TypeOK, ScanAhead, Base
<1>2. PICK i \in scan.from..scan.to : log[i] = Opening(t)
  BY DEF Opens
<1>3. i \in 1..Len(log) /\ i > Base /\ log[i].trade = t /\ t \in Trade
  BY <1>1, <1>2 DEF Opening, Opens
<1> QED
  BY <1>1, <1>2, <1>3 DEF ChainInv, Unopened, ClosedSettled

RecordMay(t) ==
    \/ db'[t].state = db[t].state
    \/ db[t].state \in {"QUEUED", "OPENED"} /\ db'[t].state = "OPENED" /\ chain[t] # "sent"
    \/ db[t].state = "OPENED" /\ db'[t].state = "CLOSED" /\ chain[t] = "closed"

LEMMA StepEffect ==
    ASSUME TypeInv, ChainInv, [Next]_vars
    PROVE  \/ UNCHANGED chain /\ \A t \in Trade : RecordMay(t)
           \/ /\ UNCHANGED db
              /\ \E t \in Trade : \/ chain[t] = "sent" /\ chain' = [chain EXCEPT ![t] = "open"]
                                  \/ chain[t] = "open" /\ chain' = [chain EXCEPT ![t] = "closed"]
<1>0. /\ db \in [Trade -> TradeRecord] /\ \A t \in Trade : db[t] \in TradeRecord
      /\ chain \in [Trade -> {"sent", "open", "closed"}]
      /\ sent \in [Trade -> Nat]
  BY DEF TypeInv, TypeOK
<1> USE DEF memVars, chainVars, routerVars, bounded
<1>1. ASSUME NEW t \in Trade, UserStep(t) \/ LandInc(t) \/ RecordClose(t)
      PROVE  UNCHANGED chain /\ \A u \in Trade : RecordMay(u)
  <2>1. CASE CloseRead(t) \/ CloseMove(t)
    BY <2>1 DEF CloseRead, CloseMove, RecordMay
  <2>2. CASE CloseWrite(t) \/ LandInc(t)
    <3>1. \/ UNCHANGED db
          \/ db' = [db EXCEPT ![t].closing = TRUE]
          \/ \E n : db' = [db EXCEPT ![t].call_close = n]
      BY <2>2 DEF CloseWrite, LandInc
    <3>2. \A u \in Trade : db'[u].state = db[u].state
      BY <1>0, <3>1 DEF TradeRecord
    <3> QED
      BY <2>2, <3>2 DEF CloseWrite, LandInc, RecordMay
  <2>3. CASE RecordClose(t)
    BY <1>0, <2>3 DEF RecordClose, RecordMay, TradeRecord
  <2> QED
    BY <1>1, <2>1, <2>2, <2>3 DEF UserStep
<1>2. ASSUME NEW t \in Trade, Tick(t) \/ LoseTx(t)
      PROVE  UNCHANGED chain /\ \A u \in Trade : RecordMay(u)
  BY <1>2 DEF Tick, LoseTx, RecordMay
<1>3. CASE OpenResolves \/ JobStep \/ CallStep \/ LoadStep \/ Crash \/ CursorMoves \/ UNCHANGED vars
  BY <1>3 DEF OpenResolves, JobStep, CallStep, LoadStep, Crash, CursorMoves, vars,
              ExcuteOptions, CloseTradesAnyTime, LoseAnyTimeBatch, StartCall, SendCall,
              CallResolves, CallFails, LoadRead, LoadPush, RecordMay
<1>4. CASE RouterStep
  <2>1. CASE RouterScan \/ RouterFind \/ RouterPush \/ RouterThrows
    BY <2>1 DEF RouterScan, RouterFind, RouterPush, RouterThrows, RecordMay
  <2>2. CASE RouterWrite
    <3>1. \A t \in Trade : t \in Opens(scan) =>
             chain[t] # "sent" /\ db[t].state \in {"QUEUED", "OPENED"}
      BY <1>0, <2>2, RouterRecords DEF RouterWrite, TradeRecord
    <3>2. \A t \in Trade : \/ db'[t].state = db[t].state
                           \/ t \in Opens(scan) /\ db'[t].state = "OPENED"
      BY <1>0, <2>2 DEF RouterWrite, TradeRecord
    <3> QED
      BY <2>2, <3>1, <3>2 DEF RouterWrite, RecordMay
  <2> QED
    BY <1>4, <2>1, <2>2 DEF RouterStep
<1>5. ASSUME NEW t \in Trade, ChainStep(t)
      PROVE  /\ UNCHANGED db
             /\ \/ UNCHANGED chain
                \/ chain[t] = "sent" /\ chain' = [chain EXCEPT ![t] = "open"]
                \/ chain[t] = "open" /\ chain' = [chain EXCEPT ![t] = "closed"]
  <2>1. CASE MineOpen(t)
    BY <2>1 DEF MineOpen
  <2>2. CASE MineClose(t)
    <3>1. chain[t] \in {"open", "closed"}
      BY <1>0, <2>2 DEF MineClose, ChainInv, Unopened
    <3>2. chain[t] = "closed" => [chain EXCEPT ![t] = "closed"] = chain
      BY <1>0
    <3> QED
      BY <2>2, <3>1, <3>2 DEF MineClose
  <2> QED
    BY <1>5, <2>1, <2>2 DEF ChainStep
<1>6. CASE \E t \in Trade : ChainStep(t)
  BY <1>5, <1>6 DEF RecordMay
<1> QED
  BY <1>1, <1>2, <1>3, <1>4, <1>6 DEF Next

-----------------------------------------------------------------------------
(* ChainInv is inductive *)

\* No step tells an object of a trade the contract has not opened its option.
LEMMA OptionUnknown ==
    ASSUME TypeInv, ChainInv, [Next]_vars, NEW t \in Trade, chain[t] = "sent",
           NEW e \in Entry, e[1] = t
    PROVE  ~entry'[e].option
<1>0. /\ db[t].state = "QUEUED" /\ ~entry[e].option
      /\ \A i \in 1..Len(log) : log[i].trade # t
      /\ entry \in [Entry -> TradeObject]
      /\ log \in Seq(RouterEvent) /\ Len(log) \in Nat
  BY DEF ChainInv, Unopened, TypeInv, TypeOK
<1>o. entry[e] \in TradeObject
  BY <1>0
<1> USE DEF memVars, chainVars, routerVars, bounded
<1>2. ASSUME NEW es, Updated(es, Dropped) PROVE ~entry'[e].option
  BY <1>0, <1>2 DEF Updated, Dropped, NoObject
<1>3. ASSUME NEW ts, NEW p, AddFromDb(ts, p, TRUE), t \notin ts PROVE ~entry'[e].option
  BY <1>0, <1>3 DEF AddFromDb
<1>4. ASSUME NEW ts, NEW p, AddFromDb(ts, p, FALSE) PROVE ~entry'[e].option
  BY <1>0, <1>4 DEF AddFromDb
<1>5. ASSUME NEW from \in Nat \ {0}, NEW pc
      PROVE  /\ t \notin Opens([pc |-> pc, from |-> from, to |-> Len(log)])
             /\ t \notin Fails([pc |-> pc, from |-> from, to |-> Len(log)])
  BY <1>0 DEF Opens, Fails, Opening, Failing
<1>6. CASE UNCHANGED entry
  BY <1>0, <1>6
<1>7. ASSUME NEW u \in Trade, UserStep(u) PROVE ~entry'[e].option
  <2>1. CASE CloseMove(u)
    <3>1. \/ UNCHANGED entry
          \/ \E moved : Updated(moved, LAMBDA o : [o EXCEPT !.place = "anytime", !.closing = TRUE])
      BY <2>1 DEF CloseMove
    <3> QED
      BY ZenonT(60), <1>0, <1>o, <3>1 DEF Updated, TradeObject
  <2>2. CASE CloseRead(u) \/ CloseWrite(u)
    BY <1>6, <2>2 DEF CloseRead, CloseWrite
  <2> QED
    BY <1>7, <2>1, <2>2 DEF UserStep
<1>8. ASSUME NEW kind, NEW batch, StartCall(kind, batch) PROVE ~entry'[e].option
  <2>1. Updated(batch, LAMBDA o : [o EXCEPT !.place = "call", !.call_close = @ + 1])
    BY <1>8 DEF StartCall
  <2> QED
    BY <1>0, <1>o, <2>1 DEF Updated, TradeObject
<1>9. CASE JobStep
  BY <1>2, <1>8, <1>9 DEF JobStep, ExcuteOptions, CloseTradesAnyTime, LoseAnyTimeBatch
<1>10. CASE CallStep
  <2>1. CASE SendCall
    BY <1>6, <2>1 DEF SendCall
  <2>2. CASE CallResolves
    BY <1>2, <2>2 DEF CallResolves
  <2>3. CASE CallFails
    <3>1. PICK c \in calls : Updated(c.batch, LAMBDA o :
             IF MayRetry(o.call_close)
             THEN [o EXCEPT !.place = IF c.kind = "execute" THEN "active" ELSE "anytime",
                            !.call_close = @ + 1]
             ELSE NoObject)
      BY <2>3 DEF CallFails
    <3> QED
      BY <1>0, <1>o, <3>1 DEF Updated, TradeObject, NoObject
  <2> QED
    BY <1>10, <2>1, <2>2, <2>3 DEF CallStep
<1>11. CASE RouterStep
  <2>1. CASE RouterScan
    <3>1. PICK from \in ScanStarts : Told(Opens([pc |-> "write", from |-> from, to |-> Len(log)]))
      BY <2>1 DEF RouterScan
    <3>2. from \in Nat \ {0}
      BY DEF ScanStarts, TypeInv, TypeOK
    <3>3. PICK told \in SUBSET {f \in At("active") :
                  f[1] \in Opens([pc |-> "write", from |-> from, to |-> Len(log)])} :
             Updated(told, LAMBDA o : [o EXCEPT !.option = TRUE])
      BY <3>1 DEF Told
    <3>4. e \notin told
      BY <1>5, <3>2, <3>3
    <3> QED
      BY <1>0, <3>3, <3>4 DEF Updated
  <2>2. CASE RouterFind
    <3>1. t \notin Fails(scan)
      BY <1>0 DEF Fails, Failing, TypeInv, TypeOK
    <3> QED
      BY <1>3, <2>2, <3>1 DEF RouterFind
  <2>3. CASE RouterPush
    BY <1>0, <1>o, <2>3 DEF RouterPush, Updated, MovedTo, TradeObject
  <2>4. CASE RouterWrite \/ RouterThrows
    BY <1>6, <2>4 DEF RouterWrite, RouterThrows
  <2> QED
    BY <1>11, <2>1, <2>2, <2>3, <2>4 DEF RouterStep
<1>12. CASE LoadStep
  <2>1. CASE LoadRead("opening")
    BY <1>4, <2>1 DEF LoadRead
  <2>2. CASE LoadRead("active")
    <3>1. AddFromDb({u \in Trade : Loadable(db[u])}, "loading", TRUE)
      BY <2>2 DEF LoadRead
    <3>2. t \notin {u \in Trade : Loadable(db[u])}
      BY <1>0 DEF Loadable
    <3> QED
      BY <1>3, <3>1, <3>2
  <2>3. CASE LoadPush
    <3>1. Updated(At("loading"), LAMBDA o : MovedTo("active", o))
      BY <2>3 DEF LoadPush
    <3> QED
      BY <1>0, <1>o, <3>1 DEF Updated, MovedTo, TradeObject
  <2> QED
    BY <1>12, <2>1, <2>2, <2>3 DEF LoadStep
<1>13. CASE OpenResolves
  <2>1. PICK f \in At("opening") : Updated({f}, LAMBDA o : MovedTo("active", o))
    BY <1>13 DEF OpenResolves
  <2> QED
    BY <1>0, <1>o, <2>1 DEF Updated, MovedTo, TradeObject
<1>14. CASE Crash
  BY <1>14 DEF Crash, NoObject
<1>15. ASSUME NEW u \in Trade, ChainStep(u) \/ LoseTx(u) \/ RecordClose(u) \/ LandInc(u) \/ Tick(u)
       PROVE  ~entry'[e].option
  BY <1>6, <1>15 DEF ChainStep, MineOpen, MineClose, LoseTx, RecordClose, LandInc, Tick
<1>16. CASE CursorMoves \/ UNCHANGED vars
  BY <1>6, <1>16 DEF CursorMoves, vars
<1> QED
  BY <1>7, <1>9, <1>10, <1>11, <1>12, <1>13, <1>14, <1>15, <1>16 DEF Next

LEMMA UnopenedStep ==
    ASSUME TypeInv, ChainInv, [Next]_vars PROVE Unopened'
<1> SUFFICES ASSUME NEW t \in Trade, chain'[t] = "sent"
             PROVE  /\ db'[t].state = "QUEUED" /\ sent'[t] = 0
                    /\ \A e \in Entry : e[1] = t => ~entry'[e].option
                    /\ \A i \in 1..Len(log') : log'[i].trade # t
  BY DEF Unopened
<1>0. /\ chain \in [Trade -> {"sent", "open", "closed"}] /\ sent \in [Trade -> Nat]
      /\ log \in Seq(RouterEvent) /\ Len(log) \in Nat
  BY DEF TypeInv, TypeOK
<1>1. chain[t] = "sent"
  BY <1>0, StepEffect
<1>2. /\ db[t].state = "QUEUED" /\ sent[t] = 0
      /\ \A e \in Entry : e[1] = t => ~entry[e].option
      /\ \A i \in 1..Len(log) : log[i].trade # t
  BY <1>1 DEF ChainInv, Unopened
<1>3. db'[t].state = "QUEUED"
  BY <1>1, <1>2, StepEffect DEF RecordMay
<1>4. \A e \in Entry : e[1] = t => ~entry'[e].option
  BY <1>1, OptionUnknown
<1> USE DEF memVars, chainVars, routerVars, bounded
<1>5. CASE SendCall
  <2>1. PICK c \in calls :
           sent' = [u \in Trade |->
                 sent[u] + Cardinality({e \in c.batch : e[1] = u /\ entry[e].option})]
    BY <1>5 DEF SendCall
  <2>2. c.batch \subseteq Entry
    BY DEF TypeInv, TypeOK, Call
  <2>3. {e \in c.batch : e[1] = t /\ entry[e].option} = {}
    BY <1>2, <2>2
  <2>4. sent'[t] = 0
    BY <1>0, <1>2, <2>1, <2>3, FS_EmptySet
  <2> QED
    BY <1>2, <1>3, <1>4, <1>5, <2>4 DEF SendCall
<1>6. ASSUME NEW u \in Trade, ChainStep(u) \/ LoseTx(u)
      PROVE  /\ sent'[t] = 0
             /\ \A i \in 1..Len(log') : log'[i].trade # t
  <2>1. u # t
    <3>1. ~MineOpen(t)
      BY <1>0, <1>1 DEF MineOpen
    <3>2. ~MineClose(t) /\ ~LoseTx(t)
      BY <1>2 DEF MineClose, LoseTx
    <3> QED
      BY <1>6, <3>1, <3>2 DEF ChainStep
  <2>2. sent'[t] = sent[t]
    BY <1>0, <1>6, <2>1 DEF ChainStep, MineOpen, MineClose, LoseTx
  <2>3. \/ UNCHANGED log
        \/ \E ev \in {Opening(u), Failing(u)} : log' = Append(log, ev)
    BY <1>6 DEF ChainStep, MineOpen, MineClose, LoseTx
  <2>4. \A i \in 1..Len(log') : log'[i].trade # t
    <3>1. CASE UNCHANGED log
      BY <1>2, <3>1
    <3>2. ASSUME NEW ev \in {Opening(u), Failing(u)}, log' = Append(log, ev)
          PROVE  \A i \in 1..Len(log') : log'[i].trade # t
      <4>1. ev.trade = u
        BY <3>2 DEF Opening, Failing
      <4>2. /\ Len(log') = Len(log) + 1 /\ log'[Len(log) + 1] = ev
            /\ \A i \in 1..Len(log) : log'[i] = log[i]
        BY <1>0, <3>2
      <4> QED
        BY <1>0, <1>2, <2>1, <4>1, <4>2
    <3> QED
      BY <2>3, <3>1, <3>2
  <2> QED
    BY <1>2, <2>2, <2>4
<1>7. ASSUME UNCHANGED <<sent, log>>
      PROVE  sent'[t] = 0 /\ \A i \in 1..Len(log') : log'[i].trade # t
  BY <1>2, <1>7
<1>8. CASE \/ \E u \in Trade : UserStep(u) \/ RecordClose(u) \/ LandInc(u) \/ Tick(u)
           \/ OpenResolves \/ JobStep \/ CallResolves \/ CallFails \/ RouterStep
           \/ CursorMoves \/ LoadStep \/ Crash \/ UNCHANGED vars
  <2>1. UNCHANGED <<sent, log>>
    BY <1>8 DEF UserStep, CloseRead, CloseMove, CloseWrite, RecordClose, LandInc, Tick,
                OpenResolves, JobStep, ExcuteOptions, CloseTradesAnyTime, LoseAnyTimeBatch,
                StartCall, CallResolves, CallFails, RouterStep, RouterScan, RouterFind,
                RouterPush, RouterWrite, RouterThrows, CursorMoves, LoadStep, LoadRead,
                LoadPush, Crash, vars
  <2> QED
    BY <1>3, <1>4, <1>7, <2>1
<1> QED
  BY <1>3, <1>4, <1>5, <1>6, <1>8 DEF Next, CallStep

LEMMA ClosedSettledStep ==
    ASSUME TypeInv, TypeInv', ChainInv, [Next]_vars PROVE ClosedSettled'
<1> SUFFICES ASSUME NEW t \in Trade, db'[t].state = "CLOSED"
             PROVE  /\ chain'[t] = "closed"
                    /\ \A i \in 1..Len(log') : log'[i] = Opening(t) => i <= Base'
  BY DEF ClosedSettled
<1>0. /\ chain \in [Trade -> {"sent", "open", "closed"}] /\ db \in [Trade -> TradeRecord]
      /\ log \in Seq(RouterEvent) /\ Len(log) \in Nat
      /\ synced \in Nat /\ settled \in Nat /\ synced' \in Nat /\ settled' \in Nat
      /\ synced <= Len(log) /\ scan.to \in Nat /\ ScanAhead
  BY SMTT(30) DEF TypeInv, TypeOK
<1> USE DEF memVars, chainVars, routerVars, bounded
<1>1. Base <= Base'
  <2>1. CASE RouterWrite \/ RouterThrows
    BY <1>0, <2>1 DEF RouterWrite, RouterThrows, End, ScanAhead, Base
  <2>2. CASE CursorMoves
    BY <1>0, <2>2 DEF CursorMoves, Base
  <2>3. CASE ~(RouterWrite \/ RouterThrows \/ CursorMoves)
    <3>1. UNCHANGED <<synced, settled>>
      BY <2>3 DEF Next, UserStep, CloseRead, CloseMove, CloseWrite, RecordClose, LandInc, Tick,
                  OpenResolves, JobStep, ExcuteOptions, CloseTradesAnyTime, LoseAnyTimeBatch,
                  StartCall, CallStep, SendCall, CallResolves, CallFails, RouterStep, RouterScan,
                  RouterFind, RouterPush, LoadStep, LoadRead, LoadPush, Crash,
                  ChainStep, MineOpen, MineClose, LoseTx, vars
    <3> QED
      BY <1>0, <3>1 DEF Base
  <2> QED
    BY <2>1, <2>2, <2>3
<1>2. Base \in Nat /\ Base' \in Nat
  BY <1>0 DEF Base
<1>3. CASE db[t].state = "CLOSED"
  <2>1. chain[t] = "closed" /\ \A i \in 1..Len(log) : log[i] = Opening(t) => i <= Base
    BY <1>3 DEF ChainInv, ClosedSettled
  <2>2. chain'[t] = "closed"
    BY <1>0, <2>1, StepEffect
  <2>3. \/ UNCHANGED log
        \/ \E u \in Trade : MineOpen(u) \/ MineClose(u)
    BY DEF Next, UserStep, CloseRead, CloseMove, CloseWrite, RecordClose, LandInc, Tick,
           OpenResolves, JobStep, ExcuteOptions, CloseTradesAnyTime, LoseAnyTimeBatch,
           StartCall, CallStep, SendCall, CallResolves, CallFails, RouterStep, RouterScan,
           RouterFind, RouterPush, RouterWrite, RouterThrows, CursorMoves, LoadStep, LoadRead,
           LoadPush, Crash, ChainStep, LoseTx, vars
  <2>4. \/ UNCHANGED log
        \/ \E ev : log' = Append(log, ev) /\ ev # Opening(t)
    <3>1. ASSUME NEW u \in Trade, MineOpen(u)
          PROVE  log' = Append(log, Opening(u)) /\ Opening(u) # Opening(t)
      BY <2>1, <3>1 DEF MineOpen, Opening
    <3>2. ASSUME NEW u \in Trade, MineClose(u)
          PROVE  UNCHANGED log \/ (log' = Append(log, Failing(u)) /\ Failing(u) # Opening(t))
      BY <3>2 DEF MineClose, Opening, Failing
    <3> QED
      BY <2>3, <3>1, <3>2
  <2>5. \A i \in 1..Len(log') : log'[i] = Opening(t) => i <= Base
    BY <1>0, <2>1, <2>4
  <2>6. Len(log') \in Nat
    BY DEF TypeInv, TypeOK
  <2> QED
    BY <1>1, <1>2, <2>2, <2>5, <2>6
<1>4. CASE db[t].state # "CLOSED"
  <2>1. ~RouterStep
    BY <1>0, <1>4, StepEffect DEF RouterStep, RouterScan, RouterFind, RouterPush, RouterWrite, RouterThrows, TradeRecord
  <2>2. RecordClose(t)
    <3>1. ASSUME NEW u \in Trade, CloseWrite(u) \/ LandInc(u) PROVE db'[t].state = db[t].state
      BY <1>0, <3>1 DEF CloseWrite, LandInc, TradeRecord
    <3>2. ASSUME NEW u \in Trade, RecordClose(u), u # t PROVE db'[t].state = db[t].state
      BY <1>0, <3>2 DEF RecordClose
    <3>3. \/ UNCHANGED db
          \/ \E u \in Trade : CloseWrite(u) \/ LandInc(u) \/ RecordClose(u)
      BY <2>1 DEF Next, UserStep, CloseRead, CloseMove, Tick,
           OpenResolves, JobStep, ExcuteOptions, CloseTradesAnyTime, LoseAnyTimeBatch,
           StartCall, CallStep, SendCall, CallResolves, CallFails, CursorMoves, LoadStep,
           LoadRead, LoadPush, Crash, ChainStep, MineOpen, MineClose, LoseTx, vars
    <3> QED
      BY <1>4, <3>1, <3>2, <3>3
  <2> QED
    BY <1>0, <2>2 DEF RecordClose, Base
<1> QED
  BY <1>3, <1>4

LEMMA ChainInvHolds == Spec => []ChainInv
<1>1. TypeInv /\ TypeInv' /\ ChainInv /\ [Next]_vars => ChainInv'
  BY UnopenedStep, ClosedSettledStep DEF ChainInv
<1> QED
  BY <1>1, ChainInit, TypeInvHolds, PTL DEF Spec

-----------------------------------------------------------------------------
(* The refinement *)

LEMMA LedgerInit == Init => Ledger!Init
<1> SUFFICES ASSUME Init PROVE Ledger!Init
  OBVIOUS
<1>1. \A t \in Trade : db[t].state = "QUEUED" /\ chain[t] = "sent"
  BY DEF Init
<1>2. Recorded \in [Trade -> {"none", "queued"}] /\ Contract = [t \in Trade |-> "none"]
  BY <1>1 DEF Recorded, Contract
<1> QED
  BY <1>2 DEF Ledger!Init

\* What the ledger sees of a state.
LEMMA Seen ==
    ASSUME TypeInv, NEW t \in Trade
    PROVE  /\ Recorded[t] \in {"queued", "opened", "closed"}
           /\ db[t].state = "QUEUED" => Recorded[t] = "queued"
           /\ db[t].state = "OPENED" => Recorded[t] = "opened"
           /\ db[t].state = "CLOSED" => Recorded[t] = "closed"
           /\ chain[t] = "sent" => Contract[t] = "none"
           /\ chain[t] = "open" => Contract[t] = "open"
           /\ chain[t] = "closed" => Contract[t] = "closed"
<1>1. /\ db[t].state \in {"QUEUED", "OPENED", "CLOSED"}
      /\ chain[t] \in {"sent", "open", "closed"}
  BY DEF TypeInv, TypeOK, TradeRecord
<1> QED
  BY <1>1 DEF Recorded, Contract

LEMMA LedgerStep ==
    TypeInv /\ TypeInv' /\ ChainInv /\ [Next]_vars => [Ledger!Next]_Ledger!vars
<1> SUFFICES ASSUME TypeInv, TypeInv', ChainInv, [Next]_vars
             PROVE  [Ledger!Next]_Ledger!vars
  OBVIOUS
<1>0. /\ chain \in [Trade -> {"sent", "open", "closed"}]
      /\ \A t \in Trade : db[t].state \in {"QUEUED", "OPENED", "CLOSED"}
      /\ \A t \in Trade : db'[t].state \in {"QUEUED", "OPENED", "CLOSED"}
      /\ Contract = [t \in Trade |-> Contract[t]]
  BY DEF TypeInv, TypeOK, TradeRecord, Contract
<1>1. ASSUME NEW t \in Trade
      PROVE  /\ Recorded'[t] = [QUEUED |-> "queued", OPENED |-> "opened", CLOSED |-> "closed"][db'[t].state]
             /\ Contract'[t] = [sent |-> "none", open |-> "open", closed |-> "closed"][chain'[t]]
  BY DEF Recorded, Contract
<1>2. CASE UNCHANGED chain /\ \A t \in Trade : RecordMay(t)
  <2>1. UNCHANGED Contract
    BY <1>2 DEF Contract
  <2>2. Recorded' \in [Trade -> Ledger!Recorded]
    BY <1>0 DEF Recorded, Ledger!Recorded
  <2>3. ASSUME NEW t \in Trade PROVE Ledger!May(Recorded[t], Recorded'[t], Contract[t])
    <3>1. CASE db'[t].state = db[t].state
      BY <1>1, <3>1 DEF Recorded, Ledger!May
    <3>2. CASE db[t].state \in {"QUEUED", "OPENED"} /\ db'[t].state = "OPENED" /\ chain[t] # "sent"
      <4>1. Recorded[t] \in {"queued", "opened"} /\ Contract[t] # "none"
        BY <1>0, <3>2, Seen
      <4> QED
        BY <1>1, <3>2, <4>1 DEF Ledger!May
    <3>3. CASE db[t].state = "OPENED" /\ db'[t].state = "CLOSED" /\ chain[t] = "closed"
      BY <1>1, <3>3, Seen DEF Ledger!May
    <3> QED
      BY <1>2, <3>1, <3>2, <3>3 DEF RecordMay
  <2> QED
    BY <2>1, <2>2, <2>3 DEF Ledger!Next, Ledger!RecordTrades
<1>3. ASSUME UNCHANGED db, NEW t \in Trade,
             chain[t] = "sent", chain' = [chain EXCEPT ![t] = "open"]
      PROVE  Ledger!OpenOnChain(t)
  <2>1. UNCHANGED Recorded /\ Recorded[t] # "none" /\ Contract[t] = "none"
    BY <1>3, Seen DEF Recorded
  <2>2. Contract' = [Contract EXCEPT ![t] = "open"]
    BY <1>0, <1>3 DEF Contract
  <2> QED
    BY <2>1, <2>2 DEF Ledger!OpenOnChain
<1>4. ASSUME UNCHANGED db, NEW t \in Trade,
             chain[t] = "open", chain' = [chain EXCEPT ![t] = "closed"]
      PROVE  Ledger!CloseOnChain(t)
  <2>1. UNCHANGED Recorded /\ Contract[t] = "open"
    BY <1>4, Seen DEF Recorded
  <2>2. Contract' = [Contract EXCEPT ![t] = "closed"]
    BY <1>0, <1>4 DEF Contract
  <2> QED
    BY <2>1, <2>2 DEF Ledger!CloseOnChain
<1> QED
  BY <1>2, <1>3, <1>4, StepEffect DEF Ledger!Next

\* The closing pipeline implements TradeLedger: no event that is read again, no retry and
\* no restart records an opening after the closing, or a closing the chain has not seen,
\* however many objects, calls and failures there are.
THEOREM ImplementsLedgerHolds == Spec => ImplementsLedger
<1>1. Spec => [](TypeInv /\ ChainInv)
  BY TypeInvHolds, ChainInvHolds, PTL
<1> QED
  BY <1>1, LedgerInit, LedgerStep, PTL DEF Spec, ImplementsLedger, Ledger!Spec

-----------------------------------------------------------------------------
(* The option is known *)


\* As long as the opening of a trade is not recorded it has one object at most, which nobody
\* closes; the pass that records it tells that object its option.
OptionKnown ==
    \A t \in Trade :
       /\ db[t].state # "QUEUED" => \A e \in Objects(t) : entry[e].option
       /\ scan.pc # "idle" /\ t \in Opens(scan) => \A e \in Objects(t) : entry[e].option
OneObject ==
    \A t \in Trade : db[t].state = "QUEUED" =>
       /\ \A e, f \in Objects(t) : e = f
       /\ "opening" \in toLoad => Objects(t) = {}
NotClosedYet ==
    \A t \in Trade : db[t].state = "QUEUED" => req[t] = "idle" /\ ~db[t].closing /\ age[t] = 0
Knows(e) ==
    \/ entry[e].place = "none"
    \/ entry[e].option
    \/ entry[e].place \in {"opening", "active"} /\ ~entry[e].closing
WhereUnknown == \A e \in Entry : Knows(e)
LoadedFirst == scan.pc # "idle" => toLoad = {}

OptionInv == OptionKnown /\ OneObject /\ NotClosedYet /\ WhereUnknown /\ LoadedFirst

LEMMA OptionInit == Init => OptionInv
<1> SUFFICES ASSUME Init PROVE OptionInv
  OBVIOUS
<1>1. \A t \in Trade : /\ db[t].state = "QUEUED" /\ ~db[t].closing
                       /\ req[t] = "idle" /\ age[t] = 0
  BY DEF Init
<1>2. toLoad = {} /\ scan.pc = "idle"
  BY DEF Init, Idle
<1>3. \A e \in Entry : e = <<e[1], e[2]>>
  BY DEF Entry
<1>4. \A e \in Entry : /\ e[2] = 1 => entry[e].place = "opening" /\ ~entry[e].closing
                       /\ e[2] # 1 => entry[e].place = "none"
  BY DEF Init, NoObject, MovedTo
<1>5. \A t \in Trade : \A e, f \in Objects(t) : e = f
  BY <1>3, <1>4 DEF Objects
<1>6. WhereUnknown
  <2>1. \A e \in Entry : Knows(e)
    BY <1>4 DEF Knows
  <2> QED
    BY <2>1 DEF WhereUnknown
<1>7. OptionKnown /\ OneObject /\ NotClosedYet /\ LoadedFirst
  BY <1>1, <1>2, <1>5 DEF OptionKnown, OneObject, NotClosedYet, LoadedFirst
<1> QED
  BY <1>6, <1>7 DEF OptionInv

\* What becomes of an object in a step that creates none.
Keeps(e) ==
    \/ entry'[e].place = "none"
    \/ /\ entry[e].place # "none"
       /\ entry[e].option => entry'[e].option
       /\ Knows(e)'

\* A trade leaves QUEUED through a pass, and only another one is closed early or ages.
Proceeds(t) ==
    /\ db'[t].state = "QUEUED" => db[t].state = "QUEUED"
    /\ db'[t].state # "QUEUED" =>
          \/ db[t].state # "QUEUED"
          \/ scan.pc # "idle" /\ t \in Opens(scan)
    /\ db[t].state = "QUEUED" =>
          /\ req[t] = "idle" => req'[t] = "idle"
          /\ ~db[t].closing => ~db'[t].closing
          /\ age[t] = 0 => age'[t] = 0

\* The steps that create no object and begin no pass.
LEMMA OptionFrame ==
    ASSUME OptionInv,
           \A e \in Entry : Keeps(e),
           \A t \in Trade : Proceeds(t),
           toLoad' \subseteq toLoad,
           scan'.pc # "idle" => scan.pc # "idle" /\ Opens(scan)' \subseteq Opens(scan)
    PROVE  OptionInv'
<1>1. ASSUME NEW t \in Trade, NEW e \in Entry, e \in Objects(t)'
      PROVE  e \in Objects(t) /\ (entry[e].option => entry'[e].option)
  BY <1>1 DEF Keeps, Objects
<1>2. \A t \in Trade : Objects(t)' \subseteq Objects(t)
  BY <1>1 DEF Objects
<1>3. \A t \in Trade, e \in Entry :
         e \in Objects(t)' => e \in Objects(t) /\ (entry[e].option => entry'[e].option)
  BY <1>1
<1>4. OptionKnown'
  <2>1. ASSUME NEW t \in Trade, db'[t].state # "QUEUED" PROVE \A e \in Objects(t) : entry[e].option
    BY <2>1 DEF OptionInv, OptionKnown, Proceeds
  <2>2. ASSUME NEW t \in Trade, scan'.pc # "idle", t \in Opens(scan)'
        PROVE  \A e \in Objects(t) : entry[e].option
    BY <2>2 DEF OptionInv, OptionKnown
  <2>3. \A t \in Trade : Objects(t)' \subseteq Entry
    BY DEF Objects
  <2> QED
    BY <1>3, <2>1, <2>2, <2>3 DEF OptionKnown
<1>5. OneObject'
  BY <1>2 DEF OptionInv, OneObject, Proceeds
<1>6. NotClosedYet'
  BY DEF OptionInv, NotClosedYet, Proceeds
<1>7. WhereUnknown'
  <2>1. \A e \in Entry : Knows(e)'
    BY DEF Keeps, Knows
  <2> QED
    BY <2>1 DEF WhereUnknown
<1>8. LoadedFirst'
  BY DEF OptionInv, LoadedFirst
<1> QED
  BY <1>4, <1>5, <1>6, <1>7, <1>8 DEF OptionInv

LEMMA KeepsSame == \A e \in Entry : WhereUnknown /\ entry'[e] = entry[e] => Keeps(e)
  BY DEF Keeps, Knows, WhereUnknown

\* Among those, the steps that leave the collection and the pass alone.
LEMMA OptionMemory ==
    ASSUME OptionInv, UNCHANGED <<db, age, log, scan, toLoad>>,
           \A e \in Entry : Keeps(e),
           \A t \in Trade : req'[t] # "idle" => req[t] # "idle" \/ db[t].state # "QUEUED"
    PROVE  OptionInv'
<1>1. scan'.pc # "idle" => scan.pc # "idle" /\ Opens(scan)' \subseteq Opens(scan)
  BY DEF Opens
<1>2. ASSUME NEW t \in Trade PROVE Proceeds(t)
  <2>1. db'[t] = db[t] /\ age'[t] = age[t]
    OBVIOUS
  <2>2. req'[t] # "idle" => req[t] # "idle" \/ db[t].state # "QUEUED"
    OBVIOUS
  <2> QED
    BY <2>1, <2>2 DEF Proceeds
<1>3. toLoad' \subseteq toLoad
  OBVIOUS
<1> QED
  BY <1>1, <1>2, <1>3, OptionFrame

-----------------------------------------------------------------------------
(* The steps *)

LEMMA OptionRequests ==
    ASSUME TypeInv, OptionInv, NEW t \in Trade, UserStep(t) PROVE OptionInv'
<1>0. /\ req \in [Trade -> {"idle", "read", "write"}]
      /\ db \in [Trade -> TradeRecord]
      /\ \A e \in Entry : entry[e] \in TradeObject
  BY DEF TypeInv, TypeOK
<1>1. CASE CloseRead(t)
  <2>1. \A u \in Trade : req'[u] # "idle" => req[u] # "idle" \/ db[u].state # "QUEUED"
    BY <1>0, <1>1 DEF CloseRead
  <2>2. \A e \in Entry : Keeps(e)
    BY <1>1, KeepsSame DEF CloseRead, OptionInv
  <2> QED
    BY <1>1, <2>1, <2>2, OptionMemory DEF CloseRead, chainVars, routerVars
<1>2. CASE CloseMove(t)
  <2>1. \A u \in Trade : req'[u] # "idle" => req[u] # "idle"
    BY <1>0, <1>2 DEF CloseMove
  <2>2. PICK moved \in SUBSET {e \in At("active") : e[1] = t} :
           \A e \in Entry : entry'[e] = IF e \in moved
              THEN [entry[e] EXCEPT !.place = "anytime", !.closing = TRUE] ELSE entry[e]
    <3>1. CASE UNCHANGED entry
      <4>1. WITNESS {} \in SUBSET {e \in At("active") : e[1] = t}
      <4> QED
        BY <3>1
    <3>2. CASE \E moved \in SUBSET {e \in At("active") : e[1] = t} :
                  Updated(moved, LAMBDA o : [o EXCEPT !.place = "anytime", !.closing = TRUE])
      BY <3>2 DEF Updated
    <3> QED
      BY <1>2, <3>1, <3>2 DEF CloseMove
  <2>3. \A e \in moved : e \in Entry /\ entry[e].place = "active" /\ entry[e].option
    <3>1. \A e \in moved : e \in Entry /\ entry[e].place = "active" /\ e \in Objects(t)
      BY DEF At, Objects
    <3>2. db[t].state # "QUEUED"
      BY <1>2 DEF CloseMove, OptionInv, NotClosedYet
    <3> QED
      BY <3>1, <3>2 DEF OptionInv, OptionKnown
  <2>4. ASSUME NEW e \in Entry PROVE Keeps(e)
    <3>1. CASE e \in moved
      <4>1. entry'[e] = [entry[e] EXCEPT !.place = "anytime", !.closing = TRUE]
        BY <2>2, <3>1
      <4>2. entry'[e].option = entry[e].option
        BY <1>0, <4>1 DEF TradeObject
      <4> QED
        BY <2>3, <3>1, <4>2 DEF Keeps, Knows
    <3>2. CASE e \notin moved
      BY <2>2, <3>2, KeepsSame DEF OptionInv
    <3> QED
      BY <3>1, <3>2
  <2> QED
    BY <1>2, <2>1, <2>4, OptionMemory DEF CloseMove, chainVars, routerVars
<1>3. CASE CloseWrite(t)
  <2>1. req[t] = "write" /\ req' = [req EXCEPT ![t] = "idle"]
        /\ UNCHANGED <<age, entry, toLoad, log, scan>>
    BY <1>3 DEF CloseWrite, chainVars, routerVars
  <2>2. \A u \in Trade : /\ req'[u] # "idle" => req[u] # "idle"
                         /\ db'[u].state = db[u].state
                         /\ db'[u].closing => u = t \/ db[u].closing
    BY <1>0, <1>3 DEF CloseWrite, TradeRecord
  <2>3. \A e \in Entry : Keeps(e)
    BY <2>1, KeepsSame DEF OptionInv
  <2>4. scan'.pc # "idle" => scan.pc # "idle" /\ Opens(scan)' \subseteq Opens(scan)
    BY <2>1 DEF Opens
  <2>5. ASSUME NEW u \in Trade
        PROVE  Proceeds(u)
    <3>1. db[t].state # "QUEUED"
      BY <2>1 DEF OptionInv, NotClosedYet
    <3>2. age'[u] = age[u] /\ db'[u].state = db[u].state /\ (db'[u].closing => u = t \/ db[u].closing)
      BY <2>1, <2>2
    <3>3. req'[u] # "idle" => req[u] # "idle"
      BY <2>2
    <3>4. CASE u = t
      BY <3>1, <3>2, <3>4 DEF Proceeds
    <3>5. CASE u # t
      BY <3>2, <3>3, <3>5 DEF Proceeds
    <3> QED
      BY <3>4, <3>5
  <2>6. toLoad' \subseteq toLoad
    BY <2>1
  <2> QED
    BY <2>3, <2>4, <2>5, <2>6, OptionFrame
<1> QED
  BY <1>1, <1>2, <1>3 DEF UserStep

LEMMA OptionJobs ==
    ASSUME TypeInv, OptionInv, JobStep PROVE OptionInv'
<1>0. /\ age \in [Trade -> 0..2]
      /\ \A e \in Entry : entry[e] \in TradeObject /\ e[1] \in Trade
  BY DEF TypeInv, TypeOK, Entry
<1> USE DEF chainVars, routerVars
<1>1. CASE ExcuteOptions \/ CloseTradesAnyTime
  <2>1. PICK kind \in {"execute", "close"}, batch \in SUBSET Entry :
           /\ StartCall(kind, batch)
           /\ \A e \in batch : \/ entry[e].place = "active" /\ age[e[1]] = 2
                               \/ entry[e].place = "anytime"
    <3>1. CASE ExcuteOptions
      <4>1. PICK b \in SUBSET {e \in At("active") : age[e[1]] = 2} : StartCall("execute", b)
        BY <3>1 DEF ExcuteOptions, Batches
      <4> QED
        BY <4>1 DEF At
    <3>2. CASE CloseTradesAnyTime
      <4>1. PICK b \in SUBSET At("anytime") : StartCall("close", b)
        BY <3>2 DEF CloseTradesAnyTime, Batches
      <4> QED
        BY <4>1 DEF At
    <3> QED
      BY <1>1, <3>1, <3>2
  <2>2. ASSUME NEW e \in batch PROVE entry[e].option
    <3>1. CASE entry[e].place = "active" /\ age[e[1]] = 2
      <4>1. e \in Entry /\ e[1] \in Trade /\ e \in Objects(e[1])
        BY <1>0, <3>1 DEF Objects
      <4>2. db[e[1]].state # "QUEUED"
        BY <3>1, <4>1 DEF OptionInv, NotClosedYet
      <4> QED
        BY <4>1, <4>2 DEF OptionInv, OptionKnown
    <3>2. CASE entry[e].place = "anytime"
      <4>1. Knows(e)
        BY DEF OptionInv, WhereUnknown
      <4> QED
        BY <3>2, <4>1 DEF Knows
    <3> QED
      BY <2>1, <3>1, <3>2
  <2>3. ASSUME NEW e \in Entry PROVE Keeps(e)
    <3>1. Updated(batch, LAMBDA o : [o EXCEPT !.place = "call", !.call_close = @ + 1])
      BY <2>1 DEF StartCall
    <3>2. CASE e \in batch
      <4>1. entry'[e] = [entry[e] EXCEPT !.place = "call", !.call_close = @ + 1]
        BY <3>1, <3>2 DEF Updated
      <4>2. entry'[e].option = entry[e].option
        BY <1>0, <4>1 DEF TradeObject
      <4> QED
        BY <2>1, <2>2, <3>2, <4>2 DEF Keeps, Knows
    <3>3. CASE e \notin batch
      <4>1. entry'[e] = entry[e]
        BY <3>1, <3>3 DEF Updated
      <4> QED
        BY <4>1, KeepsSame DEF OptionInv
    <3> QED
      BY <3>2, <3>3
  <2> QED
    BY <2>1, <2>3, OptionMemory DEF StartCall
<1>2. CASE LoseAnyTimeBatch
  <2>1. \A e \in Entry : entry'[e] = entry[e] \/ entry'[e] = NoObject
    BY <1>2 DEF LoseAnyTimeBatch, Updated, Dropped
  <2>2. \A e \in Entry : Keeps(e)
    BY <2>1, KeepsSame DEF OptionInv, Keeps, NoObject
  <2> QED
    BY <1>2, <2>2, OptionMemory DEF LoseAnyTimeBatch
<1> QED
  BY <1>1, <1>2 DEF JobStep

LEMMA OptionCalls ==
    ASSUME TypeInv, OneCall, OptionInv, CallStep PROVE OptionInv'
<1>0. /\ \A e \in Entry : entry[e] \in TradeObject
      /\ \A c \in calls : c.batch \subseteq Entry
  BY DEF TypeInv, TypeOK, Call
<1> USE DEF chainVars, routerVars
<1>1. CASE SendCall
  BY <1>1, KeepsSame, OptionMemory DEF SendCall, OptionInv
<1>2. CASE CallResolves
  <2>1. \A e \in Entry : entry'[e] = entry[e] \/ entry'[e] = NoObject
    BY <1>2 DEF CallResolves, Updated, Dropped
  <2>2. \A e \in Entry : Keeps(e)
    BY <2>1, KeepsSame DEF OptionInv, Keeps, NoObject
  <2> QED
    BY <1>2, <2>2, OptionMemory DEF CallResolves
<1>3. CASE CallFails
  <2>1. PICK c \in calls :
           Updated(c.batch, LAMBDA o :
             IF MayRetry(o.call_close)
             THEN [o EXCEPT !.place = IF c.kind = "execute" THEN "active" ELSE "anytime",
                            !.call_close = @ + 1]
             ELSE NoObject)
    BY <1>3 DEF CallFails
  <2>2. ASSUME NEW e \in c.batch PROVE e \in Entry /\ entry[e].place = "call" /\ entry[e].option
    <3>1. e \in Entry /\ entry[e].place = "call"
      BY <1>0 DEF OneCall
    <3>2. Knows(e)
      BY <3>1 DEF OptionInv, WhereUnknown
    <3> QED
      BY <3>1, <3>2 DEF Knows
  <2>3. ASSUME NEW e \in Entry PROVE Keeps(e)
    <3>1. CASE entry'[e] = entry[e]
      BY <3>1, KeepsSame DEF OptionInv
    <3>2. CASE entry'[e] = NoObject
      BY <3>2 DEF Keeps, NoObject
    <3>3. CASE /\ e \in c.batch
               /\ \E p : entry'[e] = [entry[e] EXCEPT !.place = p, !.call_close = @ + 1]
      <4>1. entry'[e].option = entry[e].option
        BY <1>0, <3>3 DEF TradeObject
      <4> QED
        BY <2>2, <3>3, <4>1 DEF Keeps, Knows
    <3> QED
      BY <2>1, <3>1, <3>2, <3>3 DEF Updated
  <2> QED
    BY <1>3, <2>3, OptionMemory DEF CallFails
<1> QED
  BY <1>1, <1>2, <1>3 DEF CallStep

LEMMA OptionChain ==
    ASSUME Punctual, TypeInv, OptionInv, NEW t \in Trade,
           ChainStep(t) \/ LoseTx(t) \/ RecordClose(t) \/ LandInc(t) \/ Tick(t)
    PROVE  OptionInv'
<1>0. /\ db \in [Trade -> TradeRecord] /\ age \in [Trade -> 0..2]
      /\ log \in Seq(RouterEvent) /\ Len(log) \in Nat
      /\ scan.from \in Nat \ {0} /\ scan.to \in 0..Len(log)
  BY DEF TypeInv, TypeOK
<1> USE DEF memVars, routerVars
<1>1. UNCHANGED <<entry, req, toLoad, scan>>
  BY DEF ChainStep, MineOpen, MineClose, LoseTx, RecordClose, LandInc, Tick
<1>2. \A e \in Entry : Keeps(e)
  BY <1>1, KeepsSame DEF OptionInv
<1>3. scan'.pc # "idle" => scan.pc # "idle" /\ Opens(scan)' \subseteq Opens(scan)
  <2>1. CASE UNCHANGED log
    BY <1>1, <2>1 DEF Opens
  <2>2. CASE \E event : log' = Append(log, event)
    <3>1. \A i \in 1..Len(log) : log'[i] = log[i]
      BY <1>0, <2>2
    <3>2. \A i \in scan.from..scan.to : i \in 1..Len(log)
      BY <1>0
    <3> QED
      BY <1>1, <3>1, <3>2 DEF Opens
  <2> QED
    BY <2>1, <2>2 DEF ChainStep, MineOpen, MineClose, LoseTx, RecordClose, LandInc, Tick, chainVars
<1>4. ASSUME NEW u \in Trade PROVE Proceeds(u)
  <2>1. CASE UNCHANGED <<db, age>>
    BY <1>1, <2>1 DEF Proceeds
  <2>2. CASE RecordClose(t)
    BY <1>0, <1>1, <2>2 DEF RecordClose, Proceeds, TradeRecord
  <2>3. CASE LandInc(t)
    <3>1. db'[u].state = db[u].state /\ db'[u].closing = db[u].closing
      BY <1>0, <2>3 DEF LandInc, TradeRecord
    <3>2. age' = age
      BY <2>3 DEF LandInc
    <3> QED
      BY <1>1, <3>1, <3>2 DEF Proceeds
  <2>4. CASE Tick(t)
    <3>1. db' = db /\ db[t].state # "QUEUED" /\ (u # t => age'[u] = age[u])
      BY <1>0, <2>4 DEF Tick
    <3> QED
      BY <1>1, <3>1 DEF Proceeds
  <2> QED
    BY <2>1, <2>2, <2>3, <2>4 DEF ChainStep, MineOpen, MineClose, LoseTx
<1> QED
  BY <1>1, <1>2, <1>3, <1>4, OptionFrame

\* The least free copy of a trade is one only.
LEMMA LeastCopy ==
    ASSUME NEW t \in Trade, NEW e \in Entry, NEW f \in Entry, e[1] = t, f[1] = t,
           entry[e].place = "none", entry[f].place = "none",
           \A k \in 1..e[2] - 1 : entry[<<e[1], k>>].place # "none",
           \A k \in 1..f[2] - 1 : entry[<<f[1], k>>].place # "none"
    PROVE  e = f
<1>1. e = <<t, e[2]>> /\ f = <<t, f[2]>> /\ e[2] \in 1..MaxCopies /\ f[2] \in 1..MaxCopies
  BY DEF Entry
<1>2. MaxCopies \in Nat
  BY CloseTradeAssumption
<1>3. ~(e[2] < f[2])
  <2> SUFFICES ASSUME e[2] < f[2] PROVE FALSE
    OBVIOUS
  <2>1. e[2] \in 1..f[2] - 1
    BY <1>1, <1>2
  <2> QED
    BY <1>1, <2>1
<1>4. ~(f[2] < e[2])
  <2> SUFFICES ASSUME f[2] < e[2] PROVE FALSE
    OBVIOUS
  <2>1. f[2] \in 1..e[2] - 1
    BY <1>1, <1>2
  <2> QED
    BY <1>1, <2>1
<1>5. e[2] = f[2]
  BY <1>1, <1>2, <1>3, <1>4
<1> QED
  BY <1>1, <1>5

\* Trades taken from the collection whose opening is recorded: their objects have the option.
LEMMA OptionAddOpened ==
    ASSUME TypeInv, OptionInv, NEW ts \in SUBSET Trade, NEW p, AddFromDb(ts, p, TRUE),
           \A t \in ts : db[t].state # "QUEUED",
           UNCHANGED <<db, age, req, log>>, toLoad' \subseteq toLoad,
           scan'.pc # "idle" => scan.pc # "idle" /\ Opens(scan)' \subseteq Opens(scan)
    PROVE  OptionInv'
<1>1. ASSUME NEW e \in Entry
      PROVE  \/ entry'[e] = entry[e]
             \/ entry'[e].option /\ e[1] \in ts
  BY DEF AddFromDb
<1>2. ASSUME NEW t \in Trade, db[t].state = "QUEUED" PROVE Objects(t)' = Objects(t)
  <2>1. \A e \in Entry : e[1] = t => entry'[e] = entry[e]
    BY <1>2 DEF AddFromDb
  <2> QED
    BY <2>1 DEF Objects
<1>3. ASSUME NEW t \in Trade, NEW e \in Objects(t)', \A f \in Objects(t) : entry[f].option
      PROVE  entry'[e].option
  <2>1. e \in Entry /\ e[1] = t /\ entry'[e].place # "none"
    BY DEF Objects
  <2>2. CASE entry'[e] = entry[e]
    BY <1>3, <2>1, <2>2 DEF Objects
  <2> QED
    BY <1>1, <2>1, <2>2
<1>4. OptionKnown'
  <2>1. ASSUME NEW t \in Trade, db'[t].state # "QUEUED" PROVE \A e \in Objects(t)' : entry'[e].option
    <3>1. \A f \in Objects(t) : entry[f].option
      BY <2>1 DEF OptionInv, OptionKnown
    <3> QED
      BY <1>3, <3>1
  <2>2. ASSUME NEW t \in Trade, scan'.pc # "idle" /\ t \in Opens(scan)'
        PROVE  \A e \in Objects(t)' : entry'[e].option
    <3>1. \A f \in Objects(t) : entry[f].option
      BY <2>2 DEF OptionInv, OptionKnown
    <3> QED
      BY <1>3, <3>1
  <2> QED
    BY <2>1, <2>2 DEF OptionKnown
<1>5. OneObject'
  BY <1>2 DEF OptionInv, OneObject
<1>6. NotClosedYet'
  BY DEF OptionInv, NotClosedYet
<1>7. WhereUnknown'
  <2>1. ASSUME NEW e \in Entry PROVE Knows(e)'
    <3>1. Knows(e)
      BY DEF OptionInv, WhereUnknown
    <3> QED
      BY <1>1, <3>1 DEF Knows
  <2> QED
    BY <2>1 DEF WhereUnknown
<1>8. LoadedFirst'
  BY DEF OptionInv, LoadedFirst
<1> QED
  BY <1>4, <1>5, <1>6, <1>7, <1>8 DEF OptionInv

\* loadTradesMarket takes the QUEUED trades back.
LEMMA OptionReload ==
    ASSUME TypeInv, OptionInv, LoadRead("opening") PROVE OptionInv'
<1> DEFINE ts == {t \in Trade : db[t].state = "QUEUED"}
<1>1. /\ AddFromDb(ts, "opening", FALSE) /\ "opening" \in toLoad /\ toLoad' = toLoad \ {"opening"}
      /\ UNCHANGED <<db, age, req, log, scan>>
  BY DEF LoadRead, chainVars, routerVars
<1>2. \A t \in ts : Objects(t) = {} /\ ~db[t].closing
  BY <1>1 DEF OptionInv, OneObject, NotClosedYet
<1>3. ASSUME NEW e \in Entry
      PROVE  \/ entry'[e] = entry[e]
             \/ /\ e[1] \in ts /\ entry'[e].place = "opening" /\ ~entry'[e].closing
                /\ entry[e].place = "none"
                /\ \A k \in 1..e[2] - 1 : entry[<<e[1], k>>].place # "none"
  BY <1>1, <1>2 DEF AddFromDb
<1>4. ASSUME NEW t \in Trade, t \notin ts
      PROVE  Objects(t)' = Objects(t) /\ \A e \in Objects(t) : entry'[e] = entry[e]
  <2>1. \A e \in Entry : e[1] = t => entry'[e] = entry[e]
    BY <1>3, <1>4
  <2> QED
    BY <2>1 DEF Objects
<1>5. scan.pc = "idle"
  BY <1>1 DEF OptionInv, LoadedFirst
<1>6. OptionKnown'
  BY <1>1, <1>4, <1>5 DEF OptionInv, OptionKnown
<1>7. OneObject'
  <2>1. ASSUME NEW t \in ts, NEW e \in Objects(t)', NEW f \in Objects(t)' PROVE e = f
    <3>1. /\ e \in Entry /\ e[1] = t /\ entry'[e].place # "none"
          /\ f \in Entry /\ f[1] = t /\ entry'[f].place # "none"
      BY DEF Objects
    <3>2. entry[e].place = "none" /\ entry[f].place = "none"
      BY <1>2, <3>1 DEF Objects
    <3>3. entry'[e] # entry[e] /\ entry'[f] # entry[f]
      BY <3>1, <3>2
    <3> QED
      BY <1>3, <3>1, <3>2, <3>3, LeastCopy
  <2> QED
    BY <1>1, <2>1 DEF OneObject
<1>8. NotClosedYet'
  BY <1>1 DEF OptionInv, NotClosedYet
<1>9. WhereUnknown'
  <2>1. ASSUME NEW e \in Entry PROVE Knows(e)'
    <3>1. Knows(e)
      BY DEF OptionInv, WhereUnknown
    <3> QED
      BY <1>3, <3>1 DEF Knows
  <2> QED
    BY <2>1 DEF WhereUnknown
<1>10. LoadedFirst'
  BY <1>1, <1>5 DEF LoadedFirst
<1> QED
  BY <1>6, <1>7, <1>8, <1>9, <1>10 DEF OptionInv

\* A pass finds the one object of each trade it records in listActives, and tells it.
LEMMA OptionScan ==
    ASSUME Punctual, TypeInv, OptionInv, RouterScan PROVE OptionInv'
<1>0. \A e \in Entry : entry[e] \in TradeObject
  BY DEF TypeInv, TypeOK
<1>1. PICK from \in ScanStarts :
         LET pass == [pc |-> "write", from |-> from, to |-> Len(log)]
         IN  /\ \A e \in At("opening") : e[1] \notin Opens(pass)
             /\ Told(Opens(pass))
             /\ scan' = IF Fails(pass) = {} THEN pass ELSE [pass EXCEPT !.pc = "find"]
  BY DEF RouterScan
<1> DEFINE pass == [pc |-> "write", from |-> from, to |-> Len(log)]
<1>2. UNCHANGED <<db, age, req, toLoad, log>> /\ toLoad = {}
  BY DEF RouterScan, chainVars
<1>3. Opens(scan)' = Opens(pass) /\ Opens(pass) \subseteq Trade
  <2>1. scan'.from = pass.from /\ scan'.to = pass.to
    BY <1>1
  <2> QED
    BY <1>2, <2>1 DEF Opens
<1>4. PICK told \in SUBSET {e \in At("active") : e[1] \in Opens(pass)} :
         /\ \A t \in Opens(pass) :
               LET listed == {e \in At("active") : e[1] = t}
               IN  listed # {} => Cardinality(listed \cap told) = 1
         /\ Updated(told, LAMBDA o : [o EXCEPT !.option = TRUE])
  BY <1>1 DEF Told
<1>5. ASSUME NEW e \in Entry
      PROVE  /\ entry'[e].place = entry[e].place /\ entry'[e].closing = entry[e].closing
             /\ entry[e].option => entry'[e].option
             /\ e \in told => entry'[e].option
  BY <1>0, <1>4 DEF Updated, TradeObject
<1>6. \A t \in Trade : Objects(t)' = Objects(t)
  BY <1>5 DEF Objects
<1>7. ASSUME NEW t \in Opens(pass), NEW e \in Objects(t) PROVE entry'[e].option
  <2>1. e \in Entry /\ e[1] = t /\ t \in Trade /\ entry[e].place # "none"
    BY <1>3 DEF Objects
  <2>2. CASE entry[e].option
    BY <1>5, <2>1, <2>2
  <2>3. CASE ~entry[e].option
    <3>1. db[t].state = "QUEUED"
      BY <1>3, <2>3 DEF OptionInv, OptionKnown
    <3>2. Objects(t) = {e}
      BY <2>1, <3>1 DEF OptionInv, OneObject
    <3>3. entry[e].place = "active"
      <4>1. Knows(e)
        BY <2>1 DEF OptionInv, WhereUnknown
      <4>2. entry[e].place # "opening"
        BY <1>1, <2>1 DEF At
      <4> QED
        BY <2>1, <2>3, <4>1, <4>2 DEF Knows
    <3>4. {f \in At("active") : f[1] = t} = {e}
      BY <2>1, <3>2, <3>3 DEF At, Objects
    <3>5. Cardinality({e} \cap told) = 1
      BY <1>4, <3>4
    <3>6. e \in told
      <4> SUFFICES ASSUME e \notin told PROVE FALSE
        OBVIOUS
      <4>1. {e} \cap told = {}
        OBVIOUS
      <4> QED
        BY SMTT(30), <3>5, <4>1, FS_EmptySet
    <3> QED
      BY <1>5, <2>1, <3>6
  <2> QED
    BY <2>2, <2>3
<1>8. OptionKnown'
  <2>1. ASSUME NEW t \in Trade, db'[t].state # "QUEUED" PROVE \A e \in Objects(t)' : entry'[e].option
    <3>1. \A e \in Objects(t) : e \in Entry /\ entry[e].option
      BY <1>2, <2>1 DEF OptionInv, OptionKnown, Objects
    <3> QED
      BY <1>5, <1>6, <3>1
  <2>2. ASSUME NEW t \in Trade, t \in Opens(scan)' PROVE \A e \in Objects(t)' : entry'[e].option
    BY <1>3, <1>6, <1>7, <2>2
  <2> QED
    BY <2>1, <2>2 DEF OptionKnown
<1>9. OneObject'
  BY <1>2, <1>6 DEF OptionInv, OneObject
<1>10. NotClosedYet'
  BY <1>2 DEF OptionInv, NotClosedYet
<1>11. WhereUnknown'
  <2>1. ASSUME NEW e \in Entry PROVE Knows(e)'
    <3>1. Knows(e)
      BY DEF OptionInv, WhereUnknown
    <3> QED
      BY <1>5, <3>1 DEF Knows
  <2> QED
    BY <2>1 DEF WhereUnknown
<1>12. LoadedFirst'
  BY <1>2 DEF LoadedFirst
<1> QED
  BY <1>8, <1>9, <1>10, <1>11, <1>12 DEF OptionInv

\* The router job.
LEMMA OptionRouter ==
    ASSUME Punctual, TypeInv, OptionInv, RouterStep \/ CursorMoves PROVE OptionInv'
<1>0. /\ db \in [Trade -> TradeRecord]
      /\ scan \in [pc: {"idle", "find", "push", "write"}, from: Nat \ {0}, to: 0..Len(log)]
      /\ \A e \in Entry : entry[e] \in TradeObject
  BY DEF TypeInv, TypeOK
<1>i. Idle.pc = "idle"
  BY DEF Idle
<1> USE DEF memVars, chainVars
<1>1. CASE RouterScan
  BY <1>1, OptionScan
<1>2. CASE RouterFind
  <2>1. AddFromDb({t \in Fails(scan) : BringBack(db[t])}, "found", TRUE)
        /\ scan' = [scan EXCEPT !.pc = "push"] /\ scan.pc = "find"
        /\ UNCHANGED <<db, age, req, toLoad, log>>
    BY <1>2 DEF RouterFind
  <2>2. Opens(scan)' = Opens(scan)
    BY <1>0, <2>1 DEF Opens
  <2>3. {t \in Fails(scan) : BringBack(db[t])} \in SUBSET Trade
        /\ \A t \in {t \in Fails(scan) : BringBack(db[t])} : db[t].state # "QUEUED"
    BY DEF Fails, BringBack
  <2> QED
    BY <2>1, <2>2, <2>3, OptionAddOpened
<1>3. CASE RouterPush
  <2>1. Updated(At("found"), LAMBDA o : MovedTo(IF o.closing THEN "anytime" ELSE "active", o))
        /\ scan' = [scan EXCEPT !.pc = "write"] /\ scan.pc = "push"
        /\ UNCHANGED <<db, age, req, toLoad, log>>
    BY <1>3 DEF RouterPush
  <2>2. Opens(scan)' = Opens(scan)
    BY <1>0, <2>1 DEF Opens
  <2>3. ASSUME NEW e \in Entry PROVE Keeps(e)
    <3>1. CASE entry[e].place = "found"
      <4>1. entry[e].option
        <5>1. Knows(e)
          BY DEF OptionInv, WhereUnknown
        <5> QED
          BY <3>1, <5>1 DEF Knows
      <4>2. entry'[e].option = entry[e].option
        BY <1>0, <2>1, <3>1 DEF Updated, At, MovedTo, TradeObject
      <4> QED
        BY <3>1, <4>1, <4>2 DEF Keeps, Knows
    <3>2. CASE entry[e].place # "found"
      <4>1. entry'[e] = entry[e]
        BY <2>1, <3>2 DEF Updated, At
      <4> QED
        BY <4>1, KeepsSame DEF OptionInv
    <3> QED
      BY <3>1, <3>2
  <2>4. \A t \in Trade : Proceeds(t)
    BY <2>1 DEF Proceeds
  <2> QED
    BY <2>1, <2>2, <2>3, <2>4, OptionFrame
<1>4. CASE RouterWrite
  <2>1. scan.pc = "write" /\ scan' = Idle /\ UNCHANGED <<age, entry, req, toLoad>>
    BY <1>4 DEF RouterWrite
  <2>2. ASSUME NEW t \in Trade PROVE Proceeds(t)
    <3>1. \/ db'[t] = db[t]
          \/ t \in Opens(scan) /\ db'[t] = [db[t] EXCEPT !.state = "OPENED"]
      BY <1>4 DEF RouterWrite
    <3>2. CASE db'[t] = db[t]
      BY <2>1, <3>2 DEF Proceeds
    <3>3. CASE t \in Opens(scan) /\ db'[t] = [db[t] EXCEPT !.state = "OPENED"]
      <4>1. db'[t].state = "OPENED" /\ db'[t].closing = db[t].closing
        BY <1>0, <3>3 DEF TradeRecord
      <4> QED
        BY <2>1, <3>3, <4>1 DEF Proceeds
    <3> QED
      BY <3>1, <3>2, <3>3
  <2>3. \A e \in Entry : Keeps(e)
    BY <2>1, KeepsSame DEF OptionInv
  <2> QED
    BY <1>i, <2>1, <2>2, <2>3, OptionFrame
<1>5. CASE RouterThrows \/ CursorMoves
  <2>1. UNCHANGED <<db, age, entry, req, toLoad>> /\ scan'.pc = "idle"
    BY <1>i, <1>5 DEF RouterThrows, CursorMoves
  <2>2. \A e \in Entry : Keeps(e)
    BY <2>1, KeepsSame DEF OptionInv
  <2>3. \A t \in Trade : Proceeds(t)
    BY <2>1 DEF Proceeds
  <2> QED
    BY <2>1, <2>2, <2>3, OptionFrame
<1> QED
  BY <1>1, <1>2, <1>3, <1>4, <1>5 DEF RouterStep

\* The end of an opening call, the start-up and a crash.
LEMMA OptionStart ==
    ASSUME TypeInv, OptionInv, OpenResolves \/ LoadStep \/ Crash \/ UNCHANGED vars PROVE OptionInv'
<1>0. \A e \in Entry : entry[e] \in TradeObject
  BY DEF TypeInv, TypeOK
<1> USE DEF memVars, chainVars, routerVars
<1>1. CASE OpenResolves \/ LoadPush
  <2>1. PICK es \in SUBSET (At("opening") \cup At("loading")) :
           entry' = [e \in Entry |-> IF e \in es THEN MovedTo("active", entry[e]) ELSE entry[e]]
    <3>1. CASE OpenResolves
      <4>1. PICK f \in At("opening") : Updated({f}, LAMBDA o : MovedTo("active", o))
        BY <3>1 DEF OpenResolves
      <4> QED
        BY <4>1 DEF Updated
    <3>2. CASE LoadPush
      BY <3>2 DEF LoadPush, Updated
    <3> QED
      BY <1>1, <3>1, <3>2
  <2>2. ASSUME NEW e \in Entry PROVE Keeps(e)
    <3>1. CASE e \in es
      <4>1. entry'[e].place = "active" /\ entry'[e].option = entry[e].option
            /\ entry'[e].closing = entry[e].closing
        BY <1>0, <2>1, <3>1 DEF MovedTo, TradeObject
      <4>2. Knows(e) /\ entry[e].place \in {"opening", "loading"}
        BY <3>1 DEF OptionInv, WhereUnknown, At
      <4> QED
        BY <4>1, <4>2 DEF Keeps, Knows
    <3>2. CASE e \notin es
      BY <2>1, <3>2, KeepsSame DEF OptionInv
    <3> QED
      BY <3>1, <3>2
  <2> QED
    BY <1>1, <2>2, OptionMemory DEF OpenResolves, LoadPush
<1>2. CASE LoadRead("active")
  <2>1. AddFromDb({t \in Trade : Loadable(db[t])}, "loading", TRUE)
        /\ toLoad' \subseteq toLoad /\ UNCHANGED <<db, age, req, log, scan>>
    BY <1>2 DEF LoadRead
  <2>2. {t \in Trade : Loadable(db[t])} \in SUBSET Trade
        /\ \A t \in {t \in Trade : Loadable(db[t])} : db[t].state # "QUEUED"
    BY DEF Loadable
  <2>3. Opens(scan)' = Opens(scan)
    BY <2>1 DEF Opens
  <2> QED
    BY <2>1, <2>2, <2>3, OptionAddOpened
<1>3. CASE LoadRead("opening")
  BY <1>3, OptionReload
<1>4. CASE Crash
  <2>1. /\ \A e \in Entry : entry'[e].place = "none"
        /\ scan'.pc = "idle" /\ UNCHANGED <<db, age>> /\ \A t \in Trade : req'[t] = "idle"
    BY <1>4 DEF Crash, NoObject, Idle
  <2>2. \A t \in Trade : Objects(t)' = {}
    BY <2>1 DEF Objects
  <2>3. WhereUnknown'
    BY <2>1 DEF WhereUnknown, Knows
  <2> QED
    BY <2>1, <2>2, <2>3 DEF OptionInv, OptionKnown, OneObject, NotClosedYet, LoadedFirst
<1>5. CASE UNCHANGED vars
  BY <1>5, KeepsSame, OptionMemory DEF vars, OptionInv
<1> QED
  BY <1>1, <1>2, <1>3, <1>4, <1>5 DEF LoadStep

LEMMA OptionStep ==
    ASSUME Punctual, TypeInv, OneCall, OptionInv, [Next]_vars PROVE OptionInv'
  BY OptionRequests, OptionJobs, OptionCalls, OptionChain, OptionRouter, OptionStart DEF Next

\* When the router job keeps its pace (Punctual), an object that waits for closeAnytime, or
\* is in it, knows its option, however many trades, failures and crashes there are: no batch
\* of closeAnytime fails to be encoded.
THEOREM EarlyCloseHasOptionHolds == Spec => []EarlyCloseHasOption
<1>1. CASE ~Punctual
  <2>1. EarlyCloseHasOption
    BY <1>1 DEF EarlyCloseHasOption
  <2> QED
    BY <2>1, PTL
<1>2. CASE Punctual
  <2>1. TypeInv /\ OneCall /\ OptionInv /\ [Next]_vars => OptionInv'
    BY <1>2, OptionStep
  <2>2. OptionInv => EarlyCloseHasOption
    <3>1. ASSUME OptionInv, NEW e \in Entry, entry[e].closing,
                 entry[e].place \in {"anytime", "call"}
          PROVE  entry[e].option
      <4>1. Knows(e)
        BY <3>1 DEF OptionInv, WhereUnknown
      <4> QED
        BY <3>1, <4>1 DEF Knows
    <3> QED
      BY <3>1 DEF EarlyCloseHasOption
  <2> QED
    BY <2>1, <2>2, OptionInit, TypeInvHolds, OneCallHolds, PTL DEF Spec
<1> QED
  BY <1>1, <1>2

-----------------------------------------------------------------------------
(* One attempt at a time *)

\* The objects of a trade that are not in a transaction that was sent: with the closings that
\* wait to be mined and the FailUnlock events that will bring it back they are the attempts
\* for it that are under way.
Away == UNION {c.batch : c \in {d \in calls : d.sent}}
Here(t) == Objects(t) \ Away
Attempts(t) == Cardinality(Here(t)) + sent[t] + Cardinality(Unread(t))

\* The steps that create and end no object and send no transaction.
Quiet ==
    \/ \E t \in Trade : UserStep(t) \/ ChainStep(t) \/ LoseTx(t) \/ RecordClose(t) \/ LandInc(t) \/ Tick(t)
    \/ OpenResolves \/ ExcuteOptions \/ CloseTradesAnyTime \/ LoadPush
    \/ RouterScan \/ RouterPush \/ RouterWrite \/ RouterThrows \/ CursorMoves
    \/ UNCHANGED vars

LEMMA QuietPlaces ==
    ASSUME TypeInv, Quiet
    PROVE  Away' = Away /\ \A e \in Entry : entry'[e].place = "none" <=> entry[e].place = "none"
<1>0. /\ \A e \in Entry : entry[e] \in TradeObject
      /\ calls \subseteq Call
  BY DEF TypeInv, TypeOK
<1> USE DEF memVars, chainVars, routerVars, bounded
<1>a. ASSUME UNCHANGED calls PROVE Away' = Away
  BY <1>a DEF Away
<1>1. CASE \/ \E t \in Trade : \/ ChainStep(t) \/ LoseTx(t) \/ RecordClose(t) \/ LandInc(t) \/ Tick(t)
                               \/ CloseRead(t) \/ CloseWrite(t)
           \/ RouterWrite \/ RouterThrows \/ CursorMoves \/ UNCHANGED vars
  <2>1. UNCHANGED <<calls, entry>>
    BY <1>1 DEF ChainStep, MineOpen, MineClose, LoseTx, RecordClose, LandInc, Tick, CloseRead,
                CloseWrite, RouterWrite, RouterThrows, CursorMoves, vars
  <2> QED
    BY <1>a, <2>1
<1>2. ASSUME NEW t \in Trade, CloseMove(t)
      PROVE  Away' = Away /\ \A e \in Entry : entry'[e].place = "none" <=> entry[e].place = "none"
  <2>1. UNCHANGED calls
    BY <1>2 DEF CloseMove
  <2>2. \/ UNCHANGED entry
        \/ \E moved \in SUBSET At("active") :
              Updated(moved, LAMBDA o : [o EXCEPT !.place = "anytime", !.closing = TRUE])
    BY <1>2 DEF CloseMove
  <2>3. \A o \in TradeObject : [o EXCEPT !.place = "anytime", !.closing = TRUE].place = "anytime"
    BY DEF TradeObject
  <2> QED
    BY <1>0, <1>a, <2>1, <2>2, <2>3 DEF Updated, At
<1>3. CASE OpenResolves \/ LoadPush
  <2>1. PICK es \in SUBSET (At("opening") \cup At("loading")) :
           entry' = [e \in Entry |-> IF e \in es THEN MovedTo("active", entry[e]) ELSE entry[e]]
    <3>1. CASE OpenResolves
      <4>1. PICK f \in At("opening") : Updated({f}, LAMBDA o : MovedTo("active", o))
        BY <3>1 DEF OpenResolves
      <4> QED
        BY <4>1 DEF Updated
    <3>2. CASE LoadPush
      BY <3>2 DEF LoadPush, Updated
    <3> QED
      BY <1>3, <3>1, <3>2
  <2>2. \A o \in TradeObject : MovedTo("active", o).place = "active"
    BY DEF TradeObject, MovedTo
  <2>3. UNCHANGED calls
    BY <1>3 DEF OpenResolves, LoadPush
  <2> QED
    BY <1>0, <1>a, <2>1, <2>2, <2>3 DEF At
<1>4. CASE ExcuteOptions \/ CloseTradesAnyTime
  <2>1. PICK kind \in {"execute", "close"}, batch \in SUBSET Entry :
           /\ StartCall(kind, batch)
           /\ batch \subseteq At("active") \/ batch \subseteq At("anytime")
    BY <1>4 DEF ExcuteOptions, CloseTradesAnyTime, Batches, At
  <2>2. /\ calls' = calls \cup {[kind |-> kind, batch |-> batch, sent |-> FALSE]}
        /\ entry' = [e \in Entry |-> IF e \in batch
              THEN [entry[e] EXCEPT !.place = "call", !.call_close = @ + 1] ELSE entry[e]]
    BY <2>1 DEF StartCall, Updated
  <2>3. {d \in calls' : d.sent} = {d \in calls : d.sent}
    <3> DEFINE new == [kind |-> kind, batch |-> batch, sent |-> FALSE]
    <3>1. ~new.sent /\ calls' = calls \cup {new}
      BY <2>2
    <3> HIDE DEF new
    <3> QED
      BY <3>1
  <2>4. \A o \in TradeObject : [o EXCEPT !.place = "call", !.call_close = @ + 1].place = "call"
    BY DEF TradeObject
  <2> QED
    BY <1>0, <2>1, <2>2, <2>3, <2>4 DEF Away, At
<1>5. CASE RouterScan
  <2>1. PICK told : Updated(told, LAMBDA o : [o EXCEPT !.option = TRUE])
    BY <1>5 DEF RouterScan, Told
  <2>2. \A o \in TradeObject : [o EXCEPT !.option = TRUE].place = o.place
    BY DEF TradeObject
  <2>3. UNCHANGED calls
    BY <1>5 DEF RouterScan
  <2> QED
    BY <1>0, <1>a, <2>1, <2>2, <2>3 DEF Updated
<1>6. CASE RouterPush
  <2>1. \A o \in TradeObject : MovedTo(IF o.closing THEN "anytime" ELSE "active", o).place # "none"
    BY DEF TradeObject, MovedTo
  <2>2. UNCHANGED calls
    BY <1>6 DEF RouterPush
  <2> QED
    BY <1>0, <1>6, <1>a, <2>1, <2>2 DEF RouterPush, Updated, At
<1> QED
  BY <1>1, <1>2, <1>3, <1>4, <1>5, <1>6 DEF Quiet, UserStep

LEMMA QuietHere ==
    ASSUME TypeInv, Quiet, NEW t \in Trade PROVE Here(t)' = Here(t) /\ Objects(t)' = Objects(t)
<1>1. Away' = Away /\ \A e \in Entry : entry'[e].place = "none" <=> entry[e].place = "none"
  BY QuietPlaces
<1> QED
  BY <1>1 DEF Here, Objects

\* The parts of Attempts are finite.
LEMMA AttemptsFinite ==
    ASSUME TypeInv, NEW t \in Trade
    PROVE  /\ IsFiniteSet(Here(t)) /\ Cardinality(Here(t)) \in Nat
           /\ IsFiniteSet(Unread(t)) /\ Cardinality(Unread(t)) \in Nat
           /\ sent[t] \in Nat
<1>1. IsFiniteSet({e \in Entry : e[1] = t})
  BY OwnFinite
<1>2. Here(t) \subseteq {e \in Entry : e[1] = t}
  BY DEF Here, Objects
<1>3. log \in Seq(RouterEvent) /\ Len(log) \in Nat /\ sent[t] \in Nat
  BY DEF TypeInv, TypeOK
<1>4. IsFiniteSet(1..Len(log)) /\ Unread(t) \subseteq 1..Len(log)
  <2>1. 1 \in Int /\ Len(log) \in Int /\ DOMAIN log = 1..Len(log)
    BY <1>3
  <2>2. Unread(t) \subseteq DOMAIN log
    BY DEF Unread
  <2> QED
    BY <2>1, <2>2, FS_Interval
<1> QED
  BY <1>1, <1>2, <1>3, <1>4, FS_Subset, FS_CardinalityType

LEMMA FewerAttempts ==
    ASSUME TypeInv, TypeInv', NEW t \in Trade,
           Here(t)' \subseteq Here(t), sent'[t] <= sent[t], Unread(t)' \subseteq Unread(t)
    PROVE  Attempts(t)' <= Attempts(t)
<1>1. /\ IsFiniteSet(Here(t)) /\ Cardinality(Here(t)) \in Nat
      /\ IsFiniteSet(Unread(t)) /\ Cardinality(Unread(t)) \in Nat
      /\ sent[t] \in Nat
  BY AttemptsFinite
<1>2. Cardinality(Here(t)') <= Cardinality(Here(t)) /\ Cardinality(Here(t)') \in Nat
  BY <1>1, FS_Subset, FS_CardinalityType
<1>3. Cardinality(Unread(t)') <= Cardinality(Unread(t)) /\ Cardinality(Unread(t)') \in Nat
  BY <1>1, FS_Subset, FS_CardinalityType
<1>4. Cardinality(Here(t))' = Cardinality(Here(t)') /\ Cardinality(Unread(t))' = Cardinality(Unread(t)')
  OBVIOUS
<1>5. sent'[t] \in Nat
  BY DEF TypeInv, TypeOK
<1> QED
  BY <1>1, <1>2, <1>3, <1>4, <1>5 DEF Attempts

\* A pass that goes to find the trades of FailUnlock events begins no later than where the
\* cursor is, so that it skips no event, and no earlier if no event is read again, so that it
\* finds none twice.
CaughtUp ==
    scan.pc = "find" => scan.from <= synced + 1 /\ (~Reread => scan.from = synced + 1)
LoadedOnce == crashes = 0 => toLoad = {}

LEMMA CaughtUpStep ==
    ASSUME TypeInv, CaughtUp, [Next]_vars PROVE CaughtUp'
<1>0. /\ synced \in Nat /\ settled \in Nat /\ settled <= synced
      /\ scan \in [pc: {"idle", "find", "push", "write"}, from: Nat \ {0}, to: 0..Len(log)]
  BY DEF TypeInv, TypeOK
<1>i. Idle.pc = "idle"
  BY DEF Idle
<1> USE DEF memVars, chainVars, routerVars, bounded
<1>1. CASE RouterScan
  <2>1. PICK from \in ScanStarts :
           LET pass == [pc |-> "write", from |-> from, to |-> Len(log)]
           IN  scan' = IF Fails(pass) = {} THEN pass ELSE [pass EXCEPT !.pc = "find"]
    BY <1>1 DEF RouterScan
  <2>2. scan'.from = from /\ UNCHANGED synced
    BY <1>1, <2>1 DEF RouterScan
  <2>3. from <= synced + 1 /\ (~Reread => from = synced + 1)
    BY <1>0 DEF ScanStarts
  <2> QED
    BY <2>2, <2>3 DEF CaughtUp
<1>2. CASE RouterFind \/ RouterPush
  <2>1. scan'.pc # "find"
    BY <1>0, <1>2 DEF RouterFind, RouterPush
  <2> QED
    BY <2>1 DEF CaughtUp
<1>3. CASE RouterWrite \/ RouterThrows \/ CursorMoves \/ Crash
  <2>1. scan'.pc = "idle"
    BY <1>i, <1>3 DEF RouterWrite, RouterThrows, CursorMoves, Crash
  <2> QED
    BY <2>1 DEF CaughtUp
<1>4. CASE ~(RouterStep \/ CursorMoves \/ Crash)
  <2>1. UNCHANGED <<synced, scan>>
    BY <1>4 DEF Next, UserStep, CloseRead, CloseMove, CloseWrite, RecordClose, LandInc, Tick,
                OpenResolves, JobStep, ExcuteOptions, CloseTradesAnyTime, LoseAnyTimeBatch,
                StartCall, CallStep, SendCall, CallResolves, CallFails,
                LoadStep, LoadRead, LoadPush, ChainStep, MineOpen, MineClose, LoseTx, vars
  <2> QED
    BY <2>1 DEF CaughtUp
<1> QED
  BY <1>1, <1>2, <1>3, <1>4 DEF RouterStep

LEMMA LoadedOnceStep ==
    ASSUME TypeInv, LoadedOnce, [Next]_vars PROVE LoadedOnce'
<1> USE DEF memVars, chainVars, routerVars, bounded, Fault
<1>1. CASE Crash
  <2>1. crashes \in Nat /\ crashes' = crashes + 1
    BY <1>1, CloseTradeAssumption DEF Crash, TypeInv, TypeOK
  <2> QED
    BY <2>1 DEF LoadedOnce
<1>2. CASE ~Crash
  <2>1. crashes' = crashes /\ toLoad' \subseteq toLoad
    BY <1>2 DEF Next, UserStep, CloseRead, CloseMove, CloseWrite, RecordClose, LandInc, Tick,
                OpenResolves, JobStep, ExcuteOptions, CloseTradesAnyTime, LoseAnyTimeBatch,
                StartCall, CallStep, SendCall, CallResolves, CallFails, RouterStep, RouterScan,
                RouterFind, RouterPush, RouterWrite, RouterThrows, CursorMoves,
                LoadStep, LoadRead, LoadPush, ChainStep, MineOpen, MineClose, LoseTx, vars
  <2> QED
    BY <2>1 DEF LoadedOnce
<1> QED
  BY <1>1, <1>2

\* Events that become unread, and those a pass has read.
LEMMA UnreadSame ==
    ASSUME UNCHANGED <<log, synced, scan>>, NEW t PROVE Unread(t)' = Unread(t)
  BY DEF Unread, End

LEMMA UnreadAppended ==
    ASSUME TypeInv, UNCHANGED <<synced, scan>>, NEW event, log' = Append(log, event), NEW t \in Trade
    PROVE  /\ event # Failing(t) => Unread(t)' = Unread(t)
           /\ event = Failing(t) => Unread(t)' = Unread(t) \cup {Len(log) + 1}
           /\ Len(log) + 1 \notin Unread(t)
<1>0. /\ log \in Seq(RouterEvent) /\ Len(log) \in Nat /\ synced \in 0..Len(log)
      /\ scan.to \in 0..Len(log)
  BY DEF TypeInv, TypeOK
<1>1. /\ DOMAIN log = 1..Len(log) /\ DOMAIN log' = 1..Len(log) + 1
      /\ \A i \in 1..Len(log) : log'[i] = log[i]
      /\ log'[Len(log) + 1] = event
  BY <1>0
<1> DEFINE from == IF scan.pc \in {"push", "write"} THEN scan.to ELSE synced
<1>2. /\ Unread(t) = {i \in 1..Len(log) : log[i] = Failing(t) /\ i > from}
      /\ Unread(t)' = {i \in 1..Len(log) + 1 : log'[i] = Failing(t) /\ i > from}
      /\ from \in 0..Len(log)
  BY <1>0, <1>1 DEF Unread, End
<1> HIDE DEF from
<1>3. \A i : i \in 1..Len(log) + 1 <=> i \in 1..Len(log) \/ i = Len(log) + 1
  BY <1>0
<1>4. Len(log) + 1 > from /\ Len(log) + 1 \notin 1..Len(log)
  BY <1>0, <1>2
<1> QED
  BY <1>1, <1>2, <1>3, <1>4

LEMMA UnreadRouter ==
    ASSUME TypeInv, CaughtUp, RouterStep \/ CursorMoves, NEW t \in Trade
    PROVE  /\ Unread(t)' \subseteq Unread(t)
           /\ ~RouterFind /\ ~RouterThrows => Unread(t)' = Unread(t)
           /\ RouterFind /\ t \notin Fails(scan) => Unread(t)' = Unread(t)
           /\ RouterFind /\ t \in Fails(scan) /\ ~Reread => \E i \in Unread(t) : i \notin Unread(t)'
<1>0. /\ log \in Seq(RouterEvent) /\ Len(log) \in Nat /\ synced \in 0..Len(log)
      /\ settled \in Nat /\ DOMAIN log = 1..Len(log)
      /\ scan \in [pc: {"idle", "find", "push", "write"}, from: Nat \ {0}, to: 0..Len(log)]
      /\ scan.pc # "idle" => synced <= scan.to
  BY DEF TypeInv, TypeOK, ScanAhead
<1>i. Idle.pc = "idle"
  BY DEF Idle
<1> DEFINE Beyond(n) == {i \in 1..Len(log) : log[i] = Failing(t) /\ i > n}
<1>b. /\ Unread(t) = Beyond(IF scan.pc \in {"push", "write"} THEN scan.to ELSE synced)
      /\ log' = log => Unread(t)' = Beyond(IF scan'.pc \in {"push", "write"} THEN scan'.to ELSE synced')
  BY <1>0 DEF Unread, End
<1>c. \A m, n \in Nat : m <= n => Beyond(n) \subseteq Beyond(m)
  OBVIOUS
<1>d. ASSUME NEW s, s.from \in Nat \ {0}, s.from <= synced + 1, s.to \in 0..Len(log), synced <= s.to
      PROVE  t \notin Fails(s) => Beyond(s.to) = Beyond(synced)
  BY <1>0, <1>d DEF Fails
<1> USE DEF memVars, chainVars, routerVars, bounded
<1>1. CASE RouterScan
  <2>1. PICK from \in ScanStarts :
           LET pass == [pc |-> "write", from |-> from, to |-> Len(log)]
           IN  scan' = IF Fails(pass) = {} THEN pass ELSE [pass EXCEPT !.pc = "find"]
    BY <1>1 DEF RouterScan
  <2> DEFINE pass == [pc |-> "write", from |-> from, to |-> Len(log)]
  <2>2. from \in Nat \ {0} /\ from <= synced + 1
    BY <1>0 DEF ScanStarts
  <2>3. UNCHANGED <<log, synced>> /\ scan.pc = "idle" /\ ~RouterFind /\ ~RouterThrows
    <3>1. scan = Idle /\ UNCHANGED <<log, synced>>
      BY <1>1 DEF RouterScan
    <3>2. ~RouterFind
      BY <1>i, <3>1 DEF RouterFind
    <3>3. ~RouterThrows
      <4>1. Idle.to = 0 /\ scan'.to = Len(log) /\ Idle.from = 1 /\ scan'.pc # "idle"
        BY <2>1 DEF Idle
      <4> QED
        BY <1>i, <4>1 DEF RouterThrows
    <3> QED
      BY <1>i, <3>1, <3>2, <3>3
  <2>4. CASE Fails(pass) = {}
    <3>1. scan' = pass /\ t \notin Fails(pass)
      BY <2>1, <2>4
    <3>2. Beyond(Len(log)) = Beyond(synced)
      <4>1. pass.from = from /\ pass.to = Len(log)
        OBVIOUS
      <4> HIDE DEF pass, Beyond
      <4> QED
        BY <1>0, <1>d, <2>2, <3>1, <4>1
    <3> QED
      BY <1>b, <2>3, <3>1, <3>2
  <2>5. CASE Fails(pass) # {}
    <3>1. scan'.pc = "find"
      BY <2>1, <2>5
    <3> QED
      BY <1>b, <2>3, <3>1
  <2> QED
    BY <2>4, <2>5
<1>2. CASE RouterFind
  <2>1. /\ scan.pc = "find" /\ scan'.pc = "push" /\ scan'.to = scan.to /\ UNCHANGED <<log, synced>>
    BY <1>0, <1>2 DEF RouterFind
  <2>2. Unread(t) = Beyond(synced) /\ Unread(t)' = Beyond(scan.to)
    BY <1>b, <2>1
  <2>3. scan.from \in Nat \ {0} /\ scan.from <= synced + 1 /\ scan.to \in 0..Len(log) /\ synced <= scan.to
    BY <1>0, <2>1 DEF CaughtUp
  <2>4. t \notin Fails(scan) => Beyond(scan.to) = Beyond(synced)
    BY <1>d, <2>3
  <2>5. t \in Fails(scan) /\ ~Reread => \E i \in Beyond(synced) : i \notin Beyond(scan.to)
    <3> SUFFICES ASSUME t \in Fails(scan), ~Reread PROVE \E i \in Beyond(synced) : i \notin Beyond(scan.to)
      OBVIOUS
    <3>1. PICK i \in scan.from..scan.to : log[i] = Failing(t)
      BY DEF Fails
    <3>2. scan.from = synced + 1
      BY <2>1 DEF CaughtUp
    <3>3. i \in 1..Len(log) /\ i > synced /\ ~(i > scan.to)
      BY <1>0, <2>3, <3>1, <3>2
    <3> QED
      BY <3>1, <3>3
  <2>6. ~RouterThrows \/ TRUE
    OBVIOUS
  <2>7. Beyond(scan.to) \subseteq Beyond(synced)
    BY <1>0, <1>c, <2>3
  <2> QED
    BY <1>2, <2>2, <2>4, <2>5, <2>7
<1>3. CASE RouterPush \/ RouterWrite
  <2>1. /\ log' = log /\ scan.pc \in {"push", "write"}
        /\ \/ scan'.pc = "write" /\ scan'.to = scan.to
           \/ scan'.pc = "idle" /\ synced' = scan.to
    BY <1>0, <1>i, <1>3 DEF RouterPush, RouterWrite, End
  <2>2. Unread(t)' = Unread(t)
    BY <1>b, <2>1
  <2>3. ~RouterFind
    BY <2>1 DEF RouterFind
  <2> QED
    BY <2>2, <2>3
<1>4. CASE RouterThrows
  <2>1. /\ log' = log /\ scan'.pc = "idle" /\ scan.pc \in {"idle", "find"}
        /\ synced' \in Nat /\ synced <= synced'
    BY <1>0, <1>i, <1>4 DEF RouterThrows, End
  <2>2. Unread(t)' \subseteq Unread(t)
    BY <1>0, <1>b, <1>c, <2>1
  <2>3. ~RouterFind
    BY <1>0, <2>1 DEF RouterFind
  <2> QED
    BY <1>4, <2>2, <2>3
<1>5. CASE CursorMoves
  <2>1. UNCHANGED <<log, synced, scan>> /\ scan.pc = "idle"
    BY <1>i, <1>5 DEF CursorMoves
  <2>2. ~RouterFind
    BY <2>1 DEF RouterFind
  <2> QED
    BY <2>1, <2>2, UnreadSame
<1> QED
  BY <1>1, <1>2, <1>3, <1>4, <1>5 DEF RouterStep

\* A trade taken from the collection gets one object.
LEMMA AddedOnce ==
    ASSUME TypeInv, NEW ts, NEW p, NEW opt, AddFromDb(ts, p, opt), p # "none", NEW t \in Trade
    PROVE  /\ t \notin ts => Objects(t)' = Objects(t)
           /\ t \in ts => \E e \in Entry : e[1] = t /\ Objects(t)' \subseteq Objects(t) \cup {e}
<1>1. ASSUME NEW e \in Entry, entry'[e] # entry[e]
      PROVE  /\ e[1] \in ts /\ entry[e].place = "none"
             /\ \A k \in 1..e[2] - 1 : entry[<<e[1], k>>].place # "none"
  BY <1>1 DEF AddFromDb
<1>2. ASSUME NEW e \in Entry, NEW f \in Entry, e[1] = t, f[1] = t,
             entry'[e] # entry[e], entry'[f] # entry[f]
      PROVE  e = f
  BY <1>1, <1>2, LeastCopy
<1>3. ASSUME NEW e \in Entry, entry[e].place # "none" PROVE entry'[e].place # "none"
  BY <1>1, <1>3
<1>4. CASE \E e \in Entry : e[1] = t /\ entry'[e] # entry[e]
  <2>1. PICK e \in Entry : e[1] = t /\ entry'[e] # entry[e]
    BY <1>4
  <2>2. Objects(t)' \subseteq Objects(t) \cup {e}
    BY <1>2, <2>1 DEF Objects
  <2> QED
    BY <1>1, <2>1, <2>2
<1>5. CASE ~\E e \in Entry : e[1] = t /\ entry'[e] # entry[e]
  <2>1. Objects(t)' = Objects(t)
    BY <1>5 DEF Objects
  <2>2. MaxCopies \in Nat \ {0}
    BY CloseTradeAssumption
  <2>3. <<t, 1>> \in Entry /\ <<t, 1>>[1] = t
    BY <2>2 DEF Entry
  <2> QED
    BY <2>1, <2>3
<1> QED
  BY <1>4, <1>5

\* Sending moves an attempt from an object to the closings that wait to be mined.
LEMMA SendAttempts ==
    ASSUME TypeInv, TypeInv', OneCall, SendCall, NEW t \in Trade
    PROVE  Attempts(t)' <= Attempts(t)
<1>1. PICK c \in calls :
         /\ ~c.sent
         /\ calls' = (calls \ {c}) \cup {[c EXCEPT !.sent = TRUE]}
         /\ sent' = [u \in Trade |->
               sent[u] + Cardinality({e \in c.batch : e[1] = u /\ entry[e].option})]
         /\ UNCHANGED <<entry, log, synced, scan>>
  BY DEF SendCall, routerVars
<1>2. /\ [c EXCEPT !.sent = TRUE].sent /\ [c EXCEPT !.sent = TRUE].batch = c.batch
      /\ c.batch \subseteq Entry
  BY DEF TypeInv, TypeOK, Call
<1>3. Away' = Away \cup c.batch
  <2> DEFINE new == [c EXCEPT !.sent = TRUE]
  <2>1. new.sent /\ new.batch = c.batch /\ calls' = (calls \ {c}) \cup {new}
    BY <1>1, <1>2
  <2> HIDE DEF new
  <2>2. {d \in calls' : d.sent} = {d \in calls : d.sent} \cup {new}
    BY <1>1, <2>1
  <2> QED
    BY <2>1, <2>2 DEF Away
<1> DEFINE mine == {e \in c.batch : e[1] = t}
           told == {e \in c.batch : e[1] = t /\ entry[e].option}
<1>4. mine \subseteq Here(t)
  <2>1. \A e \in mine : e \in Objects(t)
    BY <1>2 DEF OneCall, Objects
  <2>2. \A e \in mine : \A d \in calls : d.sent => e \notin d.batch
    BY <1>1 DEF OneCall
  <2> QED
    BY <2>1, <2>2 DEF Here, Away
<1>5. Here(t)' = Here(t) \ mine
  BY <1>1, <1>3 DEF Here, Objects
<1>6. Unread(t)' = Unread(t)
  BY <1>1, UnreadSame
<1>7. told \subseteq mine /\ sent'[t] = sent[t] + Cardinality(told)
  BY <1>1
<1> HIDE DEF mine, told
<1>8. /\ IsFiniteSet(Here(t)) /\ Cardinality(Here(t)) \in Nat
      /\ Cardinality(Unread(t)) \in Nat /\ sent[t] \in Nat
  BY AttemptsFinite
<1>9. IsFiniteSet(mine) /\ Cardinality(told) <= Cardinality(mine)
      /\ Cardinality(mine) \in Nat /\ Cardinality(told) \in Nat
  BY <1>4, <1>7, <1>8, FS_Subset, FS_CardinalityType
<1>10. Cardinality(Here(t) \ mine) = Cardinality(Here(t)) - Cardinality(mine)
  <2>1. Here(t) \cap mine = mine
    BY <1>4
  <2> QED
    BY <1>8, <2>1, FS_Difference
<1>11. Attempts(t)' = Cardinality(Here(t) \ mine) + sent'[t] + Cardinality(Unread(t))
  BY <1>5, <1>6 DEF Attempts
<1> QED
  BY <1>7, <1>8, <1>9, <1>10, <1>11 DEF Attempts

\* Mining moves it on to the events.
LEMMA MineAttempts ==
    ASSUME TypeInv, TypeInv', NEW u \in Trade, MineClose(u), NEW t \in Trade
    PROVE  Attempts(t)' <= Attempts(t)
<1>1. Here(t)' = Here(t)
  BY QuietHere DEF Quiet, ChainStep
<1>2. sent \in [Trade -> Nat] /\ sent[u] > 0 /\ sent' = [sent EXCEPT ![u] = @ - 1]
      /\ UNCHANGED <<synced, scan>>
  BY DEF MineClose, TypeInv, TypeOK, routerVars
<1>3. CASE UNCHANGED log
  <2>1. Unread(t)' = Unread(t)
    BY <1>2, <1>3, UnreadSame
  <2>2. sent'[t] <= sent[t]
    BY <1>2
  <2> QED
    BY <1>1, <2>1, <2>2, FewerAttempts
<1>4. CASE log' = Append(log, Failing(u))
  <2>1. CASE t # u
    <3>1. Failing(u) # Failing(t)
      BY <2>1 DEF Failing
    <3>2. Unread(t)' = Unread(t)
      BY <1>2, <1>4, <3>1, UnreadAppended
    <3>3. sent'[t] <= sent[t]
      BY <1>2
    <3> QED
      BY <1>1, <3>2, <3>3, FewerAttempts
  <2>2. CASE t = u
    <3>1. Unread(t)' = Unread(t) \cup {Len(log) + 1} /\ Len(log) + 1 \notin Unread(t)
      BY <1>2, <1>4, <2>2, UnreadAppended
    <3>2. /\ Cardinality(Here(t)) \in Nat
          /\ IsFiniteSet(Unread(t)) /\ Cardinality(Unread(t)) \in Nat
      BY AttemptsFinite
    <3>3. Cardinality(Unread(t)') = Cardinality(Unread(t)) + 1
      BY <3>1, <3>2, FS_AddElement
    <3>4. sent'[t] = sent[t] - 1 /\ sent[t] \in Nat
      BY <1>2, <2>2
    <3>5. Attempts(t)' = Cardinality(Here(t)) + sent'[t] + Cardinality(Unread(t)')
      BY <1>1 DEF Attempts
    <3> QED
      BY <3>2, <3>3, <3>4, <3>5 DEF Attempts
  <2> QED
    BY <2>1, <2>2
<1> QED
  BY <1>3, <1>4 DEF MineClose

\* The pass that reads the event moves it back to an object.
LEMMA FindAttempts ==
    ASSUME TypeInv, TypeInv', CaughtUp, ~Reread, RouterFind, NEW t \in Trade
    PROVE  Attempts(t)' <= Attempts(t)
<1>1. /\ AddFromDb({u \in Fails(scan) : BringBack(db[u])}, "found", TRUE)
      /\ UNCHANGED <<calls, sent>>
  BY DEF RouterFind, chainVars
<1>2. Away' = Away
  BY <1>1 DEF Away
<1>3. Unread(t)' \subseteq Unread(t)
  BY UnreadRouter DEF RouterStep
<1>4. CASE Objects(t)' = Objects(t)
  <2>1. Here(t)' = Here(t)
    BY <1>2, <1>4 DEF Here
  <2>2. sent'[t] <= sent[t]
    BY SMTT(30), <1>1 DEF TypeInv, TypeOK
  <2> QED
    BY <1>3, <2>1, <2>2, FewerAttempts
<1>5. CASE Objects(t)' # Objects(t)
  <2> DEFINE ts == {u \in Fails(scan) : BringBack(db[u])}
  <2>a. AddFromDb(ts, "found", TRUE)
    BY <1>1
  <2>b. t \in ts => t \in Fails(scan)
    OBVIOUS
  <2> HIDE DEF ts
  <2>c. t \in ts
    BY <1>5, <2>a, AddedOnce
  <2>1. PICK e : t \in Fails(scan) /\ Objects(t)' \subseteq Objects(t) \cup {e}
    BY <2>a, <2>b, <2>c, AddedOnce
  <2>2. Here(t)' \subseteq Here(t) \cup {e}
    BY <1>2, <2>1 DEF Here
  <2>3. PICK i \in Unread(t) : i \notin Unread(t)'
    BY <2>1, UnreadRouter DEF RouterStep
  <2>4. /\ IsFiniteSet(Here(t)) /\ Cardinality(Here(t)) \in Nat
        /\ IsFiniteSet(Unread(t)) /\ Cardinality(Unread(t)) \in Nat /\ sent[t] \in Nat
    BY AttemptsFinite
  <2>5. Cardinality(Here(t)') <= Cardinality(Here(t)) + 1 /\ Cardinality(Here(t)') \in Nat
    <3>1. /\ IsFiniteSet(Here(t) \cup {e}) /\ Cardinality(Here(t) \cup {e}) \in Nat
          /\ Cardinality(Here(t) \cup {e}) <= Cardinality(Here(t)) + 1
      <4>1. IsFiniteSet(Here(t) \cup {e})
        BY <2>4, FS_AddElement
      <4>2. Cardinality(Here(t) \cup {e}) =
              IF e \in Here(t) THEN Cardinality(Here(t)) ELSE Cardinality(Here(t)) + 1
        BY <2>4, FS_AddElement
      <4> QED
        BY <2>4, <4>1, <4>2, FS_CardinalityType
    <3>2. Cardinality(Here(t)') <= Cardinality(Here(t) \cup {e}) /\ IsFiniteSet(Here(t)')
      BY <2>2, <3>1, FS_Subset
    <3>3. Cardinality(Here(t)') \in Nat
      BY <3>2, FS_CardinalityType
    <3> QED
      BY <2>4, <3>1, <3>2, <3>3
  <2>6. Cardinality(Unread(t)') <= Cardinality(Unread(t)) - 1 /\ Cardinality(Unread(t)') \in Nat
    <3>1. Unread(t)' \subseteq Unread(t) \ {i}
      BY <1>3, <2>3
    <3>2. IsFiniteSet(Unread(t) \ {i}) /\ Cardinality(Unread(t) \ {i}) = Cardinality(Unread(t)) - 1
      BY <2>3, <2>4, FS_RemoveElement
    <3>3. Cardinality(Unread(t)') <= Cardinality(Unread(t) \ {i}) /\ IsFiniteSet(Unread(t)')
      BY <3>1, <3>2, FS_Subset
    <3> QED
      BY <3>2, <3>3, FS_CardinalityType
  <2>7. Attempts(t)' = Cardinality(Here(t)') + sent[t] + Cardinality(Unread(t)')
    BY <1>1 DEF Attempts
  <2> QED
    BY <2>4, <2>5, <2>6, <2>7 DEF Attempts
<1> QED
  BY <1>4, <1>5

\* No step adds an attempt, as long as no event is read again, no answer is lost and nothing
\* is loaded.
LEMMA AttemptsStep ==
    ASSUME TypeInv, TypeInv', OneCall, CaughtUp, toLoad = {}, ~Reread, ~LostAnswers,
           [Next]_vars, NEW t \in Trade
    PROVE  Attempts(t)' <= Attempts(t) \/ Crash
<1>0. /\ sent \in [Trade -> Nat] /\ \A c \in calls : c.batch \subseteq Entry
      /\ \A e \in Entry : entry[e] \in TradeObject
  BY DEF TypeInv, TypeOK, Call
<1> USE DEF memVars, chainVars, routerVars, bounded
<1>1. ASSUME Quiet, ~\E u \in Trade : MineClose(u) PROVE Attempts(t)' <= Attempts(t)
  <2>1. Here(t)' = Here(t)
    BY <1>1, QuietHere
  <2>2. sent'[t] <= sent[t]
    <3>1. \/ UNCHANGED sent
          \/ \E u \in Trade : LoseTx(u)
      BY <1>1 DEF Quiet, UserStep, ChainStep, CloseRead, CloseMove, CloseWrite, MineOpen,
                  RecordClose, LandInc, Tick, OpenResolves, ExcuteOptions, CloseTradesAnyTime,
                  StartCall, LoadPush, RouterScan, RouterPush, RouterWrite, RouterThrows,
                  CursorMoves, vars
    <3> QED
      BY <1>0, <3>1 DEF LoseTx
  <2>3. Unread(t)' \subseteq Unread(t)
    <3>1. CASE RouterScan \/ RouterPush \/ RouterWrite \/ RouterThrows \/ CursorMoves
      BY <3>1, UnreadRouter DEF RouterStep
    <3>2. ASSUME NEW u \in Trade, MineOpen(u) PROVE Unread(t)' \subseteq Unread(t)
      <4>1. Opening(u) # Failing(t)
        BY DEF Opening, Failing
      <4> QED
        BY <3>2, <4>1, UnreadAppended DEF MineOpen
    <3>3. CASE /\ ~(RouterScan \/ RouterPush \/ RouterWrite \/ RouterThrows \/ CursorMoves)
               /\ ~\E u \in Trade : MineOpen(u)
      <4>1. UNCHANGED <<log, synced, scan>>
        BY <1>1, <3>3 DEF Quiet, UserStep, ChainStep, CloseRead, CloseMove, CloseWrite,
                  RecordClose, LandInc, Tick, LoseTx, OpenResolves, ExcuteOptions,
                  CloseTradesAnyTime, StartCall, LoadPush, vars
      <4> QED
        BY <4>1, UnreadSame
    <3> QED
      BY <3>1, <3>2, <3>3
  <2> QED
    BY <2>1, <2>2, <2>3, FewerAttempts
<1>2. CASE LoseAnyTimeBatch \/ CallResolves \/ CallFails
  <2>1. PICK es \in SUBSET Entry :
           /\ \A e \in Entry : e \notin es => entry'[e] = entry[e]
           /\ \A e \in Entry : entry[e].place = "none" => entry'[e].place = "none"
           /\ Away' = Away \/ (Away' = Away \ es /\ \A e \in es : entry'[e].place = "none")
           /\ UNCHANGED <<sent, log, synced, scan>>
    <3>1. CASE LoseAnyTimeBatch
      <4>1. PICK b \in SUBSET At("anytime") : Updated(b, Dropped) /\ UNCHANGED <<calls, sent, log, synced, scan>>
        BY <3>1 DEF LoseAnyTimeBatch, Batches
      <4>2. Away' = Away
        BY <4>1 DEF Away
      <4>3. \A e \in Entry : entry[e].place = "none" => entry'[e].place = "none"
        BY <4>1 DEF Updated, Dropped, NoObject
      <4>4. b \in SUBSET Entry /\ \A e \in Entry : e \notin b => entry'[e] = entry[e]
        BY <4>1 DEF Updated, At
      <4> QED
        BY <4>1, <4>2, <4>3, <4>4
    <3>2. CASE CallResolves
      <4>1. PICK c \in calls : c.sent /\ calls' = calls \ {c} /\ Updated(c.batch, Dropped)
                               /\ UNCHANGED <<sent, log, synced, scan>>
        BY <3>2 DEF CallResolves
      <4>2. Away' = Away \ c.batch
        <5>1. \A d \in calls \ {c} : d.batch \cap c.batch = {}
          BY <4>1 DEF OneCall
        <5> QED
          BY <4>1, <5>1 DEF Away
      <4>3. /\ \A e \in Entry : e \notin c.batch => entry'[e] = entry[e]
            /\ \A e \in Entry : e \in c.batch => entry'[e].place = "none"
            /\ c.batch \in SUBSET Entry
        BY <1>0, <4>1 DEF Updated, Dropped, NoObject
      <4> QED
        BY <4>1, <4>2, <4>3
    <3>3. CASE CallFails
      <4>1. PICK c \in calls :
               /\ ~c.sent /\ calls' = calls \ {c} /\ UNCHANGED <<sent, log, synced, scan>>
               /\ \A e \in Entry : e \notin c.batch => entry'[e] = entry[e]
        BY <3>3 DEF CallFails, Updated
      <4>2. {d \in calls' : d.sent} = {d \in calls : d.sent}
        BY <4>1
      <4>3. Away' = Away
        BY <4>2 DEF Away
      <4>4. \A e \in Entry : entry[e].place = "none" => entry'[e].place = "none"
        BY <4>1 DEF OneCall
      <4>5. c.batch \in SUBSET Entry
        BY <1>0, <4>1
      <4> QED
        BY <4>1, <4>3, <4>4, <4>5
    <3> QED
      BY <1>2, <3>1, <3>2, <3>3
  <2>2. Here(t)' \subseteq Here(t)
    <3>1. ASSUME NEW e \in Here(t)' PROVE e \in Here(t)
      <4>1. e \in Entry /\ e[1] = t /\ entry'[e].place # "none" /\ e \notin Away'
        BY DEF Here, Objects
      <4>2. entry[e].place # "none" /\ e \notin Away
        BY <2>1, <4>1
      <4> QED
        BY <4>1, <4>2 DEF Here, Objects
    <3> QED
      BY <3>1
  <2>3. Unread(t)' = Unread(t) /\ sent'[t] <= sent[t]
    BY <1>0, <2>1, UnreadSame
  <2> QED
    BY <2>2, <2>3, FewerAttempts
<1>3. CASE \E kind \in {"opening", "active"} : LoadRead(kind)
  BY <1>3 DEF LoadRead
<1> QED
  BY <1>1, <1>2, <1>3, SendAttempts, MineAttempts, FindAttempts
     DEF Next, JobStep, CallStep, RouterStep, LoadStep, Quiet

LEMMA AttemptsCounted == TypeInv => \A u \in Trade : Attempts(u) \in Nat
  BY AttemptsFinite DEF Attempts

LEMMA AttemptsAreOne ==
    OneAttemptAtATime <=>
       (~Reread /\ ~LostAnswers /\ crashes = 0 => \A t \in Trade : Attempts(t) <= 1)
<1>1. ASSUME NEW t \in Trade
      PROVE  Objects(t) \ {e \in Objects(t) : \E c \in calls : c.sent /\ e \in c.batch} = Here(t)
  BY DEF Here, Away
<1> QED
  BY <1>1 DEF OneAttemptAtATime, Attempts

LEMMA AttemptsInit == Init => OneAttemptAtATime
<1> SUFFICES ASSUME Init, NEW t \in Trade PROVE Attempts(t) <= 1
  BY AttemptsAreOne
<1>1. Here(t) \subseteq {<<t, 1>>}
  BY DEF Init, Here, Objects, Entry, NoObject
<1>2. Cardinality(Here(t)) <= 1 /\ Cardinality(Here(t)) \in Nat
  <2>1. IsFiniteSet({<<t, 1>>}) /\ Cardinality({<<t, 1>>}) = 1
    BY FS_Singleton
  <2>2. IsFiniteSet(Here(t)) /\ Cardinality(Here(t)) <= 1
    BY <1>1, <2>1, FS_Subset
  <2> QED
    BY <2>2, FS_CardinalityType
<1>3. Unread(t) = {} /\ sent[t] = 0
  BY DEF Init, Unread
<1>4. Cardinality(Unread(t)) = 0
  BY <1>3, FS_EmptySet
<1> QED
  BY <1>2, <1>3, <1>4 DEF Attempts

\* A trade is submitted once at a time: its objects that are not in a sent transaction, the
\* closings that wait to be mined and the FailUnlock events that will bring it back are one
\* at most, however many trades, failures and retries there are, as long as no event is read
\* again, no answer is lost and the process does not restart.
THEOREM OneAttemptAtATimeHolds == Spec => []OneAttemptAtATime
<1> DEFINE AttemptInv == CaughtUp /\ LoadedOnce /\ OneAttemptAtATime
<1>1. Init => AttemptInv
  <2>1. Init => CaughtUp /\ LoadedOnce
    BY DEF Init, CaughtUp, LoadedOnce, Idle
  <2> QED
    BY <2>1, AttemptsInit
<1>2. TypeInv /\ TypeInv' /\ OneCall /\ AttemptInv /\ [Next]_vars => AttemptInv'
  <2> SUFFICES ASSUME TypeInv, TypeInv', OneCall, AttemptInv, [Next]_vars PROVE AttemptInv'
    OBVIOUS
  <2>1. CaughtUp' /\ LoadedOnce'
    BY CaughtUpStep, LoadedOnceStep
  <2>c. \A u \in Trade : Attempts(u) \in Nat /\ Attempts(u)' \in Nat
    <3>1. (TypeInv => \A u \in Trade : Attempts(u) \in Nat)'
      BY AttemptsCounted, PTL
    <3> QED
      BY <3>1, AttemptsCounted
  <2>2. ASSUME ~Reread, ~LostAnswers, crashes' = 0, NEW t \in Trade PROVE Attempts(t)' <= 1
    <3>1. crashes = 0 /\ ~Crash
      <4>1. crashes \in Nat
        BY CloseTradeAssumption DEF TypeInv, TypeOK
      <4>2. ~Crash
        BY <2>2, <4>1 DEF Crash
      <4>3. UNCHANGED crashes
        BY <4>2 DEF Next, UserStep, CloseRead, CloseMove, CloseWrite, RecordClose, LandInc, Tick,
              OpenResolves, JobStep, ExcuteOptions, CloseTradesAnyTime, LoseAnyTimeBatch,
              StartCall, CallStep, SendCall, CallResolves, CallFails, RouterStep, RouterScan,
              RouterFind, RouterPush, RouterWrite, RouterThrows, CursorMoves,
              LoadStep, LoadRead, LoadPush, ChainStep, MineOpen, MineClose, LoseTx, vars,
              memVars, chainVars, routerVars, bounded, Fault
      <4> QED
        BY <2>2, <4>2, <4>3
    <3>2. toLoad = {} /\ Attempts(t) <= 1
      BY <2>2, <3>1, AttemptsAreOne DEF LoadedOnce
    <3>3. Attempts(t)' <= Attempts(t)
      BY <2>2, <3>1, <3>2, AttemptsStep
    <3>4. Attempts(t) \in Nat /\ Attempts(t)' \in Nat
      BY <2>c
    <3> QED
      BY <3>2, <3>3, <3>4
  <2>3. OneAttemptAtATime'
    <3>1. (~Reread /\ ~LostAnswers /\ crashes = 0 => \A t \in Trade : Attempts(t) <= 1)'
      BY <2>2
    <3>2. (OneAttemptAtATime <=>
             (~Reread /\ ~LostAnswers /\ crashes = 0 => \A t \in Trade : Attempts(t) <= 1))'
      BY AttemptsAreOne, PTL
    <3> QED
      BY <3>1, <3>2
  <2> QED
    BY <2>1, <2>3
<1>3. AttemptInv => OneAttemptAtATime
  OBVIOUS
<1> HIDE DEF AttemptInv
<1> QED
  BY <1>1, <1>2, <1>3, TypeInvHolds, OneCallHolds, PTL DEF Spec

-----------------------------------------------------------------------------
(* No trade is forgotten *)

\* The attempts for a trade that were counted, in the collection or by a write under way.
Tries(t) == db[t].call_close + incs[t]

\* An object counts an attempt and its failure: twice what the collection counts.
Counts(e) ==
    entry[e].place # "none" =>
       entry[e].call_close + (IF entry[e].place = "call" THEN 1 ELSE 0) <= 2 * Tries(e[1])
Counted == \A e \in Entry : Counts(e)

LEMMA TriesStep ==
    ASSUME TypeInv, [Next]_vars, NEW t \in Trade
    PROVE  Tries(t) \in Nat /\ (Crash \/ Tries(t)' >= Tries(t))
<1>0. /\ db \in [Trade -> TradeRecord] /\ incs \in [Trade -> Nat]
      /\ \A u \in Trade : db[u] \in TradeRecord /\ db[u].call_close \in Nat
  BY DEF TypeInv, TypeOK, TradeRecord
<1>t. Tries(t) \in Nat
  BY <1>0 DEF Tries
<1> USE DEF memVars, chainVars, routerVars, bounded
<1>1. ASSUME NEW u \in Trade, LandInc(u) PROVE Tries(t)' >= Tries(t)
  <2>1. db'[t].call_close = IF t = u THEN db[t].call_close + 1 ELSE db[t].call_close
    <3>1. db' = [db EXCEPT ![u] = [db[u] EXCEPT !.call_close = db[u].call_close + 1]]
      BY <1>1 DEF LandInc
    <3>2. \A r \in TradeRecord, n \in Nat : [r EXCEPT !.call_close = n].call_close = n
      BY DEF TradeRecord
    <3> QED
      BY <1>0, <3>1, <3>2
  <2>2. incs'[t] = IF t = u THEN incs[t] - 1 ELSE incs[t]
    BY <1>0, <1>1 DEF LandInc
  <2> QED
    BY <1>0, <2>1, <2>2 DEF Tries
<1>2. ASSUME NEW kind, NEW batch \in SUBSET Entry, StartCall(kind, batch) PROVE Tries(t)' >= Tries(t)
  <2>1. Cardinality({e \in batch : e[1] = t}) \in Nat
    BY OwnFinite
  <2>2. incs'[t] = incs[t] + Cardinality({e \in batch : e[1] = t}) /\ db' = db
    BY <1>2 DEF StartCall
  <2> QED
    BY <1>0, <2>1, <2>2 DEF Tries
<1>3. ASSUME \A u \in Trade : db'[u].call_close = db[u].call_close, UNCHANGED incs
      PROVE  Tries(t)' >= Tries(t)
  BY <1>0, <1>3 DEF Tries
<1>4. ASSUME NEW u \in Trade, CloseWrite(u) \/ RecordClose(u) PROVE Tries(t)' >= Tries(t)
  <2>1. \A v \in Trade : db'[v].call_close = db[v].call_close
    BY <1>0, <1>4 DEF CloseWrite, RecordClose, TradeRecord
  <2> QED
    BY <1>3, <1>4, <2>1 DEF CloseWrite, RecordClose
<1>5. CASE RouterWrite
  <2>1. \A v \in Trade : db'[v].call_close = db[v].call_close
    <3>1. \A r \in TradeRecord : [r EXCEPT !.state = "OPENED"].call_close = r.call_close
      BY DEF TradeRecord
    <3>2. \A v \in Trade : db'[v] = db[v] \/ db'[v] = [db[v] EXCEPT !.state = "OPENED"]
      BY <1>5 DEF RouterWrite
    <3> QED
      BY <1>0, <3>1, <3>2
  <2>2. UNCHANGED incs
    BY <1>5 DEF RouterWrite
  <2> QED
    BY <1>3, <1>t, <2>1, <2>2
<1>6. CASE ExcuteOptions \/ CloseTradesAnyTime
  BY <1>2, <1>6, <1>t DEF ExcuteOptions, CloseTradesAnyTime, Batches, At
<1>7. CASE \/ \E u \in Trade : CloseRead(u) \/ CloseMove(u) \/ ChainStep(u) \/ LoseTx(u) \/ Tick(u)
           \/ OpenResolves \/ LoseAnyTimeBatch \/ CallStep \/ LoadStep
           \/ RouterScan \/ RouterFind \/ RouterPush \/ RouterThrows \/ CursorMoves \/ UNCHANGED vars
  <2>1. UNCHANGED <<db, incs>>
    BY <1>7 DEF CloseRead, CloseMove, ChainStep, MineOpen, MineClose, LoseTx, Tick, OpenResolves,
                LoseAnyTimeBatch, CallStep, SendCall, CallResolves, CallFails, LoadStep, LoadRead,
                LoadPush, RouterScan, RouterFind, RouterPush, RouterThrows, CursorMoves, vars
  <2>2. \A u \in Trade : db'[u].call_close = db[u].call_close
    BY <2>1
  <2> QED
    BY <1>3, <1>t, <2>1, <2>2
<1> QED
  BY <1>t, <1>1, <1>4, <1>5, <1>6, <1>7 DEF Next, UserStep, JobStep, RouterStep

\* What a step that starts no call makes of an object counts no more.
CountsNoMore(e) ==
    \/ entry'[e].place = "none"
    \/ /\ entry[e].place # "none" /\ entry'[e].call_close = entry[e].call_close
       /\ entry'[e].place = "call" => entry[e].place = "call"

LEMMA CountedFrame ==
    ASSUME TypeInv, TypeInv', Counted, [Next]_vars, ~Crash, NEW e \in Entry, CountsNoMore(e)
    PROVE  Counts(e)'
<1>1. e[1] \in Trade
  BY DEF Entry
<1>2. Tries(e[1]) \in Nat /\ Tries(e[1])' \in Int /\ Tries(e[1])' >= Tries(e[1])
  <2>1. db'[e[1]].call_close \in Nat /\ incs'[e[1]] \in Nat
    BY <1>1 DEF TypeInv, TypeOK, TradeRecord
  <2> QED
    BY <1>1, <2>1, TriesStep DEF Tries
<1>3. entry[e].call_close \in Nat
  BY DEF TypeInv, TypeOK, TradeObject
<1> QED
  BY <1>2, <1>3 DEF Counted, Counts, CountsNoMore

\* The other steps: a call starts, a call fails, a trade is taken from the collection.
LEMMA CountedStart ==
    ASSUME TypeInv, TypeInv', Counted, [Next]_vars, NEW kind, NEW batch \in SUBSET Entry,
           \A e \in batch : entry[e].place \notin {"none", "call"}, StartCall(kind, batch),
           NEW e \in Entry
    PROVE  Counts(e)'
<1>0. /\ entry[e] \in TradeObject /\ entry[e].call_close \in Nat /\ e[1] \in Trade
      /\ db[e[1]].call_close \in Nat /\ incs[e[1]] \in Nat
  BY DEF TypeInv, TypeOK, TradeObject, TradeRecord, Entry
<1>1. entry'[e] = IF e \in batch THEN [entry[e] EXCEPT !.place = "call", !.call_close = @ + 1]
                  ELSE entry[e]
  BY DEF StartCall, Updated
<1>2. ~Crash
  BY DEF StartCall, Crash, bounded, TypeInv, TypeOK
<1>3. CASE e \in batch
  <2>1. entry'[e].place = "call" /\ entry'[e].call_close = entry[e].call_close + 1
    BY <1>0, <1>1, <1>3 DEF TradeObject
  <2>2. IsFiniteSet({f \in batch : f[1] = e[1]}) /\ Cardinality({f \in batch : f[1] = e[1]}) \in Nat
    BY <1>0, OwnFinite
  <2>3. Cardinality({f \in batch : f[1] = e[1]}) >= 1
    <3>1. {f \in batch : f[1] = e[1]} # {}
      BY <1>3
    <3> QED
      BY <2>2, <3>1, FS_EmptySet
  <2>4. Tries(e[1])' = Tries(e[1]) + Cardinality({f \in batch : f[1] = e[1]})
    <3>1. /\ db' = db
          /\ incs' = [t \in Trade |-> incs[t] + Cardinality({f \in batch : f[1] = t})]
      BY DEF StartCall
    <3>2. incs'[e[1]] = incs[e[1]] + Cardinality({f \in batch : f[1] = e[1]})
      BY <1>0, <3>1
    <3> QED
      BY <1>0, <2>2, <3>1, <3>2 DEF Tries
  <2>5. entry[e].call_close <= 2 * Tries(e[1]) /\ Tries(e[1]) \in Nat
    BY <1>0, <1>3 DEF Counted, Counts, Tries
  <2> QED
    BY <1>0, <2>1, <2>2, <2>3, <2>4, <2>5 DEF Counts
<1>4. CASE e \notin batch
  BY <1>1, <1>2, <1>4, CountedFrame DEF CountsNoMore
<1> QED
  BY <1>3, <1>4

LEMMA CountedFails ==
    ASSUME TypeInv, TypeInv', OneCall, Counted, [Next]_vars, ~Crash, CallFails, NEW e \in Entry
    PROVE  Counts(e)'
<1>0. /\ entry[e] \in TradeObject /\ entry[e].call_close \in Nat /\ e[1] \in Trade
      /\ db[e[1]].call_close \in Nat /\ incs[e[1]] \in Nat
  BY DEF TypeInv, TypeOK, TradeObject, TradeRecord, Entry
<1>1. PICK c \in calls :
         /\ UNCHANGED <<db, incs>>
         /\ Updated(c.batch, LAMBDA o :
             IF MayRetry(o.call_close)
             THEN [o EXCEPT !.place = IF c.kind = "execute" THEN "active" ELSE "anytime",
                            !.call_close = @ + 1]
             ELSE NoObject)
  BY DEF CallFails
<1>2. CASE e \notin c.batch
  BY <1>1, <1>2, CountedFrame DEF CountsNoMore, Updated
<1>3. CASE e \in c.batch
  <2>1. entry[e].place = "call"
    BY <1>3 DEF OneCall
  <2>2. entry[e].call_close + 1 <= 2 * Tries(e[1])
    BY <2>1 DEF Counted, Counts
  <2>3. Tries(e[1])' = Tries(e[1])
    BY <1>1 DEF Tries
  <2>4. \/ entry'[e] = NoObject
        \/ \E p \in {"active", "anytime"} :
              entry'[e] = [entry[e] EXCEPT !.place = p, !.call_close = @ + 1]
    BY <1>1, <1>3 DEF Updated
  <2>5. CASE entry'[e] = NoObject
    BY <2>5 DEF Counts, NoObject
  <2>6. ASSUME NEW p \in {"active", "anytime"},
               entry'[e] = [entry[e] EXCEPT !.place = p, !.call_close = @ + 1]
        PROVE  Counts(e)'
    <3>1. entry'[e].place = p /\ entry'[e].call_close = entry[e].call_close + 1
      BY <1>0, <2>6 DEF TradeObject
    <3> QED
      BY <1>0, <2>2, <2>3, <3>1 DEF Counts, Tries
  <2> QED
    BY <2>4, <2>5, <2>6
<1> QED
  BY <1>2, <1>3

LEMMA CountedAdded ==
    ASSUME TypeInv, TypeInv', Counted, [Next]_vars, ~Crash, NEW ts, NEW p, NEW opt,
           p # "call", AddFromDb(ts, p, opt), UNCHANGED <<db, incs>>, NEW e \in Entry
    PROVE  Counts(e)'
<1>0. /\ e[1] \in Trade /\ db[e[1]].call_close \in Nat /\ incs[e[1]] \in Nat
  BY DEF TypeInv, TypeOK, TradeRecord, Entry
<1>1. \/ entry'[e] = entry[e]
      \/ entry'[e] = [place |-> p, option |-> opt, closing |-> db[e[1]].closing,
                      call_close |-> db[e[1]].call_close]
  BY DEF AddFromDb
<1>2. CASE entry'[e] = entry[e]
  BY <1>2, CountedFrame DEF CountsNoMore
<1>3. CASE entry'[e] = [place |-> p, option |-> opt, closing |-> db[e[1]].closing,
                        call_close |-> db[e[1]].call_close]
  <2>1. entry'[e].place = p /\ entry'[e].call_close = db[e[1]].call_close
    BY <1>3
  <2>2. Tries(e[1])' = db[e[1]].call_close + incs[e[1]]
    BY DEF Tries
  <2>3. db[e[1]].call_close <= 2 * (db[e[1]].call_close + incs[e[1]])
    BY <1>0
  <2> QED
    BY <2>1, <2>2, <2>3, <1>0 DEF Counts
<1> QED
  BY <1>1, <1>2, <1>3

LEMMA CountedStep ==
    ASSUME TypeInv, TypeInv', OneCall, Counted, [Next]_vars PROVE Counted'
<1>0. /\ \A e \in Entry : entry[e] \in TradeObject
      /\ \A c \in calls : c.batch \subseteq Entry
  BY DEF TypeInv, TypeOK, Call
<1> SUFFICES ASSUME NEW e \in Entry PROVE Counts(e)'
  BY DEF Counted
<1>c. CASE Crash
  BY <1>c DEF Crash, Counts, NoObject
<1>n. CASE ~Crash /\ CountsNoMore(e)
  BY <1>n, CountedFrame
<1>s. ASSUME entry'[e] = entry[e] PROVE CountsNoMore(e)
  BY <1>s DEF CountsNoMore
<1> USE DEF memVars, chainVars, routerVars, bounded
<1>1. CASE ExcuteOptions \/ CloseTradesAnyTime
  <2>1. PICK kind \in {"execute", "close"}, batch \in SUBSET Entry :
           /\ StartCall(kind, batch)
           /\ batch \subseteq At("active") \/ batch \subseteq At("anytime")
    BY <1>1 DEF ExcuteOptions, CloseTradesAnyTime, Batches, At
  <2>2. \A f \in batch : entry[f].place \notin {"none", "call"}
    BY <2>1 DEF At
  <2> QED
    BY <2>1, <2>2, CountedStart
<1>2. CASE CallFails
  <2>1. ~Crash \/ CountsNoMore(e)
    BY DEF Crash, NoObject, CountsNoMore
  <2> QED
    BY <1>2, <1>c, <2>1, CountedFails
<1>3. CASE RouterFind \/ \E kind \in {"opening", "active"} : LoadRead(kind)
  <2>1. CASE RouterFind
    <3>1. PICK ts : AddFromDb(ts, "found", TRUE) /\ UNCHANGED <<db, incs>>
      BY <2>1 DEF RouterFind
    <3> QED
      BY <1>c, <3>1, CountedAdded
  <2>2. ASSUME NEW kind, LoadRead(kind) PROVE Counts(e)'
    <3>1. UNCHANGED <<db, incs>>
      BY <2>2 DEF LoadRead
    <3>2. CASE \E ts : AddFromDb(ts, "opening", FALSE)
      BY <1>c, <3>1, <3>2, CountedAdded
    <3>3. CASE \E ts : AddFromDb(ts, "loading", TRUE)
      BY <1>c, <3>1, <3>3, CountedAdded
    <3> QED
      BY <2>2, <3>2, <3>3 DEF LoadRead
  <2> QED
    BY <1>3, <2>1, <2>2
<1>4. CASE LoseAnyTimeBatch \/ CallResolves
  <2>1. entry'[e] = entry[e] \/ entry'[e] = NoObject
    BY <1>4 DEF LoseAnyTimeBatch, CallResolves, Updated, Dropped
  <2>2. CountsNoMore(e)
    BY <2>1, <1>s DEF CountsNoMore, NoObject
  <2> QED
    BY <2>2, <1>n, <1>c
<1>5. CASE \/ \E t \in Trade : CloseMove(t)
           \/ OpenResolves \/ LoadPush \/ RouterScan \/ RouterPush
  <2>1. CountsNoMore(e)
    <3>1. ASSUME NEW t \in Trade, CloseMove(t) PROVE CountsNoMore(e)
      <4>1. \/ entry'[e] = entry[e]
            \/ /\ entry[e].place = "active"
               /\ entry'[e] = [entry[e] EXCEPT !.place = "anytime", !.closing = TRUE]
        BY <3>1 DEF CloseMove, Updated, At
      <4>2. \A o \in TradeObject :
               /\ [o EXCEPT !.place = "anytime", !.closing = TRUE].place = "anytime"
               /\ [o EXCEPT !.place = "anytime", !.closing = TRUE].call_close = o.call_close
        BY DEF TradeObject
      <4> QED
        BY <1>0, <1>s, <4>1, <4>2 DEF CountsNoMore
    <3>2. ASSUME OpenResolves \/ LoadPush \/ RouterPush PROVE CountsNoMore(e)
      <4>1. \/ entry'[e] = entry[e]
            \/ /\ entry[e].place # "none"
               /\ \E p \in {"active", "anytime"} : entry'[e] = MovedTo(p, entry[e])
        <5>1. CASE OpenResolves
          BY <5>1 DEF OpenResolves, Updated, At
        <5>2. CASE LoadPush
          BY <5>2 DEF LoadPush, Updated, At
        <5>3. CASE RouterPush
          BY <5>3 DEF RouterPush, Updated, At
        <5> QED
          BY <3>2, <5>1, <5>2, <5>3
      <4>2. \A o \in TradeObject, p \in {"active", "anytime"} :
               MovedTo(p, o).place = p /\ MovedTo(p, o).call_close = o.call_close
        BY DEF TradeObject, MovedTo
      <4> QED
        BY <1>0, <1>s, <4>1, <4>2 DEF CountsNoMore
    <3>3. ASSUME RouterScan PROVE CountsNoMore(e)
      <4>1. \/ entry'[e] = entry[e]
            \/ /\ entry[e].place = "active"
               /\ entry'[e] = [entry[e] EXCEPT !.option = TRUE]
        BY <3>3 DEF RouterScan, Told, Updated, At
      <4>2. \A o \in TradeObject :
               /\ [o EXCEPT !.option = TRUE].place = o.place
               /\ [o EXCEPT !.option = TRUE].call_close = o.call_close
        BY DEF TradeObject
      <4> QED
        BY <1>0, <1>s, <4>1, <4>2 DEF CountsNoMore
    <3> QED
      BY <1>5, <3>1, <3>2, <3>3
  <2> QED
    BY <2>1, <1>n, <1>c
<1>6. CASE \/ \E t \in Trade : \/ CloseRead(t) \/ CloseWrite(t) \/ ChainStep(t) \/ LoseTx(t)
                               \/ RecordClose(t) \/ LandInc(t) \/ Tick(t)
           \/ SendCall \/ RouterWrite \/ RouterThrows \/ CursorMoves \/ UNCHANGED vars
  <2>1. UNCHANGED entry
    BY <1>6 DEF CloseRead, CloseWrite, ChainStep, MineOpen, MineClose, LoseTx, RecordClose, LandInc,
                Tick, SendCall, RouterWrite, RouterThrows, CursorMoves, vars
  <2> QED
    BY <2>1, <1>s, <1>n, <1>c
<1> QED
  BY <1>1, <1>2, <1>3, <1>4, <1>5, <1>6, <1>c
     DEF Next, UserStep, JobStep, CallStep, RouterStep, LoadStep

-----------------------------------------------------------------------------
(* Before its opening is recorded a trade has attempts of one kind only *)

QueuedPlaces ==
    \A t \in Trade : db[t].state = "QUEUED" =>
       /\ sent[t] = 0
       /\ \A e \in Objects(t) : entry[e].place \in {"opening", "active"}
       /\ \A i \in 1..Len(log) : log[i] # Failing(t)

LEMMA QueuedPlacesStep ==
    ASSUME Punctual, TypeInv, TypeInv', ChainInv, OneCall, OptionInv, QueuedPlaces, [Next]_vars
    PROVE  QueuedPlaces'
<1>0. /\ \A e \in Entry : entry[e] \in TradeObject
      /\ \A c \in calls : c.batch \subseteq Entry
      /\ log \in Seq(RouterEvent) /\ Len(log) \in Nat
      /\ sent \in [Trade -> Nat]
  BY DEF TypeInv, TypeOK, Call
<1> SUFFICES ASSUME NEW t \in Trade, db'[t].state = "QUEUED"
             PROVE  /\ sent'[t] = 0
                    /\ \A e \in Objects(t)' : entry'[e].place \in {"opening", "active"}
                    /\ \A i \in 1..Len(log') : log'[i] # Failing(t)
  BY DEF QueuedPlaces
<1>1. db[t].state = "QUEUED"
  <2>1. RecordMay(t) \/ UNCHANGED db
    BY StepEffect
  <2> QED
    BY <2>1 DEF RecordMay
<1>2. /\ sent[t] = 0 /\ req[t] = "idle" /\ ~db[t].closing /\ age[t] = 0
      /\ \A e \in Entry : e[1] = t => entry[e].place \in {"none", "opening", "active"}
      /\ \A i \in 1..Len(log) : log[i] # Failing(t)
  BY <1>1 DEF QueuedPlaces, OptionInv, NotClosedYet, Objects
<1> USE DEF memVars, chainVars, routerVars, bounded
<1>3. \A i \in 1..Len(log') : log'[i] # Failing(t)
  <2>1. CASE UNCHANGED log
    BY <1>2, <2>1
  <2>2. ASSUME NEW event, event # Failing(t), log' = Append(log, event)
        PROVE  \A i \in 1..Len(log') : log'[i] # Failing(t)
    <3>1. \A i \in 1..Len(log') : (i \in 1..Len(log) /\ log'[i] = log[i]) \/ log'[i] = event
      BY <1>0, <2>2
    <3> QED
      BY <1>2, <2>2, <3>1
  <2>3. ASSUME NEW u \in Trade, MineOpen(u) PROVE \A i \in 1..Len(log') : log'[i] # Failing(t)
    BY <2>2, <2>3 DEF MineOpen, Opening, Failing
  <2>4. ASSUME NEW u \in Trade, MineClose(u) PROVE \A i \in 1..Len(log') : log'[i] # Failing(t)
    <3>1. u # t
      BY <1>2, <2>4 DEF MineClose
    <3> QED
      BY <2>1, <2>2, <2>4, <3>1 DEF MineClose, Failing
  <2>5. CASE ~\E u \in Trade : MineOpen(u) \/ MineClose(u)
    BY <2>1, <2>5 DEF Next, UserStep, CloseRead, CloseMove, CloseWrite, RecordClose, LandInc, Tick,
              OpenResolves, JobStep, ExcuteOptions, CloseTradesAnyTime, LoseAnyTimeBatch,
              StartCall, CallStep, SendCall, CallResolves, CallFails, RouterStep, RouterScan,
              RouterFind, RouterPush, RouterWrite, RouterThrows, CursorMoves, Crash,
              LoadStep, LoadRead, LoadPush, ChainStep, LoseTx, vars
  <2> QED
    BY <2>3, <2>4, <2>5
<1>4. sent'[t] = 0
  <2>1. ASSUME SendCall PROVE sent'[t] = 0
    <3>1. PICK c \in calls : sent' = [u \in Trade |->
              sent[u] + Cardinality({e \in c.batch : e[1] = u /\ entry[e].option})]
      BY <2>1 DEF SendCall
    <3>2. \A e \in c.batch : e[1] # t
      BY <1>0, <1>2 DEF OneCall
    <3>3. {e \in c.batch : e[1] = t /\ entry[e].option} = {}
      BY <3>2
    <3>4. Cardinality({e \in c.batch : e[1] = t /\ entry[e].option}) = 0
      BY <3>3, FS_EmptySet
    <3> QED
      BY <1>2, <3>1, <3>4
  <2>2. ASSUME NEW u \in Trade, MineClose(u) \/ LoseTx(u) PROVE sent'[t] = 0
    BY <1>0, <1>2, <2>2 DEF MineClose, LoseTx
  <2>3. CASE ~(SendCall \/ \E u \in Trade : MineClose(u) \/ LoseTx(u))
    <3>1. UNCHANGED sent
      BY <2>3 DEF Next, UserStep, CloseRead, CloseMove, CloseWrite, RecordClose, LandInc, Tick,
              OpenResolves, JobStep, ExcuteOptions, CloseTradesAnyTime, LoseAnyTimeBatch,
              StartCall, CallStep, CallResolves, CallFails, RouterStep, RouterScan,
              RouterFind, RouterPush, RouterWrite, RouterThrows, CursorMoves, Crash,
              LoadStep, LoadRead, LoadPush, ChainStep, MineOpen, vars
    <3> QED
      BY <1>2, <3>1
  <2> QED
    BY <2>1, <2>2, <2>3
<1>5. ASSUME NEW e \in Entry, e[1] = t, entry'[e].place # "none"
      PROVE  entry'[e].place \in {"opening", "active"}
  <2> DEFINE Goal == entry'[e].place \in {"opening", "active"}
  <2>0. entry[e] \in TradeObject /\ entry[e].place \in {"none", "opening", "active"}
    BY <1>0, <1>2, <1>5
  <2>s. CASE entry'[e] = entry[e]
    BY <1>5, <2>0, <2>s
  <2>1. ASSUME NEW u \in Trade, CloseMove(u) PROVE Goal
    <3>1. u # t
      BY <1>2, <2>1 DEF CloseMove
    <3>2. entry'[e] = entry[e]
      BY <1>5, <2>1, <3>1 DEF CloseMove, Updated
    <3> QED
      BY <2>s, <3>2
  <2>2. CASE OpenResolves \/ LoadPush
    <3>1. entry'[e] = entry[e] \/ entry'[e] = MovedTo("active", entry[e])
      BY <2>2 DEF OpenResolves, LoadPush, Updated
    <3>2. MovedTo("active", entry[e]).place = "active"
      BY <2>0 DEF MovedTo, TradeObject
    <3> QED
      BY <2>s, <3>1, <3>2
  <2>3. CASE ExcuteOptions
    <3>1. PICK batch \in SUBSET {f \in At("active") : age[f[1]] = 2} : StartCall("execute", batch)
      BY <2>3 DEF ExcuteOptions, Batches
    <3>2. e \notin batch
      BY <1>2, <1>5
    <3>3. entry'[e] = entry[e]
      BY <3>1, <3>2 DEF StartCall, Updated
    <3> QED
      BY <2>s, <3>3
  <2>4. CASE CloseTradesAnyTime
    <3>1. PICK batch \in SUBSET At("anytime") : StartCall("close", batch)
      BY <2>4 DEF CloseTradesAnyTime, Batches
    <3>2. entry'[e] = entry[e]
      BY <2>0, <3>1 DEF StartCall, Updated, At
    <3> QED
      BY <2>s, <3>2
  <2>5. CASE LoseAnyTimeBatch \/ CallResolves \/ Crash
    <3>1. entry'[e] = entry[e] \/ entry'[e] = NoObject
      BY <2>5 DEF LoseAnyTimeBatch, CallResolves, Crash, Updated, Dropped
    <3> QED
      BY <1>5, <2>s, <3>1 DEF NoObject
  <2>6. CASE CallFails
    <3>1. PICK c \in calls : \A f \in Entry : f \notin c.batch => entry'[f] = entry[f]
      BY <2>6 DEF CallFails, Updated
    <3>2. e \notin c.batch
      BY <2>0 DEF OneCall
    <3> QED
      BY <2>s, <3>1, <3>2
  <2>7. CASE RouterScan
    <3>1. entry'[e] = entry[e] \/ entry'[e] = [entry[e] EXCEPT !.option = TRUE]
      BY <2>7 DEF RouterScan, Told, Updated
    <3>2. [entry[e] EXCEPT !.option = TRUE].place = entry[e].place
      BY <2>0 DEF TradeObject
    <3> QED
      BY <1>5, <2>0, <2>s, <3>1, <3>2
  <2>8. CASE RouterFind
    <3>1. entry'[e] = entry[e]
      BY <1>1, <1>5, <2>8 DEF RouterFind, AddFromDb, BringBack
    <3> QED
      BY <2>s, <3>1
  <2>9. CASE RouterPush
    <3>1. entry'[e] = entry[e]
      BY <2>0, <2>9 DEF RouterPush, Updated, At
    <3> QED
      BY <2>s, <3>1
  <2>10. CASE \E kind \in {"opening", "active"} : LoadRead(kind)
    <3>1. \/ entry'[e] = entry[e]
          \/ entry'[e].place = "opening"
      BY <1>1, <1>5, <2>10 DEF LoadRead, AddFromDb, Loadable
    <3> QED
      BY <2>s, <3>1
  <2>11. CASE UNCHANGED entry
    BY <2>s, <2>11
  <2>12. CASE \/ \E u \in Trade : \/ CloseRead(u) \/ CloseWrite(u) \/ ChainStep(u) \/ LoseTx(u)
                                \/ RecordClose(u) \/ LandInc(u) \/ Tick(u)
              \/ SendCall \/ RouterWrite \/ RouterThrows \/ CursorMoves \/ UNCHANGED vars
    <3>1. UNCHANGED entry
      BY <2>12 DEF CloseRead, CloseWrite, RecordClose, LandInc, Tick, SendCall, RouterWrite,
                RouterThrows, CursorMoves, ChainStep, MineOpen, MineClose, LoseTx, vars
    <3> QED
      BY <2>11, <3>1
  <2> QED
    BY <2>1, <2>2, <2>3, <2>4, <2>5, <2>6, <2>7, <2>8, <2>9, <2>10, <2>12
       DEF Next, UserStep, JobStep, CallStep, RouterStep, LoadStep
<1> QED
  BY <1>3, <1>4, <1>5 DEF Objects

-----------------------------------------------------------------------------
(* An attempt is always there *)

\* What keeps an open trade from being forgotten.
Tried(t) == Here(t) # {} \/ sent[t] > 0 \/ Unread(t) # {}
Held ==
    \A t \in Trade :
       /\ chain[t] = "sent" => Objects(t) # {}
       /\ chain[t] = "open" /\ t \notin Done => Tried(t)

LEMMA FreeCopy ==
    ASSUME NEW t \in Trade, NEW ts, t \in ts, HasRoom(ts)
    PROVE  \E e \in Entry : /\ e[1] = t /\ entry[e].place = "none"
                            /\ \A k \in 1..e[2] - 1 : entry[<<t, k>>].place # "none"
<1> DEFINE Free == {k \in 1..MaxCopies : entry[<<t, k>>].place = "none"}
           Less == {p \in Nat \X Nat : p[1] < p[2]}
<1>0. MaxCopies \in Nat
  BY CloseTradeAssumption
<1>1. Free \subseteq Nat /\ Free # {}
  BY DEF HasRoom
<1>2. PICK m \in Free : \A k \in Free : ~(<<k, m>> \in Less)
  <2>1. IsWellFoundedOn(Less, Nat)
    BY NatLessThanWellFounded DEF OpToRel
  <2> QED
    BY <1>1, <2>1, WFMin, Zenon
<1>3. \A k \in 1..m - 1 : entry[<<t, k>>].place # "none"
  <2> SUFFICES ASSUME NEW k \in 1..m - 1, entry[<<t, k>>].place = "none" PROVE FALSE
    OBVIOUS
  <2>1. m \in 1..MaxCopies /\ k \in 1..MaxCopies /\ k \in Nat /\ m \in Nat /\ k < m
    BY <1>0
  <2>2. k \in Free /\ <<k, m>> \in Less
    BY <2>1
  <2> QED
    BY <1>2, <2>2
<1>4. <<t, m>> \in Entry /\ <<t, m>>[1] = t /\ <<t, m>>[2] = m
  BY DEF Entry
<1> QED
  BY <1>2, <1>3, <1>4

\* The steps that leave the objects of a trade where an attempt can be seen.
LEMMA HereStays ==
    ASSUME TypeInv, OneCall,
           \/ Quiet \/ CallResolves \/ RouterFind \/ \E kind \in {"opening", "active"} : LoadRead(kind),
           NEW t \in Trade
    PROVE  Here(t) \subseteq Here(t)'
<1>1. CASE Quiet
  BY <1>1, QuietHere
<1>2. CASE CallResolves
  <2>1. PICK c \in calls : c.sent /\ calls' = calls \ {c} /\ Updated(c.batch, Dropped)
    BY <1>2 DEF CallResolves
  <2>2. Away' \subseteq Away /\ c.batch \subseteq Away
    BY <2>1 DEF Away
  <2> QED
    BY <2>1, <2>2 DEF Here, Objects, Updated
<1>3. CASE RouterFind \/ \E kind \in {"opening", "active"} : LoadRead(kind)
  <2>1. UNCHANGED calls /\ \E ts, p, opt : AddFromDb(ts, p, opt)
    <3>1. CASE RouterFind
      BY <3>1 DEF RouterFind
    <3>2. ASSUME NEW kind, LoadRead(kind) PROVE UNCHANGED calls /\ \E ts, p, opt : AddFromDb(ts, p, opt)
      <4>1. UNCHANGED calls
        BY <3>2 DEF LoadRead
      <4>2. \/ \E ts : AddFromDb(ts, "opening", FALSE)
            \/ \E ts : AddFromDb(ts, "loading", TRUE)
        BY <3>2 DEF LoadRead
      <4> QED
        BY <4>1, <4>2
    <3> QED
      BY <1>3, <3>1, <3>2
  <2>2. Away' = Away
    BY <2>1 DEF Away
  <2>3. \A e \in Entry : entry[e].place = "none" \/ entry'[e] = entry[e]
    BY <2>1, AddFromDbPlaces
  <2> QED
    BY <2>2, <2>3 DEF Here, Objects
<1> QED
  BY <1>1, <1>2, <1>3

\* An object that is not in a call stays.
LEMMA WaitingStays ==
    ASSUME TypeInv, OneCall, [Next]_vars, ~LoseAnyTimeBatch, ~Crash,
           NEW e \in Entry, entry[e].place \notin {"none", "call"}
    PROVE  entry'[e].place # "none"
<1>0. /\ \A c \in calls : c.batch \subseteq Entry
      /\ \A c \in calls : e \notin c.batch
  BY DEF TypeInv, TypeOK, Call, OneCall
<1>1. CASE Quiet
  BY <1>1, QuietPlaces
<1>2. CASE CallStep
  BY <1>0, <1>2 DEF CallStep, SendCall, CallResolves, CallFails, Updated
<1>3. CASE RouterFind \/ \E kind \in {"opening", "active"} : LoadRead(kind)
  <2>1. ASSUME NEW ts, NEW p, NEW opt, AddFromDb(ts, p, opt) PROVE entry'[e].place # "none"
    BY <2>1, AddFromDbPlaces
  <2> QED
    BY <1>3, <2>1 DEF RouterFind, LoadRead
<1> QED
  BY <1>1, <1>2, <1>3 DEF Next, JobStep, RouterStep, LoadStep, Quiet

\* A call that fails drops only an object of a trade that was attempted often enough.
LEMMA FailsTried ==
    ASSUME TypeInv, TypeInv', OneCall, Counted, CallFails, [Next]_vars, ~Crash,
           NEW t \in Trade, t \notin Done', Here(t) # {}
    PROVE  Here(t)' # {}
<1>0. /\ \A e \in Entry : entry[e] \in TradeObject
      /\ \A c \in calls : c.batch \subseteq Entry
      /\ db[t].call_close \in Nat /\ incs[t] \in Nat /\ MaximumRetry \in Nat
  BY CloseTradeAssumption DEF TypeInv, TypeOK, Call, TradeRecord
<1>1. PICK c \in calls :
         /\ calls' = calls \ {c}
         /\ UNCHANGED <<db, incs>>
         /\ Updated(c.batch, LAMBDA o :
             IF MayRetry(o.call_close)
             THEN [o EXCEPT !.place = IF c.kind = "execute" THEN "active" ELSE "anytime",
                            !.call_close = @ + 1]
             ELSE NoObject)
  BY DEF CallFails
<1>2. PICK e \in Entry : e[1] = t /\ entry[e].place # "none" /\ e \notin Away
  BY DEF Here, Objects
<1>3. e \notin Away'
  BY <1>1, <1>2 DEF Away
<1>4. entry'[e].place # "none"
  <2>1. CASE e \notin c.batch
    BY <1>1, <1>2, <2>1 DEF Updated
  <2>2. CASE e \in c.batch
    <3>1. entry[e].place = "call"
      BY <2>2 DEF OneCall
    <3>2. entry[e].call_close + 1 <= 2 * (db[t].call_close + incs[t])
      BY <1>2, <3>1 DEF Counted, Counts, Tries
    <3>3. 2 * (db[t].call_close + incs[t]) < MaximumRetry + 2
      BY <1>0, <1>1 DEF Done
    <3>4. MayRetry(entry[e].call_close)
      <4>1. entry[e].call_close \in Nat
        BY <1>0 DEF TradeObject
      <4> QED
        BY <1>0, <3>2, <3>3, <4>1 DEF MayRetry
    <3>5. entry'[e] = [entry[e] EXCEPT !.place = IF c.kind = "execute" THEN "active" ELSE "anytime",
                                       !.call_close = @ + 1]
      BY <1>1, <2>2, <3>4 DEF Updated
    <3>6. \A o \in TradeObject, p \in {"active", "anytime"} :
             [o EXCEPT !.place = p, !.call_close = @ + 1].place = p
      BY DEF TradeObject
    <3> QED
      BY <1>0, <3>5, <3>6
  <2> QED
    BY <2>1, <2>2
<1> QED
  BY <1>2, <1>3, <1>4 DEF Here, Objects

\* What is sent with its option waits to be mined.
LEMMA SendTried ==
    ASSUME TypeInv, OneCall, OptionInv, SendCall, NEW t \in Trade, Here(t) # {}
    PROVE  Here(t)' # {} \/ sent'[t] > 0
<1>0. /\ \A c \in calls : c.batch \subseteq Entry
      /\ sent[t] \in Nat
  BY DEF TypeInv, TypeOK, Call
<1>1. PICK c \in calls :
         /\ calls' = (calls \ {c}) \cup {[c EXCEPT !.sent = TRUE]}
         /\ sent' = [u \in Trade |->
               sent[u] + Cardinality({e \in c.batch : e[1] = u /\ entry[e].option})]
         /\ UNCHANGED entry
  BY DEF SendCall
<1>2. PICK e \in Entry : e[1] = t /\ entry[e].place # "none" /\ e \notin Away
  BY DEF Here, Objects
<1>3. CASE e \in c.batch
  <2>1. entry[e].option
    <3>1. entry[e].place = "call"
      BY <1>3 DEF OneCall
    <3>2. Knows(e)
      BY DEF OptionInv, WhereUnknown
    <3> QED
      BY <3>1, <3>2 DEF Knows
  <2> DEFINE told == {f \in c.batch : f[1] = t /\ entry[f].option}
  <2>2. sent'[t] = sent[t] + Cardinality(told) /\ e \in told
    BY <1>1, <1>2, <1>3, <2>1
  <2>3. IsFiniteSet(told)
    <3>1. told \subseteq {f \in Entry : f[1] = t}
      BY <1>0
    <3> QED
      BY ZenonT(60), <3>1, OwnFinite, FS_Subset
  <2> HIDE DEF told
  <2>4. Cardinality(told) \in Nat /\ Cardinality(told) # 0
    BY <2>2, <2>3, FS_CardinalityType, FS_EmptySet
  <2> QED
    BY <1>0, <2>2, <2>4
<1>4. CASE e \notin c.batch
  <2>1. [c EXCEPT !.sent = TRUE].batch = c.batch
    BY DEF TypeInv, TypeOK, Call
  <2>2. e \notin Away'
    BY <1>1, <1>2, <1>4, <2>1 DEF Away
  <2> QED
    BY <1>1, <1>2, <2>2 DEF Here, Objects
<1> QED
  BY <1>3, <1>4

\* A pass that reads the event of a trade brings it back.
LEMMA FindTried ==
    ASSUME TypeInv, TypeInv', OneCall, CaughtUp, QueuedPlaces, RouterFind,
           NEW t \in Trade, t \notin Done', Tried(t)
    PROVE  Tried(t)'
<1>0. /\ db[t].call_close \in Nat /\ incs[t] \in Nat /\ MaximumRetry \in Nat
      /\ scan.from \in Nat \ {0} /\ scan.to \in 0..Len(log) /\ Len(log) \in Nat
  BY SMTT(30), CloseTradeAssumption DEF TypeInv, TypeOK, TradeRecord
<1>1. /\ AddFromDb({u \in Fails(scan) : BringBack(db[u])}, "found", TRUE)
      /\ UNCHANGED <<db, incs, calls, sent>>
  BY DEF RouterFind, chainVars
<1>2. Here(t) \subseteq Here(t)'
  BY HereStays
<1>3. CASE t \notin Fails(scan)
  <2>1. Unread(t)' = Unread(t)
    BY <1>3, UnreadRouter DEF RouterStep
  <2> QED
    BY <1>1, <1>2, <2>1 DEF Tried
<1>4. CASE t \in Fails(scan)
  <2>1. BringBack(db[t])
    <3>1. db[t].state # "QUEUED"
      <4>1. PICK i \in scan.from..scan.to : log[i] = Failing(t)
        BY <1>4 DEF Fails
      <4>2. i \in 1..Len(log)
        BY <1>0
      <4> QED
        BY <4>1, <4>2 DEF QueuedPlaces
    <3>2. 2 * (db[t].call_close + incs[t]) < MaximumRetry + 2
      BY <1>0, <1>1 DEF Done
    <3> QED
      BY <1>0, <3>1, <3>2 DEF BringBack
  <2> DEFINE ts == {u \in Fails(scan) : BringBack(db[u])}
  <2>2. t \in ts /\ AddFromDb(ts, "found", TRUE)
    BY <1>1, <1>4, <2>1
  <2> HIDE DEF ts
  <2>3. PICK e \in Entry : /\ e[1] = t /\ entry[e].place = "none"
                           /\ \A k \in 1..e[2] - 1 : entry[<<t, k>>].place # "none"
    BY <2>2, FreeCopy DEF AddFromDb
  <2>4. entry'[e].place = "found"
    BY <2>2, <2>3 DEF AddFromDb
  <2>5. e \notin Away'
    BY <1>1, <2>3 DEF Away, OneCall
  <2> QED
    BY <2>3, <2>4, <2>5 DEF Tried, Here, Objects
<1> QED
  BY <1>3, <1>4

\* The chain moves what waits to be mined on to the events.
LEMMA ChainTried ==
    ASSUME TypeInv, NEW u \in Trade, ChainStep(u), NEW t \in Trade, chain'[t] = "open", Tried(t)
    PROVE  Tried(t)'
<1>1. Here(t)' = Here(t)
  BY QuietHere DEF Quiet
<1>2. UNCHANGED <<synced, scan>> /\ sent[t] \in Nat /\ chain \in [Trade -> {"sent", "open", "closed"}]
  BY DEF ChainStep, MineOpen, MineClose, routerVars, TypeInv, TypeOK
<1>3. CASE MineOpen(u)
  <2>1. Opening(u) # Failing(t)
    BY DEF Opening, Failing
  <2>2. Unread(t)' = Unread(t)
    BY <1>2, <1>3, <2>1, UnreadAppended DEF MineOpen
  <2>3. UNCHANGED sent
    BY <1>3 DEF MineOpen
  <2> QED
    BY <1>1, <2>2, <2>3 DEF Tried
<1>4. CASE MineClose(u) /\ t # u
  <2>1. sent'[t] = sent[t]
    BY <1>2, <1>4 DEF MineClose, TypeInv, TypeOK
  <2>2. Unread(t)' = Unread(t)
    <3>1. CASE UNCHANGED log
      BY <1>2, <3>1, UnreadSame
    <3>2. CASE log' = Append(log, Failing(u))
      <4>1. Failing(u) # Failing(t)
        BY <1>4 DEF Failing
      <4> QED
        BY <1>2, <3>2, <4>1, UnreadAppended
    <3> QED
      BY <1>4, <3>1, <3>2 DEF MineClose
  <2> QED
    BY <1>1, <2>1, <2>2 DEF Tried
<1>5. CASE MineClose(u) /\ t = u
  <2>1. log' = Append(log, Failing(t))
    BY <1>2, <1>5 DEF MineClose
  <2>2. Len(log) + 1 \in Unread(t)'
    BY <1>2, <2>1, UnreadAppended
  <2> QED
    BY <2>2 DEF Tried
<1> QED
  BY <1>3, <1>4, <1>5 DEF ChainStep

LEMMA TriedStep ==
    ASSUME TypeInv, TypeInv', OneCall, OptionInv, CaughtUp, QueuedPlaces, Counted, [Next]_vars,
           faults' = faults, ~Crash,
           NEW t \in Trade, chain'[t] = "open", t \notin Done', Tried(t)
    PROVE  Tried(t)'
<1> USE DEF memVars, chainVars, routerVars, bounded
<1>f. \A kind : ~Fault(kind)
  <2>1. faults \in Nat
    BY CloseTradeAssumption DEF TypeInv, TypeOK
  <2> QED
    BY <2>1 DEF Fault
<1>1. CASE \E u \in Trade : ChainStep(u)
  BY <1>1, ChainTried
<1>2. CASE SendCall
  <2>1. Unread(t)' = Unread(t)
    BY <1>2, UnreadSame DEF SendCall
  <2>2. sent[t] > 0 => sent'[t] > 0
    <3>1. PICK c \in calls : sent' = [u \in Trade |->
               sent[u] + Cardinality({e \in c.batch : e[1] = u /\ entry[e].option})]
      BY <1>2 DEF SendCall
    <3>a. c.batch \subseteq Entry
      BY DEF TypeInv, TypeOK, Call
    <3>2. {e \in c.batch : e[1] = t /\ entry[e].option} \subseteq {e \in Entry : e[1] = t}
      BY <3>a
    <3>b. IsFiniteSet({e \in Entry : e[1] = t})
      BY OwnFinite
    <3>3. Cardinality({e \in c.batch : e[1] = t /\ entry[e].option}) \in Nat
      BY <3>2, <3>b, FS_Subset, FS_CardinalityType
    <3>4. sent[t] \in Nat
      BY DEF TypeInv, TypeOK
    <3> QED
      BY <3>1, <3>3, <3>4
  <2> QED
    BY <1>2, <2>1, <2>2, SendTried DEF Tried
<1>3. CASE CallFails
  <2>1. Unread(t)' = Unread(t) /\ UNCHANGED sent
    BY <1>3, UnreadSame DEF CallFails
  <2> QED
    BY <1>3, <2>1, FailsTried DEF Tried
<1>4. CASE RouterFind
  BY <1>4, FindTried
<1>5. CASE RouterScan \/ RouterPush \/ RouterWrite \/ CursorMoves
  <2>1. Here(t) \subseteq Here(t)'
    BY <1>5, HereStays DEF Quiet
  <2>2. ~RouterFind /\ ~RouterThrows
    <3>1. ~RouterThrows
      BY <1>f DEF RouterThrows
    <3>2. ~RouterFind
      <4>1. Idle.pc = "idle" /\ (RouterFind => scan.pc = "find" /\ scan'.pc = "push" /\ scan'.to = scan.to)
        BY DEF Idle, RouterFind, TypeInv, TypeOK
      <4>2. RouterScan => scan = Idle
        BY DEF RouterScan
      <4> QED
        BY <1>5, <4>1, <4>2 DEF RouterPush, RouterWrite, CursorMoves
    <3> QED
      BY <3>1, <3>2
  <2>3. Unread(t)' = Unread(t)
    BY <1>5, <2>2, UnreadRouter DEF RouterStep
  <2>4. UNCHANGED sent
    BY <1>5 DEF RouterScan, RouterPush, RouterWrite, CursorMoves
  <2> QED
    BY <2>1, <2>3, <2>4 DEF Tried
<1>6. CASE \/ \E u \in Trade : UserStep(u) \/ RecordClose(u) \/ LandInc(u) \/ Tick(u)
           \/ OpenResolves \/ ExcuteOptions \/ CloseTradesAnyTime \/ LoadPush \/ CallResolves
           \/ \E kind \in {"opening", "active"} : LoadRead(kind)
           \/ UNCHANGED vars
  <2>1. Here(t) \subseteq Here(t)'
    BY <1>6, HereStays DEF Quiet
  <2>2. UNCHANGED <<sent, log, synced, scan>>
    BY <1>6 DEF UserStep, CloseRead, CloseMove, CloseWrite, RecordClose, LandInc, Tick, OpenResolves,
                ExcuteOptions, CloseTradesAnyTime, StartCall, LoadPush, LoadRead, CallResolves, vars
  <2>3. Unread(t)' = Unread(t)
    BY <2>2, UnreadSame
  <2> QED
    BY <2>1, <2>2, <2>3 DEF Tried
<1>7. ~LoseAnyTimeBatch /\ ~RouterThrows /\ ~\E u \in Trade : LoseTx(u)
  BY <1>f DEF LoseAnyTimeBatch, RouterThrows, LoseTx
<1> QED
  BY <1>1, <1>2, <1>3, <1>4, <1>5, <1>6, <1>7 DEF Next, JobStep, CallStep, RouterStep, LoadStep

LEMMA HeldStep ==
    ASSUME TypeInv, TypeInv', OneCall, ChainInv, OptionInv, CaughtUp, QueuedPlaces,
           Counted, Held, [Next]_vars, faults' = faults, ~Crash
    PROVE  Held'
<1> SUFFICES ASSUME NEW t \in Trade
             PROVE  /\ chain'[t] = "sent" => Objects(t)' # {}
                    /\ chain'[t] = "open" /\ t \notin Done' => Tried(t)'
  BY DEF Held
<1>0. /\ chain \in [Trade -> {"sent", "open", "closed"}]
      /\ db[t].call_close \in Nat /\ incs[t] \in Nat /\ MaximumRetry \in Nat
      /\ db'[t].call_close \in Nat /\ incs'[t] \in Nat
  BY CloseTradeAssumption DEF TypeInv, TypeOK, TradeRecord
<1>f. ~LoseAnyTimeBatch
  <2>1. faults \in Nat
    BY CloseTradeAssumption DEF TypeInv, TypeOK
  <2> QED
    BY <2>1 DEF LoseAnyTimeBatch, Fault
<1>1. /\ chain'[t] = "sent" => chain[t] = "sent"
      /\ chain'[t] = "open" => chain[t] \in {"sent", "open"}
      /\ chain[t] = "sent" /\ chain'[t] = "open" => UNCHANGED db
  BY <1>0, StepEffect
<1>2. chain[t] = "sent" => \E e \in Entry : e[1] = t /\ entry[e].place \in {"opening", "active"}
  BY DEF Held, ChainInv, Unopened, QueuedPlaces, Objects
<1>3. chain'[t] = "sent" => Objects(t)' # {}
  BY <1>1, <1>2, <1>f, WaitingStays DEF Objects
<1>4. ASSUME chain'[t] = "open", t \notin Done' PROVE Tried(t)'
  <2>1. CASE chain[t] = "open"
    <3>1. t \notin Done
      <4>1. Tries(t)' >= Tries(t)
        BY TriesStep
      <4> QED
        BY <1>0, <1>4, <2>1, <4>1 DEF Done, Tries
    <3>2. Tried(t)
      BY <2>1, <3>1 DEF Held
    <3> QED
      BY <1>4, <3>2, TriedStep
  <2>2. CASE chain[t] = "sent"
    <3>1. PICK e \in Entry : e[1] = t /\ entry[e].place \in {"opening", "active"}
      BY <1>2, <2>2
    <3>2. e \in Here(t)
      BY <3>1 DEF Here, Objects, Away, OneCall
    <3>3. Tried(t)
      BY <3>2 DEF Tried
    <3> QED
      BY <1>4, <3>3, TriedStep
  <2> QED
    BY <1>1, <1>4, <2>1, <2>2
<1> QED
  BY <1>3, <1>4

\* No open trade is forgotten, however many trades, objects, retries and FailUnlock events
\* there are: when the router job keeps its pace and nothing fails, it has an object or a
\* closing that waits to be mined, or an event that will bring it back, until it was attempted
\* more than half of maximumRetry times.
THEOREM NoTradeForgottenHolds == Spec => []NoTradeForgotten
<1> DEFINE Safe == faults = 0 /\ crashes = 0
           Inv == CaughtUp /\ Counted /\ OptionInv /\ QueuedPlaces /\ (Safe => Held)
<1>1. CASE ~Punctual
  <2>1. NoTradeForgotten
    BY <1>1 DEF NoTradeForgotten
  <2> QED
    BY <2>1, PTL
<1>2. CASE Punctual
  <2>1. Init => Inv
    <3> SUFFICES ASSUME Init PROVE Inv
      OBVIOUS
    <3>1. CaughtUp /\ OptionInv
      BY OptionInit DEF Init, CaughtUp, Idle
    <3>2. \A e \in Entry : /\ entry[e].place \in {"none", "opening"} /\ entry[e].call_close = 0
                           /\ e[2] = 1 => entry[e].place = "opening"
      BY DEF Init, NoObject, MovedTo
    <3>3. Counted
      BY <3>2 DEF Init, Counted, Counts, Tries, Entry
    <3>4. QueuedPlaces
      BY <3>2 DEF Init, QueuedPlaces, Objects
    <3>5. Held
      <4>1. MaxCopies \in Nat \ {0}
        BY CloseTradeAssumption
      <4>2. ASSUME NEW t \in Trade PROVE <<t, 1>> \in Entry /\ <<t, 1>>[1] = t /\ <<t, 1>>[2] = 1
        BY <4>1 DEF Entry
      <4> QED
        BY <3>2, <4>2 DEF Init, Held, Objects
    <3> QED
      BY <3>1, <3>3, <3>4, <3>5
  <2>2. TypeInv /\ TypeInv' /\ OneCall /\ ChainInv /\ Inv /\ [Next]_vars => Inv'
    <3> SUFFICES ASSUME TypeInv, TypeInv', OneCall, ChainInv, Inv, [Next]_vars PROVE Inv'
      OBVIOUS
    <3>1. CaughtUp' /\ Counted' /\ OptionInv' /\ QueuedPlaces'
      BY <1>2, CaughtUpStep, CountedStep, OptionStep, QueuedPlacesStep
    <3>2. ASSUME Safe' PROVE Held'
      <4>1. /\ faults' = faults \/ faults' = faults + 1
            /\ crashes' = crashes \/ crashes' = crashes + 1
            /\ Crash => crashes' = crashes + 1
        BY DEF Next, UserStep, CloseRead, CloseMove, CloseWrite, RecordClose, LandInc, Tick,
               OpenResolves, JobStep, ExcuteOptions, CloseTradesAnyTime, LoseAnyTimeBatch,
               StartCall, CallStep, SendCall, CallResolves, CallFails, RouterStep, RouterScan,
               RouterFind, RouterPush, RouterWrite, RouterThrows, CursorMoves, Crash,
               LoadStep, LoadRead, LoadPush, ChainStep, MineOpen, MineClose, LoseTx, vars,
               memVars, chainVars, routerVars, bounded, Fault
      <4>2. faults \in Nat /\ crashes \in Nat
        BY CloseTradeAssumption DEF TypeInv, TypeOK
      <4>3. faults' = faults /\ crashes' = crashes /\ ~Crash /\ Safe
        BY <3>2, <4>1, <4>2
      <4> QED
        BY <4>3, HeldStep
    <3> QED
      BY <3>1, <3>2
  <2>3. Inv => NoTradeForgotten
    BY DEF NoTradeForgotten, Held, Tried, Here
  <2> HIDE DEF Inv
  <2> QED
    BY <2>1, <2>2, <2>3, TypeInvHolds, OneCallHolds, ChainInvHolds, PTL DEF Spec
<1> QED
  BY <1>1, <1>2
=============================================================================
