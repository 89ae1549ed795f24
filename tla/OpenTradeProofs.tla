-------------------------- MODULE OpenTradeProofs --------------------------
(* What OpenTrade guarantees for any number of trades, retries and crashes. *)
EXTENDS OpenTrade, TLAPS

-----------------------------------------------------------------------------
(* What the values the actions write look like *)

\* A CANCELLED update, and each write that contains one, keeps a record a record.
LEMMA WritesTyped ==
    ASSUME NEW r \in TradeRecord
    PROVE  /\ \A why \in Reason : Cancelled(r, why) \in TradeRecord
           /\ Expire(r) \in TradeRecord
           /\ \A event : Record(r, event) \in TradeRecord
           /\ \A n \in Nat : [r EXCEPT !.call_open = n] \in TradeRecord
           /\ \A d \in 0..MaxDuration : [r EXCEPT !.limitOrderDuration = d] \in TradeRecord
  BY DEF TradeRecord, Cancelled, Expire, Record, State, Reason

\* The constants the state is built from are of their types.
LEMMA ValuesTyped ==
    /\ NoTrade \in TradeRecord
    /\ NoObject \in TradeObject
    /\ NoReq \in Request
    /\ \A p \in Place, n \in Nat : [place |-> p, call_open |-> n] \in TradeObject
    /\ \A o \in TradeObject, p \in Place : [o EXCEPT !.place = p] \in TradeObject
    /\ \A o \in TradeObject : o.place \in Place /\ o.call_open \in Nat
    /\ \A t \in Trade : <<t, "created">> \in Entry /\ <<t, "loaded">> \in Entry
    /\ \A e \in Entry : e[1] \in Trade /\ e[2] \in Origin
  BY OpenTradeAssumption
     DEF NoTrade, NoObject, NoReq, TradeRecord, TradeObject, Request, State, Reason, Place,
         Entry, Origin

\* What a request becomes.
LEMMA RequestsTyped ==
    /\ NoReq \in Request
    /\ \A q \in Request :
          /\ [q EXCEPT !.op = "cancelRead"] \in Request
          /\ [q EXCEPT !.op = "cancelWrite"] \in Request
          /\ [q EXCEPT !.op = "updateRead"] \in Request
    /\ \A d \in 0..MaxDuration : [op |-> "updateWrite", duration |-> d] \in Request
  BY OpenTradeAssumption DEF NoReq, Request

-----------------------------------------------------------------------------
\* The state of the model is well formed in every reachable state.
THEOREM TypeCorrect == Spec => []TypeOK
<1>1. Init => TypeOK
  <2> SUFFICES ASSUME Init PROVE TypeOK
    OBVIOUS
  <2>1. scan \in [from: Nat \ {0}, to: 0..Len(log)] /\ log \in Seq(RouterEvent)
    BY DEF Init, Idle
  <2> QED
    BY <2>1, ValuesTyped, OpenTradeAssumption DEF Init, TypeOK
<1>2. TypeOK /\ [Next]_vars => TypeOK'
  <2> SUFFICES ASSUME TypeOK, [Next]_vars PROVE TypeOK'
    OBVIOUS
  <2> USE OpenTradeAssumption DEF memVars, chainVars
  <2>0. /\ db \in [Trade -> TradeRecord]
        /\ entry \in [Entry -> TradeObject]
        /\ \A t \in Trade : db[t] \in TradeRecord
        /\ \A e \in Entry : entry[e] \in TradeObject
    BY DEF TypeOK
  <2>1. ASSUME NEW t \in Trade, CreateTrade(t) PROVE TypeOK'
    <3>1. \A isLimit \in BOOLEAN, d \in 0..MaxDuration :
             [NoTrade EXCEPT !.state = "QUEUED", !.isLimitOrder = isLimit,
                             !.limitOrderDuration = d] \in TradeRecord
      BY DEF TradeRecord, State, Reason, NoTrade
    <3>2. db' \in [Trade -> TradeRecord]
      <4>1. \E r \in TradeRecord : db' = [db EXCEPT ![t] = r]
        BY <2>1, <3>1 DEF CreateTrade
      <4> QED
        BY <2>0, <4>1
    <3>3. entry' \in [Entry -> TradeObject]
      BY <2>0, <2>1, ValuesTyped DEF CreateTrade, Place
    <3> QED
      BY <2>1, <3>2, <3>3 DEF CreateTrade, TypeOK
  <2>2. ASSUME NEW t \in Trade, CreatePush(t) PROVE TypeOK'
    <3>1. entry' \in [Entry -> TradeObject]
      BY <2>0, <2>2, ValuesTyped DEF CreatePush, Place
    <3> QED
      BY <2>2, <3>1 DEF CreatePush, TypeOK
  <2>3. ASSUME NEW t \in Trade,
               RequestRead(t) \/ RequestWriteFails(t) \/ UpdateApply(t)
        PROVE TypeOK'
    <3>1. req' \in [Trade -> Request]
      <4>1. req \in [Trade -> Request] /\ req[t] \in Request
        BY DEF TypeOK
      <4>2. \E q \in Request : req' = [req EXCEPT ![t] = q]
        <5>1. CASE RequestRead(t)
          BY <4>1, <5>1, RequestsTyped DEF RequestRead
        <5>2. CASE RequestWriteFails(t)
          BY <5>2, RequestsTyped DEF RequestWriteFails
        <5>3. CASE UpdateApply(t)
          BY <5>3, RequestsTyped DEF UpdateApply
        <5> QED
          BY <2>3, <5>1, <5>2, <5>3
      <4> QED
        BY <4>1, <4>2
    <3> QED
      BY <2>3, <3>1 DEF RequestRead, RequestWriteFails, UpdateApply, TypeOK
  <2>5. ASSUME NEW t \in Trade, CancelApply(t) PROVE TypeOK'
    <3>1. req' \in [Trade -> Request]
      <4>1. req \in [Trade -> Request] /\ req[t] \in Request
        BY DEF TypeOK
      <4>2. \/ req' = [req EXCEPT ![t] = NoReq]
            \/ req' = [req EXCEPT ![t].op = "cancelWrite"]
        BY <2>5 DEF CancelApply
      <4> QED
        BY <4>1, <4>2, RequestsTyped
    <3>2. entry' \in [Entry -> TradeObject]
      BY <2>0, <2>5, ValuesTyped DEF CancelApply
    <3> QED
      BY <2>5, <3>1, <3>2 DEF CancelApply, TypeOK
  <2>6. ASSUME NEW t \in Trade, CancelWrite(t) \/ UpdateWrite(t) PROVE TypeOK'
    <3>1. req' \in [Trade -> Request]
      BY ZenonT(60), <2>6, ValuesTyped DEF TypeOK, CancelWrite, UpdateWrite
    <3>2. req[t].duration \in 0..MaxDuration
      BY DEF TypeOK, Request
    <3>3. db' \in [Trade -> TradeRecord]
      BY <2>0, <2>6, <3>2, WritesTyped DEF CancelWrite, UpdateWrite, Reason
    <3> QED
      BY <2>6, <3>1, <3>3 DEF CancelWrite, UpdateWrite, TypeOK
  <2>9. ASSUME CronRead PROVE TypeOK'
    BY <2>9 DEF CronRead, TypeOK
  <2>10. ASSUME CronApply PROVE TypeOK'
    <3>1. entry' \in [Entry -> TradeObject]
      BY <2>0, <2>10, ValuesTyped DEF CronApply
    <3>2. cancels' \in [Trade -> SUBSET {"expired", "busy"}]
      BY <2>10 DEF CronApply, TypeOK
    <3> QED
      BY <2>10, <3>1, <3>2 DEF CronApply, TypeOK
  <2>11. ASSUME NEW t \in Trade, LandStep(t) PROVE TypeOK'
    <3>1. db' \in [Trade -> TradeRecord]
      <4>1. db[t].call_open + 1 \in Nat
        BY <2>0 DEF TradeRecord
      <4> QED
        BY <2>0, <2>11, <4>1, WritesTyped
           DEF LandStep, LandInc, LandExpired, LandBusy, Reason
    <3>2. cancels' \in [Trade -> SUBSET {"expired", "busy"}]
      <4>1. cancels \in [Trade -> SUBSET {"expired", "busy"}]
        BY DEF TypeOK
      <4>2. \A why : cancels[t] \ {why} \in SUBSET {"expired", "busy"}
        BY <4>1
      <4> QED
        BY <2>11, <4>1, <4>2 DEF LandStep, LandInc, LandExpired, LandBusy
    <3>3. incs' \in [Trade -> Nat]
      <4>1. incs \in [Trade -> Nat] /\ (incs[t] > 0 => incs[t] - 1 \in Nat)
        BY DEF TypeOK
      <4> QED
        BY <2>11, <4>1 DEF LandStep, LandInc, LandExpired, LandBusy
    <3> QED
      BY <2>11, <3>1, <3>2, <3>3 DEF LandStep, LandInc, LandExpired, LandBusy, TypeOK
  <2>14. ASSUME NEW batch \in SUBSET Entry, StartCall(batch) PROVE TypeOK'
    <3>1. entry' \in [Entry -> TradeObject]
      <4>1. ASSUME NEW e \in Entry
            PROVE  [place |-> "call", call_open |-> entry[e].call_open + 1] \in TradeObject
        <5>1. entry[e].call_open + 1 \in Nat
          BY <2>0, ValuesTyped
        <5> QED
          BY <5>1, ValuesTyped DEF Place
      <4> QED
        BY <2>0, <2>14, <4>1 DEF StartCall
    <3>2. calls' \subseteq Call
      <4>1. [batch |-> batch, sent |-> FALSE] \in Call
        BY DEF Call
      <4> QED
        BY <2>14, <4>1 DEF StartCall, TypeOK
    <3>3. incs' \in [Trade -> Nat]
      BY <2>14 DEF StartCall, TypeOK, Copies
    <3> QED
      BY <2>14, <3>1, <3>2, <3>3 DEF StartCall, TypeOK
  <2>15. ASSUME LoseMarketBatch PROVE TypeOK'
    <3>1. entry' \in [Entry -> TradeObject]
      BY <2>0, <2>15, ValuesTyped DEF LoseMarketBatch
    <3> QED
      BY <2>15, <3>1 DEF LoseMarketBatch, TypeOK
  <2>16. ASSUME SendOpenTrades PROVE TypeOK'
    <3>1. PICK c \in calls :
             /\ calls' = (calls \ {c}) \cup {[c EXCEPT !.sent = TRUE]}
             /\ sent' = sent \cup {e[1] : e \in c.batch}
      BY <2>16 DEF SendOpenTrades
    <3>2. c \in Call
      BY DEF TypeOK
    <3>3. c.batch \subseteq Entry /\ [c EXCEPT !.sent = TRUE] \in Call
      BY <3>2 DEF Call
    <3>4. calls' \subseteq Call
      BY <3>1, <3>3 DEF TypeOK
    <3>5. sent' \subseteq Trade
      BY <3>1, <3>3, ValuesTyped DEF TypeOK
    <3> QED
      BY <2>16, <3>4, <3>5 DEF SendOpenTrades, TypeOK
  <2>17. ASSUME CallResolves PROVE TypeOK'
    <3>1. \A e \in Entry : [entry[e] EXCEPT !.place = "active"] \in TradeObject
      BY <2>0, ValuesTyped DEF Place
    <3>2. entry' \in [Entry -> TradeObject]
      BY <2>0, <2>17, <3>1 DEF CallResolves
    <3>3. calls' \subseteq Call
      BY <2>17 DEF CallResolves, TypeOK
    <3> QED
      BY <2>17, <3>2, <3>3 DEF CallResolves, TypeOK
  <2>18. ASSUME CallFails PROVE TypeOK'
    <3>1. entry' \in [Entry -> TradeObject]
      <4>1. \A e \in Entry :
               [place |-> "queue", call_open |-> Requeued(entry[e].call_open)] \in TradeObject
        <5>1. \A e \in Entry : Requeued(entry[e].call_open) \in Nat
          BY <2>0, ValuesTyped DEF Requeued
        <5> QED
          BY <5>1, ValuesTyped DEF Place
      <4>2. PICK c \in calls :
               LET retry == {e \in c.batch : MayRetry(entry[e].call_open)}
               IN  entry' = [e \in Entry |->
                      IF e \in retry
                      THEN [place |-> "queue", call_open |-> Requeued(entry[e].call_open)]
                      ELSE IF e \in c.batch \ retry THEN NoObject ELSE entry[e]]
        BY <2>18 DEF CallFails
      <4> QED
        BY <2>0, <4>1, <4>2, ValuesTyped
    <3>2. calls' \subseteq Call /\ cancels' \in [Trade -> SUBSET {"expired", "busy"}]
      BY <2>18 DEF CallFails, TypeOK
    <3> QED
      BY <2>18, <3>1, <3>2 DEF CallFails, TypeOK
  <2>19. ASSUME LoadStep PROVE TypeOK'
    <3>1. \A t \in Trade : db[t].call_open \in Nat
      BY <2>0 DEF TradeRecord
    <3>2. entry' \in [Entry -> TradeObject]
      <4>1. \A e \in Entry :
               /\ [place |-> "pending", call_open |-> db[e[1]].call_open] \in TradeObject
               /\ [entry[e] EXCEPT !.place = "queue"] \in TradeObject
        BY <2>0, <3>1, ValuesTyped DEF Place
      <4> QED
        <5>1. PICK moved \in SUBSET Entry :
                 \/ entry' = [e \in Entry |->
                               IF e \in moved
                               THEN [place |-> "pending", call_open |-> db[e[1]].call_open]
                               ELSE entry[e]]
                 \/ entry' = [e \in Entry |->
                               IF e \in moved THEN [entry[e] EXCEPT !.place = "queue"]
                               ELSE entry[e]]
          <6>1. ASSUME NEW isLimit \in BOOLEAN, LoadRead(isLimit)
                PROVE  \E moved \in SUBSET Entry :
                          entry' = [e \in Entry |->
                               IF e \in moved
                               THEN [place |-> "pending", call_open |-> db[e[1]].call_open]
                               ELSE entry[e]]
            <7> WITNESS {e \in Entry : e[2] = "loaded" /\ Loadable(e[1], isLimit)}
                          \in SUBSET Entry
            <7> QED
              BY <6>1 DEF LoadRead
          <6>2. ASSUME NEW isLimit \in BOOLEAN, LoadPush(isLimit)
                PROVE  \E moved \in SUBSET Entry :
                          entry' = [e \in Entry |->
                               IF e \in moved THEN [entry[e] EXCEPT !.place = "queue"]
                               ELSE entry[e]]
            BY <6>2 DEF LoadPush
          <6> QED
            BY <2>19, <6>1, <6>2 DEF LoadStep
        <5> QED
          BY <2>0, <4>1, <5>1
    <3> QED
      BY <2>19, <3>2 DEF LoadStep, LoadRead, LoadPush, TypeOK
  <2>21. ASSUME NEW t \in Trade, Mine(t) PROVE TypeOK'
    <3>1. PICK ev \in {"OpenTrade", "CancelTrade"} :
             log' = Append(log, [trade |-> t, event |-> ev])
      BY <2>21 DEF Mine
    <3>2. log \in Seq(RouterEvent) /\ [trade |-> t, event |-> ev] \in RouterEvent
      BY DEF TypeOK, RouterEvent
    <3>3. log' \in Seq(RouterEvent) /\ Len(log') = Len(log) + 1 /\ Len(log) \in Nat
      BY <3>1, <3>2
    <3>4. synced \in 0..Len(log') /\ scan \in [from: Nat \ {0}, to: 0..Len(log')]
      BY <3>3 DEF TypeOK
    <3>5. opened' \subseteq Trade
      BY <2>21 DEF Mine, TypeOK
    <3> QED
      BY <2>21, <3>3, <3>4, <3>5 DEF Mine, TypeOK
  <2>22. ASSUME RouterHandle PROVE TypeOK'
    <3>1. entry' \in [Entry -> TradeObject]
      BY <2>0, <2>22, ValuesTyped DEF RouterHandle
    <3>2. scan' \in [from: Nat \ {0}, to: 0..Len(log)]
      BY <2>22 DEF RouterHandle, PassEnds, TypeOK
    <3> QED
      BY <2>22, <3>1, <3>2 DEF RouterHandle, TypeOK
  <2>23. ASSUME RouterWrite \/ RouterWriteFails \/ RouterThrows PROVE TypeOK'
    <3>1. db' \in [Trade -> TradeRecord]
      <4>1. CASE RouterWrite
        BY <2>0, <4>1, WritesTyped DEF RouterWrite
      <4>2. CASE RouterWriteFails \/ RouterThrows
        BY <2>0, <4>2 DEF RouterWriteFails, RouterThrows
      <4> QED
        BY <2>23, <4>1, <4>2
    <3>2. synced' \in 0..Len(log) /\ scan' \in [from: Nat \ {0}, to: 0..Len(log)]
      BY <2>23 DEF RouterWrite, RouterWriteFails, RouterThrows, PassEnds, Cursor, Idle, TypeOK
    <3> QED
      BY <2>23, <3>1, <3>2 DEF RouterWrite, RouterWriteFails, RouterThrows, TypeOK
  <2>26. ASSUME Crash PROVE TypeOK'
    <3>1. scan' \in [from: Nat \ {0}, to: 0..Len(log)]
      BY <2>26 DEF Crash, Idle, TypeOK
    <3>2. crashes' \in 0..MaxCrashes
      BY <2>26 DEF Crash, TypeOK
    <3> QED
      BY <2>26, <3>1, <3>2, ValuesTyped DEF Crash, TypeOK
  <2>27. ASSUME NEW t \in Trade, Tick(t) PROVE TypeOK'
    BY <2>27 DEF Tick, TypeOK
  <2>28. CASE UNCHANGED vars
    BY <2>28 DEF vars, TypeOK
  <2>29. ASSUME ProcessTradeMarket \/ ProcessTradeLimit PROVE TypeOK'
    BY <2>14, <2>29 DEF ProcessTradeMarket, ProcessTradeLimit, Queue
  <2> QED
    BY <2>1, <2>2, <2>3, <2>5, <2>6, <2>9, <2>10, <2>11, <2>15, <2>16, <2>17, <2>18, <2>19,
       <2>21, <2>22, <2>23, <2>26, <2>27, <2>28, <2>29
       DEF Next, RequestStep, JobStep, RouterStep
<1> QED
  BY <1>1, <1>2, PTL DEF Spec

-----------------------------------------------------------------------------
(***************************************************************************)
(* What the router job records.  The inductive invariant relates the       *)
(* collection to the events: an OpenTrade event is the last one of its     *)
(* trade, and a trade recorded OPENED has such an event.  When the head    *)
(* never goes back, that event is behind the cursor and the slice being    *)
(* written does not end before the cursor.                                 *)
(***************************************************************************)
OpenEvent(t) == [trade |-> t, event |-> "OpenTrade"]

RouterInv ==
    /\ \A i \in 1..Len(log) : log[i].event = "OpenTrade" =>
          /\ log[i].trade \in opened
          /\ \A j \in i + 1..Len(log) : log[j].trade # log[i].trade
    /\ \A t \in Trade : db[t].state = "OPENED" =>
          \E i \in 1..Len(log) : log[i] = OpenEvent(t) /\ (HeadLag = 0 => i <= synced)
    /\ scan # Idle /\ HeadLag = 0 => synced <= scan.to

\* A step that leaves the chain and the router job alone and records no trade OPENED
\* keeps the invariant.
LEMMA RouterFrame ==
    ASSUME RouterInv,
           UNCHANGED <<opened, log, synced, scan>>,
           \A t \in Trade : db'[t].state = "OPENED" => db[t].state = "OPENED"
    PROVE  RouterInv'
  BY DEF RouterInv, Idle

\* The steps that do.
LEMMA RequestsAndJobs ==
    ASSUME TypeOK,
           \/ JobStep \/ LoadStep
           \/ \E t \in Trade : RequestStep(t) \/ LandStep(t) \/ Tick(t)
    PROVE  /\ UNCHANGED <<opened, log, synced, scan>>
           /\ \A t \in Trade : db'[t].state = "OPENED" => db[t].state = "OPENED"
           /\ \A t \in Trade : db[t].state = "OPENED" /\ db'[t].state = "CANCELLED"
                                  => db'[t].reason \in {"user", "busy"}
<1> USE DEF memVars, chainVars
<1>1. /\ db \in [Trade -> TradeRecord]
      /\ \A t \in Trade : db[t] \in TradeRecord
  BY DEF TypeOK
<1>2. \A r \in TradeRecord, why \in Reason :
         Cancelled(r, why).state = "CANCELLED" /\ Cancelled(r, why).reason = why
  BY DEF Cancelled, TradeRecord
<1>3. CASE JobStep \/ LoadStep
  BY <1>3 DEF JobStep, LoadStep, CronRead, CronApply, ProcessTradeMarket, LoseMarketBatch,
              ProcessTradeLimit, StartCall, SendOpenTrades, CallResolves, CallFails,
              LoadRead, LoadPush
<1>4. ASSUME NEW t \in Trade, RequestStep(t)
      PROVE  /\ UNCHANGED <<opened, log, synced, scan>>
             /\ \/ UNCHANGED db
                \/ db' = [db EXCEPT ![t] = Cancelled(@, "user")]
                \/ \E d : db' = [db EXCEPT ![t].limitOrderDuration = d]
                \/ \E isLimit, d : db' = [db EXCEPT ![t] = [NoTrade EXCEPT
                        !.state = "QUEUED", !.isLimitOrder = isLimit,
                        !.limitOrderDuration = d]]
  BY <1>4 DEF RequestStep, CreateTrade, CreatePush, RequestRead, RequestWriteFails,
              CancelApply, CancelWrite, UpdateApply, UpdateWrite
<1>5. ASSUME NEW t \in Trade, RequestStep(t)
      PROVE  /\ \A u \in Trade : db'[u].state = "OPENED" => db[u].state = "OPENED"
             /\ \A u \in Trade : db[u].state = "OPENED" /\ db'[u].state = "CANCELLED"
                                  => db'[u].reason \in {"user", "busy"}
  <2>1. CASE UNCHANGED db
    BY <2>1
  <2>2. CASE db' = [db EXCEPT ![t] = Cancelled(@, "user")]
    BY <1>1, <1>2, <2>2 DEF Reason
  <2>3. CASE \E d : db' = [db EXCEPT ![t].limitOrderDuration = d]
    BY <1>1, <2>3 DEF TradeRecord
  <2>4. CASE \E isLimit, d : db' = [db EXCEPT ![t] = [NoTrade EXCEPT
                        !.state = "QUEUED", !.isLimitOrder = isLimit,
                        !.limitOrderDuration = d]]
    BY <1>1, <2>4 DEF NoTrade
  <2> QED
    BY <1>4, <1>5, <2>1, <2>2, <2>3, <2>4
<1>6. ASSUME NEW t \in Trade, LandStep(t)
      PROVE  /\ UNCHANGED <<opened, log, synced, scan>>
             /\ \A u \in Trade : db'[u].state = "OPENED" => db[u].state = "OPENED"
             /\ \A u \in Trade : db[u].state = "OPENED" /\ db'[u].state = "CANCELLED"
                                  => db'[u].reason \in {"user", "busy"}
  <2>1. CASE LandInc(t)
    BY <1>1, <2>1 DEF LandInc, TradeRecord
  <2>2. CASE LandExpired(t)
    BY <1>1, <1>2, <2>2 DEF LandExpired, Expire, Reason
  <2>3. CASE LandBusy(t)
    BY <1>1, <1>2, <2>3 DEF LandBusy, Reason
  <2> QED
    BY <1>6, <2>1, <2>2, <2>3 DEF LandStep
<1>7. CASE \E t \in Trade : Tick(t)
  BY <1>7 DEF Tick
<1> QED
  BY <1>3, <1>4, <1>5, <1>6, <1>7

LEMMA RouterInvInit == Init => RouterInv
  BY DEF Init, RouterInv, NoTrade, Idle

\* The write of the router job moves no OPENED trade elsewhere while the head does not go
\* back, and records OPENED what has an OpenTrade event in the slice.
LEMMA RouterWriteEffect ==
    ASSUME TypeOK, RouterInv, RouterWrite, NEW t \in Trade
    PROVE  /\ HeadLag = 0 /\ db[t].state = "OPENED" => db'[t].state = "OPENED"
           /\ db'[t].state = "OPENED" =>
                 \E i \in 1..Len(log') : log'[i] = OpenEvent(t) /\ (HeadLag = 0 => i <= synced')
<1> DEFINE last == CHOOSE i \in 1..scan.to : IsLast(t, i)
<1>1. /\ scan.from \in Nat \ {0} /\ scan.to \in 0..Len(log) /\ synced \in 0..Len(log)
      /\ (HeadLag = 0 => synced <= scan.to) /\ synced' = scan.to /\ log' = log /\ Len(log) \in Nat
      /\ db \in [Trade -> TradeRecord]
      /\ \A i \in 1..Len(log) : log[i] \in RouterEvent
  BY DEF TypeOK, RouterInv, RouterWrite, Cursor, chainVars
<1>2. CASE \A i \in 1..scan.to : ~IsLast(t, i)
  BY <1>1, <1>2 DEF RouterInv, RouterWrite
<1>3. CASE \E i \in 1..scan.to : IsLast(t, i)
  <2>1. last \in 1..scan.to /\ IsLast(t, last)
    BY <1>3
  <2>2. db'[t] = Record(db[t], log[last].event)
    BY <1>3 DEF RouterWrite
  <2>3. log[last] \in RouterEvent /\ log[last].trade = t
    BY <1>1, <2>1 DEF IsLast
  <2>4. CASE log[last].event = "OpenTrade"
    <3>1. log[last] = OpenEvent(t)
      BY <2>3, <2>4 DEF RouterEvent, OpenEvent
    <3>2. db'[t].state = "OPENED"
      BY <1>1, <2>2, <2>4 DEF Record, TradeRecord
    <3> QED
      BY <1>1, <2>1, <3>1, <3>2
  <2>5. CASE log[last].event # "OpenTrade"
    <3>1. db'[t].state # "OPENED"
      BY <1>1, <2>2, <2>5 DEF Record, Cancelled, TradeRecord
    <3>2. SUFFICES ASSUME HeadLag = 0, db[t].state = "OPENED" PROVE FALSE
      BY <3>1
    <3>3. PICK i \in 1..Len(log) : log[i] = OpenEvent(t) /\ i <= synced
      BY <3>2 DEF RouterInv
    <3>4. log[i].trade = t /\ log[i].event = "OpenTrade" /\ i \in 1..scan.to
      BY <1>1, <3>2, <3>3 DEF OpenEvent
    <3>5. i # last
      BY <2>5, <3>4
    <3>6. ~(i < last)
      BY <1>1, <2>1, <2>3, <3>4 DEF RouterInv
    <3>7. ~(last < i)
      BY <1>1, <2>1, <3>4 DEF IsLast
    <3> QED
      BY <1>1, <2>1, <3>4, <3>5, <3>6, <3>7
  <2> QED
    BY <2>4, <2>5
<1> QED
  BY <1>2, <1>3

LEMMA RouterInvStep == TypeOK /\ RouterInv /\ [Next]_vars => RouterInv'
<1> SUFFICES ASSUME TypeOK, RouterInv, [Next]_vars PROVE RouterInv'
  OBVIOUS
<1> USE DEF memVars, chainVars
<1>0. /\ log \in Seq(RouterEvent) /\ Len(log) \in Nat
      /\ synced \in 0..Len(log)
      /\ scan \in [from: Nat \ {0}, to: 0..Len(log)]
  BY DEF TypeOK
<1>1. CASE \/ JobStep \/ LoadStep
           \/ \E t \in Trade : RequestStep(t) \/ LandStep(t) \/ Tick(t)
  BY <1>1, RequestsAndJobs, RouterFrame
<1>2. ASSUME NEW t \in Trade, Mine(t) PROVE RouterInv'
  <2>1. PICK ev \in {"OpenTrade", "CancelTrade"} :
           /\ log' = Append(log, [trade |-> t, event |-> ev])
           /\ ev = "OpenTrade" => opened' = opened \cup {t}
           /\ ev # "OpenTrade" => opened' = opened
           /\ t \notin opened
    BY <1>2 DEF Mine
  <2>2. /\ Len(log') = Len(log) + 1
        /\ \A i \in 1..Len(log) : log'[i] = log[i]
        /\ log'[Len(log) + 1] = [trade |-> t, event |-> ev]
    BY <1>0, <2>1
  <2>3. ASSUME NEW i \in 1..Len(log'), log'[i].event = "OpenTrade"
        PROVE  /\ log'[i].trade \in opened'
               /\ \A j \in i + 1..Len(log') : log'[j].trade # log'[i].trade
    <3>1. CASE i = Len(log) + 1
      BY <1>0, <2>1, <2>2, <2>3, <3>1
    <3>2. CASE i \in 1..Len(log)
      <4>1. /\ log[i].trade \in opened
            /\ \A j \in i + 1..Len(log) : log[j].trade # log[i].trade
        BY <2>2, <2>3, <3>2 DEF RouterInv
      <4> QED
        BY <1>0, <2>1, <2>2, <3>2, <4>1
    <3> QED
      BY <1>0, <2>2, <3>1, <3>2
  <2>4. UNCHANGED <<db, synced, scan>>
    BY <1>2 DEF Mine
  <2>5. \A u \in Trade : db'[u].state = "OPENED" =>
           \E i \in 1..Len(log') : log'[i] = OpenEvent(u) /\ (HeadLag = 0 => i <= synced')
    BY <1>0, <2>2, <2>4 DEF RouterInv
  <2> QED
    BY <2>3, <2>4, <2>5 DEF RouterInv, Idle
<1>3. CASE RouterHandle
  <2>1. UNCHANGED <<db, opened, log, synced>> /\ (HeadLag = 0 => synced <= scan'.to)
    BY <1>0, <1>3 DEF RouterHandle, PassEnds
  <2> QED
    BY <1>0, <2>1 DEF RouterInv
<1>4. CASE RouterWrite
  <2>1. UNCHANGED <<opened, log>> /\ scan' = Idle
    BY <1>4 DEF RouterWrite
  <2>2. \A t \in Trade : db'[t].state = "OPENED" =>
           \E i \in 1..Len(log') : log'[i] = OpenEvent(t) /\ (HeadLag = 0 => i <= synced')
    BY <1>4, RouterWriteEffect
  <2> QED
    BY <2>1, <2>2 DEF RouterInv, Idle
<1>5. CASE RouterWriteFails \/ RouterThrows
  <2>1. UNCHANGED <<db, opened, log>> /\ scan' = Idle
    BY <1>5 DEF RouterWriteFails, RouterThrows
  <2>2. HeadLag = 0 => synced <= synced'
    BY <1>0, <1>5 DEF RouterWriteFails, RouterThrows, Cursor, RouterInv, PassEnds
  <2>3. synced' \in Nat
    BY <1>0, <1>5 DEF RouterWriteFails, RouterThrows, Cursor, PassEnds
  <2>4. \A t \in Trade : db[t].state = "OPENED" =>
           \E i \in 1..Len(log) : log[i] = OpenEvent(t) /\ (HeadLag = 0 => i <= synced')
    BY <1>0, <2>2, <2>3 DEF RouterInv
  <2> QED
    BY <2>1, <2>4 DEF RouterInv, Idle
<1>6. CASE Crash
  BY <1>6 DEF Crash, RouterInv, Idle
<1>7. CASE UNCHANGED vars
  BY <1>7 DEF vars, RouterInv, Idle
<1> QED
  BY <1>1, <1>2, <1>3, <1>4, <1>5, <1>6, <1>7 DEF Next, RouterStep

LEMMA RouterInvHolds == Spec => []RouterInv
  BY RouterInvInit, RouterInvStep, TypeCorrect, PTL DEF Spec

\* A trade is OPENED in the collection only if the router contract opened it.
THEOREM OpenedOnChainHolds == Spec => []OpenedOnChain
<1>1. TypeOK /\ RouterInv => OpenedOnChain
  <2> SUFFICES ASSUME TypeOK, RouterInv, NEW t \in Trade, db[t].state = "OPENED"
               PROVE  t \in opened
    BY DEF OpenedOnChain
  <2>1. PICK i \in 1..Len(log) : log[i] = OpenEvent(t)
    BY DEF RouterInv
  <2> QED
    BY <2>1 DEF RouterInv, OpenEvent
<1> QED
  BY <1>1, TypeCorrect, RouterInvHolds, PTL

\* Only the user's cancel and the write after the last failed attempt move a trade from
\* OPENED to CANCELLED, if the head the nodes report does not go back.
THEOREM OpenedUndoneOnlyLateHolds ==
    ASSUME HeadLag = 0 PROVE Spec => OpenedUndoneOnlyLate
<1>1. TypeOK /\ RouterInv /\ [Next]_vars =>
        [\A t \in Trade : db[t].state = "OPENED" /\ db'[t].state = "CANCELLED"
                           => db'[t].reason \in {"user", "busy"}]_vars
  <2> SUFFICES ASSUME TypeOK, RouterInv, Next,
                      NEW t \in Trade, db[t].state = "OPENED", db'[t].state = "CANCELLED"
               PROVE  db'[t].reason \in {"user", "busy"}
    OBVIOUS
  <2>1. CASE \/ JobStep \/ LoadStep
             \/ \E u \in Trade : RequestStep(u) \/ LandStep(u) \/ Tick(u)
    BY <2>1, RequestsAndJobs
  <2>2. CASE RouterWrite
    BY <2>2, RouterWriteEffect
  <2>3. CASE \/ RouterHandle \/ RouterWriteFails \/ RouterThrows \/ Crash
             \/ \E u \in Trade : Mine(u)
    BY <2>3 DEF RouterHandle, RouterWriteFails, RouterThrows, Crash, Mine
  <2> QED
    BY <2>1, <2>2, <2>3 DEF Next, RouterStep
<1> QED
  BY <1>1, TypeCorrect, RouterInvHolds, PTL DEF Spec, OpenedUndoneOnlyLate

-----------------------------------------------------------------------------
(* The opening pipeline implements TradeLedger *)

\* Of a trade that has not been created there is no trace anywhere.
Untouched ==
    \A t \in Trade : db[t].state = "NONE" =>
       /\ t \notin sent /\ t \notin opened /\ t \notin cronSnap
       /\ cancels[t] = {} /\ req[t].op = "idle"
       /\ \A e \in Entry : e[1] = t => entry[e].place = "none"
       /\ \A c \in calls : \A e \in c.batch : e[1] # t
       /\ \A i \in 1..Len(log) : log[i].trade # t

\* Which records a step may change, and how, without the router job.
RecordMay(from, to) ==
    \/ from = to
    \/ from = "NONE" /\ to = "QUEUED"
    \/ from \in {"QUEUED", "OPENED", "CANCELLED"} /\ to = "CANCELLED"

LEMMA UntouchedInit == Init => Untouched
  BY DEF Init, Untouched, NoObject, NoReq

\* The steps of the users, the jobs and the loaders keep the records within RecordMay.
LEMMA OwnRecords ==
    ASSUME TypeOK, Untouched,
           \/ JobStep \/ LoadStep
           \/ \E t \in Trade : RequestStep(t) \/ LandStep(t) \/ Tick(t)
    PROVE  /\ UNCHANGED opened
           /\ \A t \in Trade : RecordMay(db[t].state, db'[t].state)
<1> USE DEF memVars, chainVars
<1>1. /\ db \in [Trade -> TradeRecord]
      /\ \A t \in Trade : db[t] \in TradeRecord /\ db[t].state \in State
  BY DEF TypeOK, TradeRecord
<1>2. \A r \in TradeRecord, why \in Reason :
         Cancelled(r, why).state = "CANCELLED" /\ Cancelled(r, why).reason = why
  BY DEF Cancelled, TradeRecord
<1>3. CASE JobStep \/ LoadStep
  BY <1>3 DEF JobStep, LoadStep, CronRead, CronApply, ProcessTradeMarket, LoseMarketBatch,
              ProcessTradeLimit, StartCall, SendOpenTrades, CallResolves, CallFails,
              LoadRead, LoadPush, RecordMay
<1>4. ASSUME NEW t \in Trade, RequestStep(t)
      PROVE  /\ UNCHANGED opened
             /\ \A u \in Trade : RecordMay(db[u].state, db'[u].state)
  <2>1. CASE CreateTrade(t)
    BY <1>1, <2>1 DEF CreateTrade, NoTrade, RecordMay
  <2>2. CASE CancelWrite(t)
    BY <1>1, <1>2, <2>2 DEF CancelWrite, Untouched, Reason, State, RecordMay
  <2>3. CASE UpdateWrite(t)
    BY <1>1, <2>3 DEF UpdateWrite, TradeRecord, RecordMay
  <2>4. CASE CreatePush(t) \/ RequestRead(t) \/ RequestWriteFails(t)
             \/ CancelApply(t) \/ UpdateApply(t)
    BY <2>4 DEF CreatePush, RequestRead, RequestWriteFails, CancelApply, UpdateApply, RecordMay
  <2> QED
    BY <1>4, <2>1, <2>2, <2>3, <2>4 DEF RequestStep
<1>5. ASSUME NEW t \in Trade, LandStep(t)
      PROVE  /\ UNCHANGED opened
             /\ \A u \in Trade : RecordMay(db[u].state, db'[u].state)
  <2>1. CASE LandInc(t)
    BY <1>1, <2>1 DEF LandInc, TradeRecord, RecordMay
  <2>2. CASE LandExpired(t)
    BY <1>1, <1>2, <2>2 DEF LandExpired, Expire, Reason, RecordMay
  <2>3. CASE LandBusy(t)
    BY <1>1, <1>2, <2>3 DEF LandBusy, Untouched, Reason, State, RecordMay
  <2> QED
    BY <1>5, <2>1, <2>2, <2>3 DEF LandStep
<1>6. CASE \E t \in Trade : Tick(t)
  BY <1>6 DEF Tick, RecordMay
<1> QED
  BY <1>3, <1>4, <1>5, <1>6

\* The router job's write records OPENED only what the contract opened, and CANCELLED only
\* what was submitted: neither a trade that was never created.
LEMMA RouterRecords ==
    ASSUME TypeOK, RouterInv, Untouched, RouterWrite, NEW t \in Trade
    PROVE  \/ RecordMay(db[t].state, db'[t].state)
           \/ db[t].state # "NONE" /\ db'[t].state = "OPENED" /\ t \in opened
<1> DEFINE last == CHOOSE i \in 1..scan.to : IsLast(t, i)
<1>1. /\ scan.to \in 0..Len(log) /\ Len(log) \in Nat
      /\ db[t] \in TradeRecord /\ db[t].state \in State
      /\ \A i \in 1..Len(log) : log[i] \in RouterEvent
  BY DEF TypeOK, TradeRecord
<1>2. CASE \A i \in 1..scan.to : ~IsLast(t, i)
  BY <1>2 DEF RouterWrite, RecordMay
<1>3. CASE \E i \in 1..scan.to : IsLast(t, i)
  <2>1. last \in 1..scan.to /\ IsLast(t, last)
    BY <1>3
  <2>2. db'[t] = Record(db[t], log[last].event)
    BY <1>3 DEF RouterWrite
  <2>3. last \in 1..Len(log) /\ log[last].trade = t
    BY <1>1, <2>1 DEF IsLast
  <2>4. db[t].state # "NONE"
    BY <2>3 DEF Untouched
  <2>5. CASE log[last].event = "OpenTrade"
    <3>1. t \in opened
      BY <2>3, <2>5 DEF RouterInv
    <3> QED
      BY <1>1, <2>2, <2>4, <2>5, <3>1 DEF Record, TradeRecord
  <2>6. CASE log[last].event # "OpenTrade"
    BY <1>1, <2>2, <2>4, <2>6 DEF Record, Cancelled, TradeRecord, State, RecordMay
  <2> QED
    BY <2>5, <2>6
<1> QED
  BY <1>2, <1>3

\* What any step does to the records and to the trades the contract opened.
LEMMA StepEffect ==
    ASSUME TypeOK, RouterInv, Untouched, [Next]_vars
    PROVE  \/ /\ UNCHANGED opened
              /\ \A t \in Trade :
                    \/ RecordMay(db[t].state, db'[t].state)
                    \/ db[t].state # "NONE" /\ db'[t].state = "OPENED" /\ t \in opened
           \/ /\ UNCHANGED db
              /\ \E t \in Trade :
                    db[t].state # "NONE" /\ t \notin opened /\ opened' = opened \cup {t}
<1> USE DEF memVars, chainVars
<1>1. CASE \/ JobStep \/ LoadStep
           \/ \E t \in Trade : RequestStep(t) \/ LandStep(t) \/ Tick(t)
  BY <1>1, OwnRecords
<1>2. CASE RouterWrite
  BY <1>2, RouterRecords DEF RouterWrite
<1>3. CASE RouterHandle \/ RouterWriteFails \/ RouterThrows \/ Crash \/ UNCHANGED vars
  BY <1>3 DEF RouterHandle, RouterWriteFails, RouterThrows, Crash, vars, RecordMay
<1>4. ASSUME NEW t \in Trade, Mine(t)
      PROVE  /\ UNCHANGED db
             /\ \/ UNCHANGED opened
                \/ db[t].state # "NONE" /\ t \notin opened /\ opened' = opened \cup {t}
  BY <1>4 DEF Mine, Untouched
<1>5. CASE \E t \in Trade : Mine(t)
  BY <1>4, <1>5 DEF RecordMay
<1> QED
  BY <1>1, <1>2, <1>3, <1>5 DEF Next, RouterStep

-----------------------------------------------------------------------------
(* Untouched is inductive *)

LEMMA UntouchedStep == TypeOK /\ RouterInv /\ Untouched /\ [Next]_vars => Untouched'
<1> SUFFICES ASSUME TypeOK, RouterInv, Untouched, [Next]_vars,
                    NEW t \in Trade, db'[t].state = "NONE"
             PROVE  /\ t \notin sent' /\ t \notin opened' /\ t \notin cronSnap'
                    /\ cancels'[t] = {} /\ req'[t].op = "idle"
                    /\ \A e \in Entry : e[1] = t => entry'[e].place = "none"
                    /\ \A c \in calls' : \A e \in c.batch : e[1] # t
                    /\ \A i \in 1..Len(log') : log'[i].trade # t
  BY DEF Untouched
<1> USE DEF memVars, chainVars
<1>1. db[t].state = "NONE"
  BY StepEffect DEF RecordMay
<1>2. /\ t \notin sent /\ t \notin opened /\ t \notin cronSnap
      /\ cancels[t] = {} /\ req[t].op = "idle"
      /\ \A e \in Entry : e[1] = t => entry[e].place = "none"
      /\ \A c \in calls : \A e \in c.batch : e[1] # t
      /\ \A i \in 1..Len(log) : log[i].trade # t
  BY <1>1 DEF Untouched
<1>3. /\ entry \in [Entry -> TradeObject]
      /\ req \in [Trade -> Request] /\ cancels \in [Trade -> SUBSET {"expired", "busy"}]
      /\ \A c \in calls : c.batch \subseteq Entry
      /\ calls \subseteq Call
      /\ log \in Seq(RouterEvent) /\ Len(log) \in Nat
  BY DEF TypeOK, Call
<1>4. ASSUME NEW batch \in SUBSET Entry, \A e \in batch : entry[e].place = "queue", StartCall(batch)
      PROVE  /\ \A e \in Entry : e[1] = t => entry'[e].place = "none"
             /\ \A c \in calls' : \A e \in c.batch : e[1] # t
             /\ UNCHANGED <<sent, opened, log, cronSnap, cancels, req>>
  BY <1>2, <1>3, <1>4 DEF StartCall
<1>5. CASE JobStep
  <2>1. CASE CronRead
    BY <1>1, <1>2, <2>1 DEF CronRead
  <2>2. CASE CronApply
    BY <1>2, <1>3, <2>2 DEF CronApply, NoObject
  <2>3. CASE ProcessTradeMarket
    BY <1>2, <1>4, <2>3 DEF ProcessTradeMarket, MarketBatch, Queue
  <2>4. CASE LoseMarketBatch
    BY <1>2, <1>3, <2>4 DEF LoseMarketBatch, NoObject
  <2>5. CASE ProcessTradeLimit
    BY <1>2, <1>4, <2>5 DEF ProcessTradeLimit, Queue
  <2>6. CASE SendOpenTrades
    BY <1>2, <1>3, <2>6 DEF SendOpenTrades, Call
  <2>7. CASE CallResolves
    BY <1>2, <1>3, <2>7 DEF CallResolves
  <2>8. CASE CallFails
    BY <1>2, <1>3, <2>8 DEF CallFails, NoObject
  <2> QED
    BY <1>5, <2>1, <2>2, <2>3, <2>4, <2>5, <2>6, <2>7, <2>8 DEF JobStep
<1>6. CASE LoadStep
  BY <1>1, <1>2, <1>3, <1>6 DEF LoadStep, LoadRead, LoadPush, Loadable
<1>7. ASSUME NEW u \in Trade, RequestStep(u)
      PROVE  /\ UNCHANGED <<sent, opened, log, cronSnap, cancels, calls>>
             /\ req'[t].op = "idle"
             /\ \A e \in Entry : e[1] = t => entry'[e].place = "none"
  <2>1. CASE CreateTrade(u)
    <3>1. u # t
      BY <1>3, <2>1 DEF CreateTrade, TypeOK, NoTrade
    <3> QED
      BY <1>2, <1>3, <2>1, <3>1 DEF CreateTrade
  <2>2. CASE CreatePush(u)
    BY <1>2, <1>3, <2>2 DEF CreatePush
  <2>3. CASE RequestRead(u) \/ RequestWriteFails(u) \/ UpdateApply(u) \/ CancelWrite(u) \/ UpdateWrite(u)
    BY <1>1, <1>2, <1>3, <2>3
       DEF RequestRead, RequestWriteFails, UpdateApply, CancelWrite, UpdateWrite, NoReq
  <2>4. CASE CancelApply(u)
    <3>1. u # t
      BY <1>2, <2>4 DEF CancelApply
    <3>2. req'[t] = req[t]
      BY <1>3, <2>4, <3>1 DEF CancelApply
    <3>3. \A e \in Entry : entry'[e].place = "none" \/ entry'[e] = entry[e]
      <4>1. \/ UNCHANGED entry
            \/ \E gone : entry' = [e \in Entry |-> IF e \in gone THEN NoObject ELSE entry[e]]
        BY <2>4 DEF CancelApply
      <4> QED
        BY <4>1 DEF NoObject
    <3> QED
      BY <1>2, <2>4, <3>2, <3>3 DEF CancelApply
  <2> QED
    BY <1>7, <2>1, <2>2, <2>3, <2>4 DEF RequestStep
<1>8. ASSUME NEW u \in Trade, LandStep(u) \/ Tick(u)
      PROVE  /\ UNCHANGED <<sent, opened, log, cronSnap, calls, entry, req>>
             /\ cancels'[t] = {}
  BY <1>2, <1>3, <1>8 DEF LandStep, LandInc, LandExpired, LandBusy, Tick
<1>9. ASSUME NEW u \in Trade, Mine(u)
      PROVE  /\ UNCHANGED <<sent, cronSnap, cancels, calls, entry, req>>
             /\ t \notin opened'
             /\ \A i \in 1..Len(log') : log'[i].trade # t
  <2>1. u # t
    BY <1>2, <1>9 DEF Mine
  <2>2. PICK ev \in {"OpenTrade", "CancelTrade"} :
           /\ log' = Append(log, [trade |-> u, event |-> ev])
           /\ opened' \subseteq opened \cup {u}
    BY <1>9 DEF Mine
  <2>3. /\ Len(log') = Len(log) + 1
        /\ \A i \in 1..Len(log) : log'[i] = log[i]
        /\ log'[Len(log) + 1] = [trade |-> u, event |-> ev]
    BY <1>3, <2>2
  <2>4. \A i \in 1..Len(log') : i \in 1..Len(log) \/ i = Len(log) + 1
    BY <1>3, <2>3
  <2>5. \A i \in 1..Len(log') : log'[i].trade # t
    BY <1>2, <2>1, <2>3, <2>4
  <2> QED
    BY <1>2, <1>9, <2>1, <2>2, <2>5 DEF Mine
<1>10. CASE RouterStep
  BY <1>2, <1>3, <1>10 DEF RouterStep, RouterHandle, RouterWrite, RouterWriteFails, RouterThrows, NoObject
<1>11. CASE Crash \/ UNCHANGED vars
  BY <1>2, <1>11 DEF Crash, vars, NoObject, NoReq
<1> QED
  BY <1>2, <1>5, <1>6, <1>7, <1>8, <1>9, <1>10, <1>11 DEF Next

LEMMA UntouchedHolds == Spec => []Untouched
  BY UntouchedInit, UntouchedStep, TypeCorrect, RouterInvHolds, PTL DEF Spec

-----------------------------------------------------------------------------
(* The refinement *)

LEMMA LedgerInit == Init => Ledger!Init
<1> SUFFICES ASSUME Init PROVE Ledger!Init
  OBVIOUS
<1>1. \A t \in Trade : db[t].state = "NONE" /\ t \notin opened
  BY DEF Init, NoTrade
<1>2. Recorded \in [Trade -> {"none", "queued"}] /\ Contract = [t \in Trade |-> "none"]
  BY <1>1 DEF Recorded, Contract
<1> QED
  BY <1>2 DEF Ledger!Init

LEMMA LedgerStep ==
    TypeOK /\ TypeOK' /\ RouterInv /\ Untouched /\ [Next]_vars => [Ledger!Next]_Ledger!vars
<1> SUFFICES ASSUME TypeOK, TypeOK', RouterInv, Untouched, [Next]_vars
             PROVE  [Ledger!Next]_Ledger!vars
  OBVIOUS
<1>1. \A t \in Trade : db[t].state \in State /\ db'[t].state \in State
  BY DEF TypeOK, TradeRecord
<1>2. CASE /\ UNCHANGED opened
           /\ \A t \in Trade :
                 \/ RecordMay(db[t].state, db'[t].state)
                 \/ db[t].state # "NONE" /\ db'[t].state = "OPENED" /\ t \in opened
  <2>1. Recorded' \in [Trade -> Ledger!Recorded]
    BY <1>1 DEF Recorded, State, Ledger!Recorded
  <2>2. ASSUME NEW t \in Trade
        PROVE  Ledger!May(Recorded[t], Recorded'[t], Contract[t])
    <3>1. /\ Recorded[t] = CASE db[t].state = "NONE" -> "none"
                             [] db[t].state = "QUEUED" -> "queued"
                             [] db[t].state = "OPENED" -> "opened"
                             [] db[t].state = "CANCELLED" -> "cancelled"
          /\ Recorded'[t] = CASE db'[t].state = "NONE" -> "none"
                             [] db'[t].state = "QUEUED" -> "queued"
                             [] db'[t].state = "OPENED" -> "opened"
                             [] db'[t].state = "CANCELLED" -> "cancelled"
          /\ t \in opened => Contract[t] # "none"
      BY DEF Recorded, Contract
    <3>2. CASE RecordMay(db[t].state, db'[t].state)
      BY <1>1, <3>1, <3>2 DEF RecordMay, Ledger!May, State
    <3>3. CASE db[t].state # "NONE" /\ db'[t].state = "OPENED" /\ t \in opened
      BY <1>1, <3>1, <3>3 DEF Ledger!May, State
    <3> QED
      BY <1>2, <3>2, <3>3
  <2>3. UNCHANGED Contract
    BY <1>2 DEF Contract
  <2> QED
    BY <2>1, <2>2, <2>3 DEF Ledger!Next, Ledger!RecordTrades
<1>3. ASSUME UNCHANGED db, NEW t \in Trade,
             db[t].state # "NONE", t \notin opened, opened' = opened \cup {t}
      PROVE  Ledger!OpenOnChain(t)
  <2>1. Recorded[t] # "none" /\ UNCHANGED Recorded
    BY <1>1, <1>3 DEF Recorded, State
  <2>2. Contract[t] = "none" /\ Contract' = [Contract EXCEPT ![t] = "open"]
    BY <1>3 DEF Contract
  <2> QED
    BY <2>1, <2>2 DEF Ledger!OpenOnChain
<1> QED
  BY <1>2, <1>3, StepEffect DEF Ledger!Next

\* The opening pipeline implements TradeLedger: whatever requests, jobs, the router job and
\* restarts write over each other, a record changes only in the ways the ledger allows, and
\* never ahead of the contract.
THEOREM ImplementsLedgerHolds == Spec => ImplementsLedger
<1>1. Spec => [](TypeOK /\ RouterInv /\ Untouched)
  BY TypeCorrect, RouterInvHolds, UntouchedHolds, PTL
<1> QED
  BY <1>1, LedgerInit, LedgerStep, PTL DEF Spec, ImplementsLedger, Ledger!Spec

-----------------------------------------------------------------------------
(* The trade objects and their counters: an object is in one place and in  *)
(* at most one transaction, only a QUEUED trade gets an object, and         *)
(* call_open keeps within its bounds over retries, crashes and reloads.     *)

Attempts(t) == db[t].call_open + incs[t]

\* The largest call_open a loader takes back.
LoadLimit == IF MaximumRetry = 0 THEN 0 ELSE MaximumRetry - 1

\* Where the objects are.  A trade that does not exist has none, and a loader that has not
\* read has pushed none.
ObjectInv ==
    /\ OneCallPerObject
    /\ \A e \in Entry : entry[e].place # "none" => db[e[1]].state # "NONE"
    /\ \A t \in Trade :
          entry[<<t, "loaded">>].place # "none" => db[t].isLimitOrder \notin toLoad

\* Each object against the attempts made: an attempt counts twice in memory.
CountInv ==
    \A e \in Entry :
       /\ entry[e].call_open <= MaximumRetry + 2
       /\ entry[e].place \in {"pending", "queue"} =>
             entry[e].call_open <= MaximumRetry + 1 /\ entry[e].call_open <= 2 * Attempts(e[1])
       /\ entry[e].place = "call" => entry[e].call_open + 1 <= 2 * Attempts(e[1])

\* When createTrade is not served before the loaders have read, a trade has one object,
\* which accounts for all the attempts made.
SingleInv ==
    /\ \A t \in Trade : db[t].state = "NONE" => Attempts(t) = 0
    /\ \A t \in Trade : 2 * Attempts(t) <= 2 * MaximumRetry + 3
    /\ \A t \in Trade :
          entry[<<t, "created">>].place # "none" =>
             toLoad = {} /\ entry[<<t, "loaded">>].place = "none"
    /\ \A t \in Trade : db[t].isLimitOrder \in toLoad => incs[t] = 0
    /\ \A e \in Entry :
          /\ entry[e].place \in {"pending", "queue"} =>
                2 * Attempts(e[1]) <= entry[e].call_open + LoadLimit
          /\ entry[e].place = "call" =>
                2 * Attempts(e[1]) <= entry[e].call_open + 1 + LoadLimit

-----------------------------------------------------------------------------
(* The steps that start no call, end none and create no object *)

\* Such a step only removes objects that are in no call, moves pending ones to their
\* queue, and keeps what a record says about kind, existence and attempts.
Quiet ==
    /\ UNCHANGED <<calls, toLoad>>
    /\ \A e \in Entry :
          \/ entry'[e] = entry[e]
          \/ entry'[e] = NoObject /\ entry[e].place # "call"
          \/ entry[e].place = "pending" /\ entry'[e] = [entry[e] EXCEPT !.place = "queue"]
    /\ \A t \in Trade :
          /\ db'[t].isLimitOrder = db[t].isLimitOrder
          /\ db'[t].state = "NONE" => db[t].state = "NONE"
          /\ db'[t].call_open + incs'[t] = Attempts(t)
          /\ incs'[t] <= incs[t]

LEMMA QuietKeeps ==
    ASSUME TypeOK, TypeOK', Quiet
    PROVE  /\ ObjectInv => ObjectInv'
           /\ CountInv => CountInv'
           /\ SingleInv => SingleInv'
<1>1. \A e \in Entry : entry[e] \in TradeObject /\ entry'[e] \in TradeObject
  BY DEF TypeOK
<1>2. ASSUME NEW e \in Entry
      PROVE  \/ entry'[e] = entry[e]
             \/ entry'[e].place = "none" /\ entry'[e].call_open = 0 /\ entry[e].place # "call"
             \/ /\ entry[e].place = "pending" /\ entry'[e].place = "queue"
                /\ entry'[e].call_open = entry[e].call_open
  <2>1. CASE entry'[e] = NoObject /\ entry[e].place # "call"
    BY <2>1 DEF NoObject
  <2>2. CASE entry[e].place = "pending" /\ entry'[e] = [entry[e] EXCEPT !.place = "queue"]
    BY <1>1, <2>2 DEF TradeObject
  <2> QED
    BY <2>1, <2>2 DEF Quiet
<1>3. \A e \in Entry : entry'[e].place # "none" => entry[e].place # "none"
  BY <1>2
<1>4. /\ \A t \in Trade : <<t, "created">> \in Entry /\ <<t, "loaded">> \in Entry
      /\ \A e \in Entry : e[1] \in Trade
  BY ValuesTyped
<1>5. ObjectInv => ObjectInv'
  <2> SUFFICES ASSUME ObjectInv PROVE ObjectInv'
    OBVIOUS
  <2>1. \A c \in calls : c \in Call /\ c.batch \subseteq Entry
    BY DEF TypeOK, Call
  <2>2. OneCallPerObject'
    BY <1>2, <2>1 DEF ObjectInv, OneCallPerObject, Quiet
  <2> QED
    BY <1>3, <1>4, <2>2 DEF ObjectInv, Quiet
<1>6. CountInv => CountInv'
  <2> SUFFICES ASSUME CountInv, NEW e \in Entry
               PROVE /\ entry'[e].call_open <= MaximumRetry + 2
                     /\ entry'[e].place \in {"pending", "queue"} =>
                           /\ entry'[e].call_open <= MaximumRetry + 1
                           /\ entry'[e].call_open <= 2 * (db'[e[1]].call_open + incs'[e[1]])
                     /\ entry'[e].place = "call" =>
                           entry'[e].call_open + 1 <= 2 * (db'[e[1]].call_open + incs'[e[1]])
    BY DEF CountInv, Attempts
  <2>1. db'[e[1]].call_open + incs'[e[1]] = Attempts(e[1])
    BY <1>4 DEF Quiet
  <2> QED
    BY <1>2, <2>1, OpenTradeAssumption DEF CountInv
<1>7. SingleInv => SingleInv'
  <2> SUFFICES ASSUME SingleInv PROVE SingleInv'
    OBVIOUS
  <2>1. \A t \in Trade : Attempts(t)' = Attempts(t)
    BY DEF Quiet, Attempts
  <2>2. \A t \in Trade : incs[t] \in Nat /\ incs'[t] \in Nat
    BY DEF TypeOK
  <2>3. \A t \in Trade : db'[t].isLimitOrder \in toLoad' => incs'[t] = 0
    BY <2>2 DEF Quiet, SingleInv
  <2>4. \A t \in Trade :
           entry'[<<t, "created">>].place # "none" =>
              toLoad' = {} /\ entry'[<<t, "loaded">>].place = "none"
    BY <1>3, <1>4 DEF Quiet, SingleInv
  <2>5. \A e \in Entry :
           /\ entry'[e].place \in {"pending", "queue"} =>
                 2 * Attempts(e[1]) <= entry'[e].call_open + LoadLimit
           /\ entry'[e].place = "call" =>
                 2 * Attempts(e[1]) <= entry'[e].call_open + 1 + LoadLimit
    BY <1>2 DEF SingleInv
  <2> QED
    BY <1>4, <2>1, <2>3, <2>4, <2>5 DEF Quiet, SingleInv
<1> QED
  BY <1>5, <1>6, <1>7

\* The steps that are quiet.
LEMMA QuietSteps ==
    ASSUME TypeOK,
           \/ CronRead \/ CronApply \/ LoseMarketBatch \/ RouterStep
           \/ \E isLimit \in BOOLEAN : LoadPush(isLimit)
           \/ \E t \in Trade : \/ RequestStep(t) /\ ~CreateTrade(t)
                               \/ LandStep(t) \/ Mine(t) \/ Tick(t)
           \/ UNCHANGED vars
    PROVE  Quiet
<1> USE DEF memVars, chainVars
<1>1. /\ db \in [Trade -> TradeRecord] /\ entry \in [Entry -> TradeObject]
      /\ incs \in [Trade -> Nat]
      /\ \A t \in Trade : db[t] \in TradeRecord /\ incs[t] \in Nat
      /\ \A t \in Trade : db[t].call_open \in Nat
  BY DEF TypeOK, TradeRecord
<1>2. \A r \in TradeRecord :
         /\ \A why : /\ Cancelled(r, why).call_open = r.call_open
                     /\ Cancelled(r, why).isLimitOrder = r.isLimitOrder
                     /\ Cancelled(r, why).state = "CANCELLED"
         /\ \A event : /\ Record(r, event).call_open = r.call_open
                       /\ Record(r, event).isLimitOrder = r.isLimitOrder
                       /\ Record(r, event).state # "NONE"
         /\ Expire(r).call_open = r.call_open
         /\ Expire(r).isLimitOrder = r.isLimitOrder
         /\ Expire(r).state = "NONE" <=> r.state = "NONE"
  BY DEF Cancelled, Record, Expire, TradeRecord
<1>3. ASSUME UNCHANGED <<db, entry, calls, toLoad, incs>> PROVE Quiet
  BY <1>1, <1>3 DEF Quiet, Attempts
<1>a. CASE CronRead \/ RouterWriteFails \/ RouterThrows
  BY <1>3, <1>a DEF CronRead, RouterWriteFails, RouterThrows
<1>b. CASE \E t \in Trade : Mine(t) \/ Tick(t)
  BY <1>3, <1>b DEF Mine, Tick
<1>c. CASE \E t \in Trade : RequestRead(t) \/ UpdateApply(t) \/ RequestWriteFails(t)
  BY <1>3, <1>c DEF RequestRead, UpdateApply, RequestWriteFails
<1>d. CASE UNCHANGED vars
  BY <1>3, <1>d DEF vars
<1>4. ASSUME UNCHANGED <<db, calls, toLoad, incs>>,
             NEW gone \in SUBSET {e \in Entry : entry[e].place # "call"},
             entry' = [e \in Entry |-> IF e \in gone THEN NoObject ELSE entry[e]]
      PROVE  Quiet
  BY <1>1, <1>4 DEF Quiet, Attempts
<1>5. CASE LoseMarketBatch
  BY <1>4, <1>5 DEF LoseMarketBatch, MarketBatch, Queue
<1>6. CASE CronApply
  <2>1. PICK gone \in SUBSET {e \in Entry : e[1] \in cronSnap} :
           /\ \A t \in cronSnap :
                LET q == {e \in Queue(db[t].limitOrderDuration # 0) : e[1] = t}
                IN  \/ q = {} /\ \A e \in gone : e[1] # t
                    \/ \E e \in q : {f \in gone : f[1] = t} = {e}
           /\ entry' = [e \in Entry |-> IF e \in gone THEN NoObject ELSE entry[e]]
    BY <1>6 DEF CronApply
  <2>2. \A e \in gone : e \in Entry /\ entry[e].place = "queue"
    BY <2>1 DEF Queue
  <2>3. gone \in SUBSET {e \in Entry : entry[e].place # "call"}
    BY <2>2
  <2> QED
    BY <1>4, <1>6, <2>1, <2>3 DEF CronApply
<1>7. CASE \E t \in Trade : CancelApply(t)
  <2>1. PICK t \in Trade : CancelApply(t)
    BY <1>7
  <2>2. CASE UNCHANGED entry
    BY <1>1, <2>1, <2>2 DEF CancelApply, Quiet, Attempts
  <2>3. CASE \E gone \in SUBSET {e \in Queue(TRUE) : e[1] = t} :
                entry' = [e \in Entry |-> IF e \in gone THEN NoObject ELSE entry[e]]
    <3>1. \E gone \in SUBSET {e \in Entry : entry[e].place # "call"} :
                entry' = [e \in Entry |-> IF e \in gone THEN NoObject ELSE entry[e]]
      BY <2>3 DEF Queue
    <3> QED
      BY <1>4, <2>1, <3>1 DEF CancelApply
  <2> QED
    BY <2>1, <2>2, <2>3 DEF CancelApply
<1>8. CASE RouterHandle
  <2>1. \E gone \in SUBSET {e \in Entry : entry[e].place # "call"} :
           entry' = [e \in Entry |-> IF e \in gone THEN NoObject ELSE entry[e]]
    BY <1>8 DEF RouterHandle
  <2> QED
    BY <1>4, <1>8, <2>1 DEF RouterHandle
<1>e. ASSUME UNCHANGED <<entry, calls, toLoad, incs>>,
             \A t \in Trade : /\ db'[t].isLimitOrder = db[t].isLimitOrder
                              /\ db'[t].call_open = db[t].call_open
                              /\ db'[t].state = "NONE" => db[t].state = "NONE"
      PROVE  Quiet
  BY <1>1, <1>e DEF Quiet, Attempts
<1>9. CASE RouterWrite
  <2>1. UNCHANGED <<entry, calls, toLoad, incs>>
    BY <1>9 DEF RouterWrite
  <2>2. ASSUME NEW t \in Trade
        PROVE  /\ db'[t].isLimitOrder = db[t].isLimitOrder
               /\ db'[t].call_open = db[t].call_open
               /\ db'[t].state = "NONE" => db[t].state = "NONE"
    <3>1. db'[t] = db[t] \/ \E event : db'[t] = Record(db[t], event)
      BY <1>9 DEF RouterWrite
    <3> QED
      BY <1>1, <1>2, <3>1
  <2> QED
    BY <1>e, <2>1, <2>2
<1>10. CASE \E isLimit \in BOOLEAN : LoadPush(isLimit)
  <2>1. UNCHANGED <<db, calls, toLoad, incs>>
    BY <1>10 DEF LoadPush
  <2>2. ASSUME NEW e \in Entry
        PROVE  \/ entry'[e] = entry[e]
               \/ entry[e].place = "pending" /\ entry'[e] = [entry[e] EXCEPT !.place = "queue"]
    BY <1>10 DEF LoadPush
  <2> QED
    BY <1>1, <2>1, <2>2 DEF Quiet, Attempts
<1>11. CASE \E t \in Trade : CreatePush(t)
  <2>1. UNCHANGED <<db, calls, toLoad, incs>>
    BY <1>11 DEF CreatePush
  <2>2. ASSUME NEW e \in Entry
        PROVE  \/ entry'[e] = entry[e]
               \/ entry[e].place = "pending" /\ entry'[e] = [entry[e] EXCEPT !.place = "queue"]
    BY <1>1, <1>11 DEF CreatePush
  <2> QED
    BY <1>1, <2>1, <2>2 DEF Quiet, Attempts
<1>12. CASE \E t \in Trade : CancelWrite(t) \/ UpdateWrite(t)
  <2>1. PICK t \in Trade : CancelWrite(t) \/ UpdateWrite(t)
    BY <1>12
  <2>2. UNCHANGED <<entry, calls, toLoad, incs>>
    BY <2>1 DEF CancelWrite, UpdateWrite
  <2>3. CASE CancelWrite(t)
    <3>1. \A u \in Trade : db'[u] = IF u = t THEN Cancelled(db[u], "user") ELSE db[u]
      BY <1>1, <2>3 DEF CancelWrite
    <3> QED
      BY <1>1, <1>2, <1>e, <2>2, <3>1
  <2>4. CASE UpdateWrite(t)
    <3>1. \A u \in Trade : \/ db'[u] = db[u]
                           \/ db'[u] = [db[u] EXCEPT !.limitOrderDuration = req[t].duration]
      BY <1>1, <2>4 DEF UpdateWrite
    <3>2. \A u \in Trade : /\ db'[u].isLimitOrder = db[u].isLimitOrder
                           /\ db'[u].call_open = db[u].call_open
                           /\ db'[u].state = db[u].state
      BY <1>1, <3>1 DEF TradeRecord
    <3> QED
      BY <1>e, <2>2, <3>2
  <2> QED
    BY <2>1, <2>3, <2>4
<1>13. CASE \E t \in Trade : LandStep(t)
  <2>1. PICK t \in Trade : LandStep(t)
    BY <1>13
  <2>2. CASE LandExpired(t) \/ LandBusy(t)
    <3>1. UNCHANGED <<entry, calls, toLoad, incs>>
      BY <2>2 DEF LandExpired, LandBusy
    <3>2. \A u \in Trade : \/ db'[u] = db[u]
                           \/ db'[u] = Expire(db[u])
                           \/ db'[u] = Cancelled(db[u], "busy")
      BY <1>1, <2>2 DEF LandExpired, LandBusy
    <3> QED
      BY <1>1, <1>2, <1>e, <3>1, <3>2
  <2>3. CASE LandInc(t)
    <3>1. UNCHANGED <<entry, calls, toLoad>>
      BY <2>3 DEF LandInc
    <3>2. \A u \in Trade : incs'[u] = IF u = t THEN incs[u] - 1 ELSE incs[u]
      BY <1>1, <2>3 DEF LandInc
    <3>3. \A u \in Trade :
             db'[u] = IF u = t THEN [db[u] EXCEPT !.call_open = @ + 1] ELSE db[u]
      BY <1>1, <2>3 DEF LandInc
    <3>4. \A u \in Trade :
             /\ db'[u].isLimitOrder = db[u].isLimitOrder
             /\ db'[u].state = db[u].state
             /\ db'[u].call_open = IF u = t THEN db[u].call_open + 1 ELSE db[u].call_open
      BY <1>1, <3>3 DEF TradeRecord
    <3> QED
      BY <1>1, <3>1, <3>2, <3>4 DEF Quiet, Attempts
  <2> QED
    BY <2>1, <2>2, <2>3 DEF LandStep
<1> QED
  BY <1>5, <1>6, <1>7, <1>8, <1>9, <1>10, <1>11, <1>12, <1>13, <1>a, <1>b, <1>c, <1>d
     DEF RouterStep, RequestStep

-----------------------------------------------------------------------------
(* The steps that create objects, start calls or end them *)

\* What the invariants say of single objects, in a form the steps below can use.
LEMMA Typed ==
    ASSUME TypeOK
    PROVE  /\ db \in [Trade -> TradeRecord] /\ entry \in [Entry -> TradeObject]
           /\ incs \in [Trade -> Nat]
           /\ \A t \in Trade : /\ db[t].call_open \in Nat /\ incs[t] \in Nat
                               /\ Attempts(t) \in Nat /\ db[t].isLimitOrder \in BOOLEAN
                               /\ <<t, "created">> \in Entry /\ <<t, "loaded">> \in Entry
           /\ \A e \in Entry : entry[e].call_open \in Nat /\ e[1] \in Trade
           /\ \A c \in calls : c.batch \subseteq Entry
           /\ MaximumRetry \in Nat /\ LoadLimit \in Nat
<1>1. \A t \in Trade : db[t].call_open \in Nat /\ db[t].isLimitOrder \in BOOLEAN
  BY DEF TypeOK, TradeRecord
<1>2. \A c \in calls : c.batch \subseteq Entry
  BY DEF TypeOK, Call
<1>3. /\ db \in [Trade -> TradeRecord] /\ entry \in [Entry -> TradeObject]
      /\ incs \in [Trade -> Nat]
  BY DEF TypeOK
<1>4. MaximumRetry \in Nat /\ LoadLimit \in Nat
  BY OpenTradeAssumption DEF LoadLimit
<1> QED
  BY <1>1, <1>2, <1>3, <1>4, ValuesTyped DEF Attempts

\* The counters are numbers.
LEMMA Numbers ==
    ASSUME TypeOK
    PROVE  /\ \A t \in Trade : /\ db[t].call_open \in Nat /\ incs[t] \in Nat
                               /\ Attempts(t) \in Nat
           /\ \A e \in Entry : entry[e].call_open \in Nat /\ Attempts(e[1]) \in Nat
           /\ MaximumRetry \in Nat /\ LoadLimit \in Nat
<1> USE Typed
<1>1. \A t \in Trade : Attempts(t) \in Nat
  OBVIOUS
<1>2. \A e \in Entry : e[1] \in Trade
  OBVIOUS
<1> QED
  BY <1>1, <1>2

\* createTrade gives the first object to a trade that has none.
LEMMA CreateTradeKeeps ==
    ASSUME TypeOK, NEW t \in Trade, CreateTrade(t), ObjectInv, CountInv
    PROVE  /\ ObjectInv' /\ CountInv'
           /\ EarlyCreate = FALSE /\ SingleInv => SingleInv'
<1> DEFINE new == <<t, "created">>
<1>1. /\ db[t].state = "NONE" /\ UNCHANGED <<calls, incs, toLoad>>
      /\ EarlyCreate = FALSE => toLoad = {}
  BY OpenTradeAssumption DEF CreateTrade
<1>2. \A e \in Entry : e[1] = t => entry[e].place = "none"
  BY <1>1 DEF ObjectInv
<1>3. /\ \A e \in Entry : e # new => entry'[e] = entry[e]
      /\ entry'[new].place = "pending" /\ entry'[new].call_open = 0
  BY Typed DEF CreateTrade
<1>4. /\ \A u \in Trade : u # t => db'[u] = db[u]
      /\ db'[t].state = "QUEUED" /\ db'[t].call_open = 0
  <2>1. PICK isLimit, d :
           db' = [db EXCEPT ![t] = [NoTrade EXCEPT !.state = "QUEUED",
                         !.isLimitOrder = isLimit, !.limitOrderDuration = d]]
    BY DEF CreateTrade
  <2> QED
    BY <2>1, Typed DEF NoTrade
<1>5. \A u \in Trade : u # t => Attempts(u)' = Attempts(u)
  BY <1>1, <1>4 DEF Attempts
<1>6. Attempts(t)' \in Nat
  BY <1>1, <1>4, Typed DEF Attempts
<1>7. \A e \in Entry : e[1] = t /\ e # new => e = <<t, "loaded">>
  BY DEF Entry, Origin
<1>8. ObjectInv'
  <2>1. OneCallPerObject'
    BY <1>1, <1>2, <1>3, Typed DEF ObjectInv, OneCallPerObject
  <2>2. \A e \in Entry : entry'[e].place # "none" => db'[e[1]].state # "NONE"
    BY <1>3, <1>4, Typed DEF ObjectInv
  <2>3. \A u \in Trade :
           entry'[<<u, "loaded">>].place # "none" => db'[u].isLimitOrder \notin toLoad
    BY ZenonT(60), <1>2, <1>3, <1>4, Typed DEF ObjectInv
  <2> QED
    BY <1>1, <2>1, <2>2, <2>3 DEF ObjectInv
<1>9. CountInv'
  <2> SUFFICES ASSUME NEW e \in Entry
               PROVE /\ entry'[e].call_open <= MaximumRetry + 2
                     /\ entry'[e].place \in {"pending", "queue"} =>
                           /\ entry'[e].call_open <= MaximumRetry + 1
                           /\ entry'[e].call_open <= 2 * Attempts(e[1])'
                     /\ entry'[e].place = "call" =>
                           entry'[e].call_open + 1 <= 2 * Attempts(e[1])'
    BY DEF CountInv, Attempts
  <2>1. CASE e = new
    BY <1>3, <1>6, <2>1, Typed
  <2>2. CASE e # new /\ e[1] = t
    BY <1>2, <1>3, <2>2 DEF CountInv
  <2>3. CASE e[1] # t
    BY <1>3, <1>5, <2>3, Typed DEF CountInv
  <2> QED
    BY <2>1, <2>2, <2>3
<1>10. ASSUME EarlyCreate = FALSE, SingleInv PROVE SingleInv'
  <2>1. toLoad = {} /\ incs[t] = 0
    <3>1. Attempts(t) = 0
      BY <1>1, <1>10 DEF SingleInv
    <3> QED
      BY <1>1, <1>10, <3>1, Numbers DEF Attempts
  <2>2. Attempts(t)' = 0
    BY <1>1, <1>4, <2>1 DEF Attempts
  <2>3. \A u \in Trade : /\ db'[u].state = "NONE" => Attempts(u)' = 0
                         /\ 2 * Attempts(u)' <= 2 * MaximumRetry + 3
    BY <1>4, <1>5, <1>10, <2>2, Typed DEF SingleInv
  <2>4. \A u \in Trade : entry'[<<u, "created">>].place # "none" =>
                             entry'[<<u, "loaded">>].place = "none"
    BY <1>2, <1>3, <1>10, Typed DEF SingleInv
  <2>5. \A e \in Entry :
          /\ entry'[e].place \in {"pending", "queue"} =>
                2 * Attempts(e[1])' <= entry'[e].call_open + LoadLimit
          /\ entry'[e].place = "call" =>
                2 * Attempts(e[1])' <= entry'[e].call_open + 1 + LoadLimit
    <3> TAKE e \in Entry
    <3>1. CASE e[1] = t /\ e # new
      BY <1>2, <1>3, <3>1
    <3>2. CASE e = new
      BY <1>3, <2>2, <3>2, Typed
    <3>3. CASE e[1] # t
      BY <1>3, <1>5, <1>10, <3>3, Typed DEF SingleInv
    <3> QED
      BY <3>1, <3>2, <3>3
  <2> QED
    BY <1>1, <2>1, <2>3, <2>4, <2>5 DEF SingleInv, Attempts
<1> QED
  BY <1>8, <1>9, <1>10

\* A call takes objects out of a queue.
LEMMA StartCallKeeps ==
    ASSUME TypeOK, NEW batch \in SUBSET Entry, StartCall(batch),
           \A e \in batch : entry[e].place = "queue",
           ObjectInv, CountInv
    PROVE  /\ ObjectInv' /\ CountInv'
           /\ SingleInv => SingleInv'
<1>1. /\ UNCHANGED <<db, toLoad>>
      /\ calls' = calls \cup {[batch |-> batch, sent |-> FALSE]}
  BY DEF StartCall
<1>2. /\ \A e \in Entry \ batch : entry'[e] = entry[e]
      /\ \A e \in batch : /\ entry'[e].place = "call"
                           /\ entry'[e].call_open = entry[e].call_open + 1
  BY DEF StartCall
<1>3. /\ \A t \in Trade : incs'[t] = incs[t] + Copies(t, batch) /\ Copies(t, batch) \in Nat
      /\ \A t \in Trade : Attempts(t)' = Attempts(t) + Copies(t, batch)
  <2>1. \A t \in Trade : Copies(t, batch) \in Nat
    BY DEF Copies
  <2>2. \A t \in Trade : incs'[t] = incs[t] + Copies(t, batch)
    BY DEF StartCall
  <2> QED
    BY <1>1, <2>1, <2>2, Numbers DEF Attempts
<1>4. \A e \in batch : Copies(e[1], batch) >= 1
  BY DEF Copies, Entry, Origin
<1>5. ObjectInv'
  <2>1. \A c \in calls : c.batch \cap batch = {}
    BY DEF ObjectInv, OneCallPerObject
  <2>2. OneCallPerObject'
    <3>1. \A c \in calls : \A e \in c.batch : e \in Entry /\ entry'[e].place = "call"
      BY <1>2, <2>1, Typed DEF ObjectInv, OneCallPerObject
    <3>2. \A c \in calls' : c \in calls \/ c = [batch |-> batch, sent |-> FALSE]
      BY <1>1
    <3>3. \A c \in calls' : \A e \in c.batch : entry'[e].place = "call"
      BY <1>2, <3>1, <3>2
    <3>4. \A c, d \in calls' : c # d => c.batch \cap d.batch = {}
      <4>1. \A c, d \in calls : c # d => c.batch \cap d.batch = {}
        <5>1. OneCallPerObject
          BY DEF ObjectInv
        <5> QED
          BY <5>1 DEF OneCallPerObject
      <4>2. \A c \in calls' : c \in calls \/ (c.batch = batch /\ c.sent = FALSE)
        BY <3>2
      <4> TAKE c, d \in calls'
      <4>3. CASE c \in calls /\ d \in calls
        BY <4>1, <4>3
      <4>4. CASE c \notin calls /\ d \notin calls
        BY <3>2, <4>4
      <4>5. CASE (c \in calls) # (d \in calls)
        BY <2>1, <4>2, <4>5
      <4> QED
        BY <4>3, <4>4, <4>5
    <3> QED
      BY <3>3, <3>4 DEF OneCallPerObject
  <2>3. \A e \in Entry : entry'[e].place # "none" => entry[e].place # "none"
    BY <1>2
  <2> QED
    BY <1>1, <2>2, <2>3, Typed DEF ObjectInv
<1>6. CountInv'
  <2> SUFFICES ASSUME NEW e \in Entry
               PROVE /\ entry'[e].call_open <= MaximumRetry + 2
                     /\ entry'[e].place \in {"pending", "queue"} =>
                           /\ entry'[e].call_open <= MaximumRetry + 1
                           /\ entry'[e].call_open <= 2 * Attempts(e[1])'
                     /\ entry'[e].place = "call" =>
                           entry'[e].call_open + 1 <= 2 * Attempts(e[1])'
    BY DEF CountInv, Attempts
  <2>1. /\ entry[e].call_open <= MaximumRetry + 2
        /\ entry[e].place \in {"pending", "queue"} =>
              entry[e].call_open <= MaximumRetry + 1 /\ entry[e].call_open <= 2 * Attempts(e[1])
        /\ entry[e].place = "call" => entry[e].call_open + 1 <= 2 * Attempts(e[1])
    BY DEF CountInv
  <2>2. Attempts(e[1])' = Attempts(e[1]) + Copies(e[1], batch) /\ Copies(e[1], batch) \in Nat
    BY <1>3, Typed
  <2>3. CASE e \in batch
    BY <1>2, <1>4, <2>1, <2>2, <2>3, Numbers
  <2>4. CASE e \notin batch
    BY <1>2, <2>1, <2>2, <2>4, Numbers
  <2> QED
    BY <2>3, <2>4
<1>7. ASSUME SingleInv PROVE SingleInv'
  <2>1. ASSUME NEW e \in batch, NEW f \in Entry, f[1] = e[1], f # e
        PROVE  entry[f].place = "none"
    <3>1. {e, f} = {<<e[1], "created">>, <<e[1], "loaded">>}
      BY <2>1 DEF Entry, Origin
    <3> QED
      BY <1>7, <2>1, <3>1, Typed DEF SingleInv
  <2>2. \A e \in batch : Copies(e[1], batch) = 1
    <3> TAKE e \in batch
    <3>1. <<e[1], "created">> \in Entry /\ <<e[1], "loaded">> \in Entry
      BY Typed
    <3>2. ~(<<e[1], "created">> \in batch /\ <<e[1], "loaded">> \in batch)
      BY <2>1, <3>1
    <3> QED
      BY <1>4, <3>2 DEF Copies
  <2>3. \A t \in Trade : (\A e \in batch : e[1] # t) => Copies(t, batch) = 0
    BY DEF Copies
  <2>4. \A e \in batch : /\ db[e[1]].state # "NONE"
                         /\ db[e[1]].isLimitOrder \notin toLoad
    <3> TAKE e \in batch
    <3>1. e = <<e[1], "created">> \/ e = <<e[1], "loaded">>
      BY DEF Entry, Origin
    <3> QED
      BY <1>7, <3>1, Typed DEF ObjectInv, SingleInv
  <2>5. \A e \in batch : /\ 2 * Attempts(e[1])' <= entry'[e].call_open + 1 + LoadLimit
                         /\ 2 * Attempts(e[1])' <= 2 * MaximumRetry + 3
    <3> TAKE e \in batch
    <3>1. 2 * Attempts(e[1]) <= entry[e].call_open + LoadLimit
      BY <1>7 DEF SingleInv
    <3>2. entry[e].call_open <= MaximumRetry + 1
      BY DEF CountInv
    <3>3. Attempts(e[1])' = Attempts(e[1]) + 1
      BY <1>3, <2>2, Typed
    <3>4. entry'[e].call_open = entry[e].call_open + 1
      BY <1>2
    <3>5. LoadLimit <= MaximumRetry /\ (MaximumRetry # 0 => LoadLimit = MaximumRetry - 1)
      BY Numbers DEF LoadLimit
    <3>6. MaximumRetry = 0 => LoadLimit = 0
      BY DEF LoadLimit
    <3> QED
      BY <3>1, <3>2, <3>3, <3>4, <3>5, <3>6, Numbers
  <2>6. ASSUME NEW t \in Trade
        PROVE  /\ db'[t].state = "NONE" => Attempts(t)' = 0
               /\ 2 * Attempts(t)' <= 2 * MaximumRetry + 3
               /\ db'[t].isLimitOrder \in toLoad' => incs'[t] = 0
    <3>1. CASE \E e \in batch : e[1] = t
      BY <1>1, <2>4, <2>5, <3>1
    <3>2. CASE \A e \in batch : e[1] # t
      <4>1. Attempts(t)' = Attempts(t) /\ incs'[t] = incs[t]
        BY <1>3, <2>3, <3>2, Numbers
      <4> QED
        BY <1>1, <1>7, <4>1 DEF SingleInv
    <3> QED
      BY <3>1, <3>2
  <2>7. \A t \in Trade : entry'[<<t, "created">>].place # "none" =>
                             toLoad' = {} /\ entry'[<<t, "loaded">>].place = "none"
    <3>1. \A e \in Entry : entry'[e].place # "none" <=> entry[e].place # "none"
      BY <1>2
    <3> QED
      BY <1>1, <1>7, <3>1, Typed DEF SingleInv
  <2>8. \A e \in Entry :
          /\ entry'[e].place \in {"pending", "queue"} =>
                2 * Attempts(e[1])' <= entry'[e].call_open + LoadLimit
          /\ entry'[e].place = "call" =>
                2 * Attempts(e[1])' <= entry'[e].call_open + 1 + LoadLimit
    <3> TAKE e \in Entry
    <3>1. CASE e \in batch
      BY <1>2, <2>5, <3>1
    <3>2. CASE e \notin batch /\ \E f \in batch : f[1] = e[1]
      BY <1>2, <2>1, <3>2
    <3>3. CASE \A f \in batch : f[1] # e[1]
      <4>1. Attempts(e[1])' = Attempts(e[1])
        BY <1>3, <2>3, <3>3, Numbers, Typed
      <4>2. entry'[e] = entry[e]
        BY <1>2, <3>3
      <4> QED
        BY <1>7, <4>1, <4>2 DEF SingleInv
    <3> QED
      BY <3>1, <3>2, <3>3
  <2> QED
    BY <2>6, <2>7, <2>8 DEF SingleInv, Attempts
<1> QED
  BY <1>5, <1>6, <1>7

\* A call ends, or its transaction reaches a node.
LEMMA SendKeeps ==
    ASSUME TypeOK, SendOpenTrades, ObjectInv
    PROVE  /\ ObjectInv'
           /\ CountInv => CountInv'
           /\ SingleInv => SingleInv'
<1>1. UNCHANGED <<db, entry, incs, toLoad>>
  BY DEF SendOpenTrades
<1>2. PICK c \in calls : calls' = (calls \ {c}) \cup {[c EXCEPT !.sent = TRUE]}
  BY DEF SendOpenTrades
<1>3. [c EXCEPT !.sent = TRUE].batch = c.batch
  <2>1. c \in Call
    BY DEF TypeOK
  <2> QED
    BY <2>1 DEF Call
<1>4. ASSUME NEW d \in calls'
      PROVE  d \in calls \ {c} \/ (d = [c EXCEPT !.sent = TRUE] /\ d.batch = c.batch)
  <2>1. CASE d = [c EXCEPT !.sent = TRUE]
    BY <1>3, <2>1, Zenon
  <2> QED
    BY <1>2, <2>1
<1>5. OneCallPerObject'
  <2>1. \A d \in calls' : \A e \in d.batch : entry'[e].place = "call"
    BY <1>1, <1>4 DEF ObjectInv, OneCallPerObject
  <2>2. \A d, f \in calls' : d # f => d.batch \cap f.batch = {}
    <3>1. \A d, f \in calls : d # f => d.batch \cap f.batch = {}
      BY DEF ObjectInv, OneCallPerObject
    <3> TAKE d, f \in calls'
    <3>2. CASE d \in calls \ {c} /\ f \in calls \ {c}
      BY <3>1, <3>2
    <3>3. CASE d \in calls \ {c} /\ f.batch = c.batch
      BY <3>1, <3>3
    <3>4. CASE f \in calls \ {c} /\ d.batch = c.batch
      BY <3>1, <3>4
    <3> QED
      BY <1>4, <3>2, <3>3, <3>4, Zenon
  <2> QED
    BY <2>1, <2>2 DEF OneCallPerObject
<1> QED
  BY <1>1, <1>5 DEF ObjectInv, CountInv, SingleInv, Attempts

\* The calls that stay after one of them ended still own their objects.
LEMMA CallGone ==
    ASSUME OneCallPerObject, NEW c \in calls, calls' = calls \ {c},
           \A d \in calls : d.batch \subseteq Entry,
           \A e \in Entry \ c.batch : entry'[e] = entry[e]
    PROVE  OneCallPerObject'
<1>1. \A d \in calls' : d \in calls /\ d.batch \cap c.batch = {}
  BY DEF OneCallPerObject
<1>2. \A d \in calls' : \A e \in d.batch : entry'[e].place = "call"
  BY <1>1 DEF OneCallPerObject
<1>3. \A d, f \in calls' : d # f => d.batch \cap f.batch = {}
  BY <1>1 DEF OneCallPerObject
<1> QED
  BY <1>2, <1>3 DEF OneCallPerObject

LEMMA ResolveKeeps ==
    ASSUME TypeOK, CallResolves, ObjectInv
    PROVE  /\ ObjectInv'
           /\ CountInv => CountInv'
           /\ SingleInv => SingleInv'
<1>1. UNCHANGED <<db, incs, toLoad>>
  BY DEF CallResolves
<1>2. PICK c \in calls :
         /\ calls' = calls \ {c}
         /\ entry' = [e \in Entry |->
                        IF e \in c.batch THEN [entry[e] EXCEPT !.place = "active"] ELSE entry[e]]
  BY DEF CallResolves
<1>3. /\ \A e \in Entry \ c.batch : entry'[e] = entry[e]
      /\ \A e \in c.batch : /\ entry[e].place = "call" /\ entry'[e].place = "active"
                             /\ entry'[e].call_open = entry[e].call_open
  <2>1. \A e \in c.batch : e \in Entry /\ entry[e].place = "call" /\ entry[e] \in TradeObject
    BY Typed DEF ObjectInv, OneCallPerObject
  <2> QED
    BY <1>2, <2>1 DEF TradeObject
<1>4. OneCallPerObject'
  BY <1>2, <1>3, CallGone, Typed DEF ObjectInv
<1>5. \A e \in Entry : \/ entry'[e] = entry[e]
                       \/ /\ entry[e].place = "call" /\ entry'[e].place = "active"
                          /\ entry'[e].call_open = entry[e].call_open
  BY <1>3
<1>6. ObjectInv'
  <2>1. \A e \in Entry : entry'[e].place # "none" => entry[e].place # "none"
    BY <1>5
  <2> QED
    BY <1>1, <1>4, <2>1, Typed DEF ObjectInv
<1>7. CountInv => CountInv'
  BY <1>1, <1>5 DEF CountInv, Attempts
<1>8. ASSUME SingleInv PROVE SingleInv'
  <2>1. \A t \in Trade : Attempts(t)' = Attempts(t)
    BY <1>1 DEF Attempts
  <2>2. \A e \in Entry :
          /\ entry'[e].place \in {"pending", "queue"} =>
                2 * Attempts(e[1])' <= entry'[e].call_open + LoadLimit
          /\ entry'[e].place = "call" =>
                2 * Attempts(e[1])' <= entry'[e].call_open + 1 + LoadLimit
    BY <1>5, <1>8, <2>1, Typed DEF SingleInv
  <2>3. \A e \in Entry : entry'[e].place # "none" <=> entry[e].place # "none"
    BY <1>5
  <2>4. \A t \in Trade : entry'[<<t, "created">>].place # "none" =>
                             toLoad' = {} /\ entry'[<<t, "loaded">>].place = "none"
    BY <1>1, <1>8, <2>3, Typed DEF SingleInv
  <2> QED
    BY <1>1, <1>8, <2>1, <2>2, <2>4 DEF SingleInv
<1> QED
  BY <1>6, <1>7, <1>8

\* What a failed call does to each object of the process.
LEMMA FailEffect ==
    ASSUME TypeOK, CallFails, ObjectInv
    PROVE  \E c \in calls :
              /\ calls' = calls \ {c}
              /\ \A e \in Entry \ c.batch : entry'[e] = entry[e]
              /\ \A e \in c.batch :
                    /\ entry[e].place = "call"
                    /\ \/ /\ entry[e].call_open <= MaximumRetry
                          /\ entry'[e].place = "queue"
                          /\ entry'[e].call_open = entry[e].call_open + 1
                       \/ /\ entry[e].call_open > MaximumRetry
                          /\ entry'[e].place = "none" /\ entry'[e].call_open = 0
              /\ \A t \in Trade : "busy" \in cancels'[t] \ cancels[t] =>
                    \E e \in c.batch : e[1] = t /\ entry[e].call_open > MaximumRetry
<1>1. PICK c \in calls :
         LET retry  == {e \in c.batch : MayRetry(entry[e].call_open)}
             giveUp == c.batch \ retry
         IN  /\ calls' = calls \ {c}
             /\ entry' = [e \in Entry |->
                 IF e \in retry THEN [place |-> "queue", call_open |-> Requeued(entry[e].call_open)]
                 ELSE IF e \in giveUp THEN NoObject
                 ELSE entry[e]]
             /\ cancels' = [t \in Trade |->
                 IF \E e \in giveUp : e[1] = t THEN cancels[t] \cup {"busy"} ELSE cancels[t]]
  BY DEF CallFails
<1>2. \A e \in c.batch : e \in Entry /\ entry[e].place = "call" /\ entry[e].call_open \in Nat
  BY Typed DEF ObjectInv, OneCallPerObject
<1>3. \A e \in c.batch : MayRetry(entry[e].call_open) \/ entry[e].call_open > MaximumRetry
  BY <1>2, Numbers DEF MayRetry
<1>4. \A e \in Entry \ c.batch : entry'[e] = entry[e]
  BY <1>1
<1>5. ASSUME NEW e \in c.batch
      PROVE  \/ /\ entry[e].call_open <= MaximumRetry
                /\ entry'[e].place = "queue"
                /\ entry'[e].call_open = entry[e].call_open + 1
             \/ /\ entry[e].call_open > MaximumRetry
                /\ entry'[e].place = "none" /\ entry'[e].call_open = 0
  BY <1>1, <1>2, <1>3 DEF MayRetry, Requeued, NoObject
<1>6. \A t \in Trade : "busy" \in cancels'[t] \ cancels[t] =>
         \E e \in c.batch : e[1] = t /\ entry[e].call_open > MaximumRetry
  BY <1>1, <1>3
<1> WITNESS c \in calls
<1> QED
  BY <1>1, <1>2, <1>4, <1>5, <1>6

LEMMA FailKeeps ==
    ASSUME TypeOK, CallFails, ObjectInv, CountInv
    PROVE  /\ ObjectInv' /\ CountInv'
           /\ SingleInv => SingleInv'
<1>1. UNCHANGED <<db, incs, toLoad>>
  BY DEF CallFails
<1>2. PICK c \in calls :
         /\ calls' = calls \ {c}
         /\ \A e \in Entry \ c.batch : entry'[e] = entry[e]
         /\ \A e \in c.batch :
               /\ entry[e].place = "call"
               /\ \/ /\ entry[e].call_open <= MaximumRetry
                     /\ entry'[e].place = "queue"
                     /\ entry'[e].call_open = entry[e].call_open + 1
                  \/ /\ entry[e].call_open > MaximumRetry
                     /\ entry'[e].place = "none" /\ entry'[e].call_open = 0
  BY FailEffect
<1>3. \A e \in Entry :
         \/ entry'[e] = entry[e]
         \/ /\ entry[e].place = "call" /\ entry[e].call_open <= MaximumRetry
            /\ entry'[e].place = "queue" /\ entry'[e].call_open = entry[e].call_open + 1
         \/ entry'[e].place = "none" /\ entry'[e].call_open = 0
  BY <1>2
<1>4. \A e \in Entry : entry'[e].place # "none" => entry[e].place # "none"
  BY <1>3
<1>5. \A t \in Trade : Attempts(t)' = Attempts(t)
  BY <1>1 DEF Attempts
<1>6. ObjectInv'
  <2>1. OneCallPerObject'
    BY <1>2, CallGone, Typed DEF ObjectInv
  <2> QED
    BY <1>1, <1>4, <2>1, Typed DEF ObjectInv
<1>7. CountInv'
  <2> SUFFICES ASSUME NEW e \in Entry
               PROVE /\ entry'[e].call_open <= MaximumRetry + 2
                     /\ entry'[e].place \in {"pending", "queue"} =>
                           /\ entry'[e].call_open <= MaximumRetry + 1
                           /\ entry'[e].call_open <= 2 * Attempts(e[1])'
                     /\ entry'[e].place = "call" =>
                           entry'[e].call_open + 1 <= 2 * Attempts(e[1])'
    BY DEF CountInv, Attempts
  <2>1. /\ entry[e].call_open <= MaximumRetry + 2
        /\ entry[e].place \in {"pending", "queue"} =>
              entry[e].call_open <= MaximumRetry + 1 /\ entry[e].call_open <= 2 * Attempts(e[1])
        /\ entry[e].place = "call" => entry[e].call_open + 1 <= 2 * Attempts(e[1])
    BY DEF CountInv
  <2>2. Attempts(e[1])' = Attempts(e[1])
    BY <1>5, Typed
  <2> QED
    BY <1>3, <2>1, <2>2, Numbers
<1>8. ASSUME SingleInv PROVE SingleInv'
  <2>1. \A e \in Entry :
          /\ entry'[e].place \in {"pending", "queue"} =>
                2 * Attempts(e[1])' <= entry'[e].call_open + LoadLimit
          /\ entry'[e].place = "call" =>
                2 * Attempts(e[1])' <= entry'[e].call_open + 1 + LoadLimit
    <3> TAKE e \in Entry
    <3>1. /\ entry[e].place \in {"pending", "queue"} =>
                2 * Attempts(e[1]) <= entry[e].call_open + LoadLimit
          /\ entry[e].place = "call" =>
                2 * Attempts(e[1]) <= entry[e].call_open + 1 + LoadLimit
      BY <1>8 DEF SingleInv
    <3>2. Attempts(e[1])' = Attempts(e[1])
      BY <1>5, Typed
    <3> QED
      BY <1>3, <3>1, <3>2, Numbers
  <2>2. \A t \in Trade : entry'[<<t, "created">>].place # "none" =>
                             toLoad' = {} /\ entry'[<<t, "loaded">>].place = "none"
    BY <1>1, <1>4, <1>8, Typed DEF SingleInv
  <2> QED
    BY <1>1, <1>5, <1>8, <2>1, <2>2 DEF SingleInv
<1> QED
  BY <1>6, <1>7, <1>8

\* A loader takes back QUEUED trades whose attempts are not used up; none of them has an
\* object of a loader yet.
LEMMA LoadReadKeeps ==
    ASSUME TypeOK, NEW isLimit \in BOOLEAN, LoadRead(isLimit), ObjectInv, CountInv
    PROVE  /\ ObjectInv' /\ CountInv'
           /\ SingleInv => SingleInv'
<1> DEFINE read == {e \in Entry : e[2] = "loaded" /\ Loadable(e[1], isLimit)}
<1>1. /\ UNCHANGED <<db, calls, incs>>
      /\ isLimit \in toLoad /\ toLoad' = toLoad \ {isLimit}
  BY DEF LoadRead
<1>2. /\ \A e \in Entry \ read : entry'[e] = entry[e]
      /\ \A e \in read : /\ entry'[e].place = "pending"
                          /\ entry'[e].call_open = db[e[1]].call_open
  BY DEF LoadRead
<1>3. \A e \in read : /\ e = <<e[1], "loaded">> /\ e[1] \in Trade
                      /\ db[e[1]].state = "QUEUED" /\ db[e[1]].isLimitOrder = isLimit
                      /\ db[e[1]].call_open < MaximumRetry
  BY Typed DEF Entry, Loadable
<1>4. \A e \in read : entry[e].place = "none"
  BY <1>1, <1>3 DEF ObjectInv
<1>5. \A t \in Trade : Attempts(t)' = Attempts(t)
  BY <1>1 DEF Attempts
<1>6. ObjectInv'
  <2>1. OneCallPerObject'
    <3>1. \A c \in calls : c.batch \cap read = {}
      BY <1>4 DEF ObjectInv, OneCallPerObject
    <3>2. \A c \in calls : \A e \in c.batch : entry'[e] = entry[e]
      BY <1>2, <3>1, Typed
    <3> QED
      BY <1>1, <3>2 DEF ObjectInv, OneCallPerObject
  <2>2. \A e \in Entry : entry'[e].place # "none" => db'[e[1]].state # "NONE"
    <3> TAKE e \in Entry
    <3>1. CASE e \in read
      BY <1>1, <1>3, <3>1
    <3>2. CASE e \notin read
      BY <1>1, <1>2, <3>2 DEF ObjectInv
    <3> QED
      BY <3>1, <3>2
  <2>3. \A t \in Trade :
           entry'[<<t, "loaded">>].place # "none" => db'[t].isLimitOrder \notin toLoad'
    <3> TAKE t \in Trade
    <3>1. CASE <<t, "loaded">> \in read
      BY <1>1, <1>3, <3>1
    <3>2. CASE <<t, "loaded">> \notin read
      BY <1>1, <1>2, <3>2, Typed DEF ObjectInv
    <3> QED
      BY <3>1, <3>2
  <2> QED
    BY <2>1, <2>2, <2>3 DEF ObjectInv
<1>7. \A e \in read : entry'[e].call_open <= MaximumRetry
                      /\ entry'[e].call_open <= 2 * Attempts(e[1])
  <2> TAKE e \in read
  <2>1. Attempts(e[1]) = db[e[1]].call_open + incs[e[1]]
    BY DEF Attempts
  <2> QED
    BY <1>2, <1>3, <2>1, Numbers
<1>8. CountInv'
  <2> SUFFICES ASSUME NEW e \in Entry
               PROVE /\ entry'[e].call_open <= MaximumRetry + 2
                     /\ entry'[e].place \in {"pending", "queue"} =>
                           /\ entry'[e].call_open <= MaximumRetry + 1
                           /\ entry'[e].call_open <= 2 * Attempts(e[1])'
                     /\ entry'[e].place = "call" =>
                           entry'[e].call_open + 1 <= 2 * Attempts(e[1])'
    BY DEF CountInv, Attempts
  <2>1. Attempts(e[1])' = Attempts(e[1])
    BY <1>5, Typed
  <2>2. CASE e \in read
    <3>1. entry'[e].call_open \in Nat
      BY <1>2, <1>3, <2>2, Numbers
    <3> QED
      BY <1>2, <1>7, <2>1, <2>2, <3>1, Numbers
  <2>3. CASE e \notin read
    BY <1>2, <2>1, <2>3 DEF CountInv
  <2> QED
    BY <2>2, <2>3
<1>9. ASSUME SingleInv PROVE SingleInv'
  <2>1. \A t \in Trade : entry[<<t, "created">>].place = "none"
    BY <1>1, <1>9 DEF SingleInv
  <2>2. \A t \in Trade : entry'[<<t, "created">>].place = "none"
    <3>1. \A t \in Trade : <<t, "created">> \notin read
      OBVIOUS
    <3> QED
      BY <1>2, <2>1, <3>1, Typed
  <2>3. \A e \in read : 2 * Attempts(e[1]) <= entry'[e].call_open + LoadLimit
    <3> TAKE e \in read
    <3>1. incs[e[1]] = 0
      BY <1>1, <1>3, <1>9 DEF SingleInv
    <3>2. Attempts(e[1]) = db[e[1]].call_open
      BY <1>3, <3>1, Numbers DEF Attempts
    <3>3. db[e[1]].call_open <= LoadLimit
      BY <1>3, Numbers DEF LoadLimit
    <3> QED
      BY <1>2, <1>3, <3>2, <3>3, Numbers
  <2>4. \A e \in Entry :
          /\ entry'[e].place \in {"pending", "queue"} =>
                2 * Attempts(e[1])' <= entry'[e].call_open + LoadLimit
          /\ entry'[e].place = "call" =>
                2 * Attempts(e[1])' <= entry'[e].call_open + 1 + LoadLimit
    <3> TAKE e \in Entry
    <3>1. Attempts(e[1])' = Attempts(e[1])
      BY <1>5, Typed
    <3>2. CASE e \in read
      BY <1>2, <2>3, <3>1, <3>2
    <3>3. CASE e \notin read
      BY <1>2, <1>9, <3>1, <3>3 DEF SingleInv
    <3> QED
      BY <3>2, <3>3
  <2>5. \A t \in Trade : db'[t].isLimitOrder \in toLoad' => incs'[t] = 0
    BY <1>1, <1>9 DEF SingleInv
  <2> QED
    BY <1>1, <1>5, <1>9, <2>2, <2>4, <2>5 DEF SingleInv
<1> QED
  BY <1>6, <1>8, <1>9

\* A crash empties the memory; what the collection counted stays.
LEMMA CrashKeeps ==
    ASSUME TypeOK, Crash
    PROVE  /\ ObjectInv' /\ CountInv'
           /\ SingleInv => SingleInv'
<1>1. /\ UNCHANGED db /\ calls' = {} /\ toLoad' = BOOLEAN
      /\ \A e \in Entry : entry'[e].place = "none" /\ entry'[e].call_open = 0
      /\ \A t \in Trade : incs'[t] = 0
  BY DEF Crash, NoObject
<1>2. ObjectInv'
  BY <1>1, Typed DEF ObjectInv, OneCallPerObject
<1>3. CountInv'
  BY <1>1, Numbers DEF CountInv
<1>4. ASSUME SingleInv PROVE SingleInv'
  <2>1. \A t \in Trade : /\ Attempts(t)' = db[t].call_open
                         /\ Attempts(t)' <= Attempts(t) /\ Attempts(t)' >= 0
    BY <1>1, Numbers DEF Attempts
  <2>2. \A t \in Trade : /\ db[t].state = "NONE" => Attempts(t)' = 0
                         /\ 2 * Attempts(t)' <= 2 * MaximumRetry + 3
    <3> TAKE t \in Trade
    <3>1. /\ db[t].state = "NONE" => Attempts(t) = 0
          /\ 2 * Attempts(t) <= 2 * MaximumRetry + 3
      BY <1>4 DEF SingleInv
    <3>2. Attempts(t)' \in Nat
      BY <2>1, Numbers
    <3> QED
      BY <2>1, <3>1, <3>2, Numbers
  <2> QED
    BY <1>1, <2>2, Typed DEF SingleInv
<1> QED
  BY <1>2, <1>3, <1>4

-----------------------------------------------------------------------------
(* The invariants, and what they say of the properties *)

LEMMA CountsInit ==
    ASSUME Init
    PROVE  ObjectInv /\ CountInv /\ SingleInv
<1>1. /\ \A e \in Entry : entry[e].place = "none" /\ entry[e].call_open = 0 /\ e[1] \in Trade
      /\ \A t \in Trade : <<t, "created">> \in Entry /\ <<t, "loaded">> \in Entry
      /\ \A t \in Trade : incs[t] = 0 /\ db[t].call_open = 0
      /\ calls = {}
  BY ValuesTyped DEF Init, NoObject, NoTrade
<1>2. \A t \in Trade : Attempts(t) = 0
  BY <1>1 DEF Attempts
<1>3. MaximumRetry \in Nat
  BY OpenTradeAssumption
<1>4. ObjectInv
  BY <1>1 DEF ObjectInv, OneCallPerObject
<1>5. CountInv
  BY <1>1, <1>3 DEF CountInv
<1>6. SingleInv
  BY <1>1, <1>2, <1>3 DEF SingleInv
<1> QED
  BY <1>4, <1>5, <1>6

LEMMA CountsStep ==
    ASSUME TypeOK, TypeOK', ObjectInv, CountInv, [Next]_vars
    PROVE  /\ ObjectInv' /\ CountInv'
           /\ EarlyCreate = FALSE /\ SingleInv => SingleInv'
<1> DEFINE Kept == /\ ObjectInv' /\ CountInv'
                   /\ EarlyCreate = FALSE /\ SingleInv => SingleInv'
<1>1. ASSUME \/ CronRead \/ CronApply \/ LoseMarketBatch \/ RouterStep
             \/ \E isLimit \in BOOLEAN : LoadPush(isLimit)
             \/ \E t \in Trade : \/ RequestStep(t) /\ ~CreateTrade(t)
                                 \/ LandStep(t) \/ Mine(t) \/ Tick(t)
             \/ UNCHANGED vars
      PROVE  Kept
  BY <1>1, QuietSteps, QuietKeeps
<1>2. ASSUME NEW t \in Trade, CreateTrade(t) PROVE Kept
  BY <1>2, CreateTradeKeeps
<1>3. ASSUME ProcessTradeMarket \/ ProcessTradeLimit PROVE Kept
  <2>1. PICK batch \in SUBSET Entry :
           StartCall(batch) /\ \A e \in batch : entry[e].place = "queue"
    BY <1>3 DEF ProcessTradeMarket, ProcessTradeLimit, MarketBatch, Queue
  <2> QED
    BY <2>1, StartCallKeeps
<1>4. ASSUME SendOpenTrades PROVE Kept
  BY <1>4, SendKeeps
<1>5. ASSUME CallResolves PROVE Kept
  BY <1>5, ResolveKeeps
<1>6. ASSUME CallFails PROVE Kept
  BY <1>6, FailKeeps
<1>7. ASSUME NEW isLimit \in BOOLEAN, LoadRead(isLimit) PROVE Kept
  BY <1>7, LoadReadKeeps
<1>8. ASSUME Crash PROVE Kept
  BY <1>8, CrashKeeps
<1> HIDE DEF Kept
<1>9. ASSUME \E t \in Trade : RequestStep(t) \/ LandStep(t) \/ Mine(t) \/ Tick(t)
      PROVE  Kept
  BY <1>1, <1>2, <1>9
<1>10. ASSUME JobStep PROVE Kept
  BY <1>1, <1>3, <1>4, <1>5, <1>6, <1>10 DEF JobStep
<1>11. ASSUME LoadStep PROVE Kept
  BY <1>1, <1>7, <1>11 DEF LoadStep
<1>12. Kept
  BY <1>1, <1>8, <1>9, <1>10, <1>11 DEF Next
<1> QED
  BY <1>12 DEF Kept

LEMMA CountsHold == Spec => [](ObjectInv /\ CountInv)
<1>1. Init => ObjectInv /\ CountInv
  BY CountsInit
<1>2. ObjectInv /\ CountInv /\ TypeOK /\ TypeOK' /\ [Next]_vars => (ObjectInv /\ CountInv)'
  BY CountsStep
<1> QED
  BY <1>1, <1>2, TypeCorrect, PTL DEF Spec

LEMMA SingleHolds == ASSUME EarlyCreate = FALSE PROVE Spec => []SingleInv
<1>1. Init => SingleInv
  BY CountsInit
<1>2. /\ SingleInv /\ ObjectInv /\ CountInv /\ TypeOK /\ TypeOK' /\ [Next]_vars
      => SingleInv'
  BY CountsStep
<1> QED
  BY <1>1, <1>2, TypeCorrect, CountsHold, PTL DEF Spec

\* No object is in two transactions at once, or in a transaction and a queue: for any
\* number of trades, jobs that overlap, retries, crashes and doubled objects.
THEOREM OneCallPerObjectHolds == Spec => []OneCallPerObject
<1>1. ObjectInv => OneCallPerObject
  BY DEF ObjectInv
<1> QED
  BY <1>1, CountsHold, PTL

\* call_open stays within its bounds, in memory and in the collection, if createTrade is
\* not served before the loaders have read.
THEOREM CallBoundsHolds == ASSUME EarlyCreate = FALSE PROVE Spec => []CallBounds
<1>1. TypeOK /\ CountInv /\ SingleInv => CallBounds
  <2> SUFFICES ASSUME TypeOK, CountInv, SingleInv PROVE CallBounds
    OBVIOUS
  <2>1. ASSUME NEW e \in Entry
        PROVE  entry[e].call_open <= MaximumRetry + (IF entry[e].place = "queue" THEN 1 ELSE 2)
    BY Numbers DEF CountInv
  <2>2. ASSUME NEW t \in Trade
        PROVE  db[t].call_open + incs[t] <= MaximumRetry + (IF EarlyCreate THEN 3 ELSE 1)
    <3>1. 2 * Attempts(t) <= 2 * MaximumRetry + 3
      BY DEF SingleInv
    <3>2. Attempts(t) <= MaximumRetry + 1
      BY <3>1, Numbers
    <3> QED
      BY <3>2 DEF Attempts
  <2> QED
    BY <2>1, <2>2 DEF CallBounds
<1> QED
  BY <1>1, TypeCorrect, CountsHold, SingleHolds, PTL

\* "Blockchain is busy" is recorded only after more than half of maximumRetry attempts.
THEOREM GivenUpOnlyAfterRetriesHolds == Spec => GivenUpOnlyAfterRetries
<1>1. TypeOK /\ ObjectInv /\ CountInv /\ [Next]_vars =>
        [\A t \in Trade : "busy" \in cancels'[t] \ cancels[t]
          => 2 * (db[t].call_open + incs[t]) >= MaximumRetry + 2]_vars
  <2> SUFFICES ASSUME TypeOK, ObjectInv, CountInv, Next,
                      NEW t \in Trade, "busy" \in cancels'[t] \ cancels[t]
               PROVE  2 * (db[t].call_open + incs[t]) >= MaximumRetry + 2
    OBVIOUS
  <2>1. CASE CallFails
    <3>1. PICK e \in Entry : /\ e[1] = t /\ entry[e].place = "call"
                             /\ entry[e].call_open > MaximumRetry
      BY <2>1, FailEffect, Typed
    <3>2. entry[e].call_open + 1 <= 2 * Attempts(t)
      BY <3>1 DEF CountInv
    <3>3. MaximumRetry + 2 <= 2 * Attempts(t)
      BY <3>1, <3>2, Numbers
    <3> QED
      BY <3>3, Numbers DEF Attempts
  <2>2. CASE ~CallFails
    <3>1. "busy" \notin cancels'[t] \ cancels[t]
      <4>1. cancels \in [Trade -> SUBSET {"expired", "busy"}]
        BY DEF TypeOK
      <4>2. CASE \E u \in Trade : RequestStep(u) \/ LandStep(u) \/ Mine(u) \/ Tick(u)
        <5>1. PICK u \in Trade : RequestStep(u) \/ LandStep(u) \/ Mine(u) \/ Tick(u)
          BY <4>2
        <5>2. CASE RequestStep(u)
          BY <5>2 DEF RequestStep, CreateTrade, CreatePush, RequestRead, RequestWriteFails,
                      CancelApply, CancelWrite, UpdateApply, UpdateWrite
        <5>3. CASE LandStep(u)
          BY <4>1, <5>3 DEF LandStep, LandInc, LandExpired, LandBusy
        <5>4. CASE Mine(u) \/ Tick(u)
          BY <5>4 DEF Mine, Tick, memVars
        <5> QED
          BY <5>1, <5>2, <5>3, <5>4
      <4>3. CASE JobStep
        <5>1. CASE CronApply
          BY <4>1, <5>1 DEF CronApply
        <5>2. CASE ProcessTradeMarket \/ ProcessTradeLimit
          <6>1. PICK batch : StartCall(batch)
            BY <5>2 DEF ProcessTradeMarket, ProcessTradeLimit
          <6> QED
            BY <6>1 DEF StartCall
        <5>3. CASE CronRead \/ LoseMarketBatch \/ SendOpenTrades \/ CallResolves
          BY <5>3 DEF CronRead, LoseMarketBatch, SendOpenTrades, CallResolves
        <5> QED
          BY <2>2, <4>3, <5>1, <5>2, <5>3 DEF JobStep
      <4>4. CASE LoadStep \/ RouterStep \/ Crash
        BY <4>1, <4>4 DEF LoadStep, LoadRead, LoadPush, RouterStep, RouterHandle,
              RouterWrite, RouterWriteFails, RouterThrows, Crash, memVars
      <4> QED
        BY <4>2, <4>3, <4>4 DEF Next
    <3> QED
      BY <3>1
  <2> QED
    BY <2>1, <2>2
<1> QED
  BY <1>1, TypeCorrect, CountsHold, PTL DEF Spec, GivenUpOnlyAfterRetries

\* A cancelled or opened trade that no array holds never gets an object again.
THEOREM OnlyQueuedEnterHolds == Spec => OnlyQueuedEnter
<1>1. TypeOK /\ TypeOK' /\ ObjectInv /\ [Next]_vars =>
        [\A e \in Entry : entry[e].place = "none" /\ entry'[e].place # "none"
                           => db[e[1]].state \in {"NONE", "QUEUED"}]_vars
  <2> SUFFICES ASSUME TypeOK, TypeOK', ObjectInv, Next,
                      NEW e \in Entry, entry[e].place = "none", entry'[e].place # "none"
               PROVE  db[e[1]].state \in {"NONE", "QUEUED"}
    OBVIOUS
  <2>1. ~Quiet
    <3>1. entry'[e] # entry[e] /\ entry'[e] # NoObject /\ entry[e].place # "pending"
      BY DEF NoObject
    <3> QED
      BY <3>1 DEF Quiet
  <2>2. CASE \E t \in Trade : CreateTrade(t)
    <3>1. PICK t \in Trade : CreateTrade(t)
      BY <2>2
    <3>2. e = <<t, "created">>
      BY <3>1, Typed DEF CreateTrade
    <3> QED
      BY <3>1, <3>2 DEF CreateTrade
  <2>3. CASE ProcessTradeMarket \/ ProcessTradeLimit
    BY <2>3 DEF ProcessTradeMarket, ProcessTradeLimit, MarketBatch, StartCall, Queue
  <2>4. CASE SendOpenTrades
    BY <2>4 DEF SendOpenTrades
  <2>5. CASE CallResolves
    BY <2>5 DEF CallResolves, ObjectInv, OneCallPerObject
  <2>6. CASE CallFails
    BY <2>6, FailEffect
  <2>7. CASE \E isLimit \in BOOLEAN : LoadRead(isLimit)
    BY <2>7 DEF LoadRead, Loadable
  <2>8. CASE Crash
    BY <2>8 DEF Crash, NoObject
  <2> QED
    BY <2>1, <2>2, <2>3, <2>4, <2>5, <2>6, <2>7, <2>8, QuietSteps
       DEF Next, JobStep, LoadStep
<1> QED
  BY <1>1, TypeCorrect, CountsHold, PTL DEF Spec, OnlyQueuedEnter
=============================================================================
