---------------------------- MODULE TradeLedger ----------------------------
(***************************************************************************)
(* What the opening pipeline, the closing pipeline and the two jobs that   *)
(* read the chain promise together: the collection follows the contract.   *)
(* A trade is recorded OPENED only after the contract opened it and CLOSED *)
(* only after the contract closed it and its opening was recorded, and no  *)
(* opening is recorded after that.  OpenTrade, CloseTrade and EventSync    *)
(* implement it, each with its own idea of the contract.                   *)
(*                                                                         *)
(* One bulkWrite may record many trades, so a step records any set of      *)
(* them.  The contract executes one trade at a time.                       *)
(***************************************************************************)
EXTENDS TLAPS

CONSTANT Trade

VARIABLES
    recorded, \* what the trades collection says of each trade
    contract  \* what the contract did with it

vars == <<recorded, contract>>

Recorded == {"none", "queued", "opened", "cancelled", "closed"}
Contract == {"none", "open", "closed"}

Init ==
    /\ recorded \in [Trade -> {"none", "queued"}]
    /\ contract = [t \in Trade |-> "none"]

\* The ways from one recorded state to another, for a trade the contract is at c with.
\* An opening may be recorded again, and over a cancellation: the contract has the last
\* word.  A cancellation may come after the opening: its write does not name the state.
May(from, to, c) ==
    \/ from = to
    \/ from = "none" /\ to = "queued"
    \/ from \in {"queued", "cancelled"} /\ to = "opened" /\ c # "none"
    \/ from \in {"queued", "opened"} /\ to = "cancelled"
    \/ from = "opened" /\ to = "closed" /\ c = "closed"

RecordTrades ==
    /\ recorded' \in [Trade -> Recorded]
    /\ \A t \in Trade : May(recorded[t], recorded'[t], contract[t])
    /\ UNCHANGED contract

OpenOnChain(t) ==
    /\ recorded[t] # "none"
    /\ contract[t] = "none"
    /\ contract' = [contract EXCEPT ![t] = "open"]
    /\ UNCHANGED recorded

CloseOnChain(t) ==
    /\ contract[t] = "open"
    /\ contract' = [contract EXCEPT ![t] = "closed"]
    /\ UNCHANGED recorded

Next == RecordTrades \/ \E t \in Trade : OpenOnChain(t) \/ CloseOnChain(t)

Spec == Init /\ [][Next]_vars

\* The collection is never ahead of the contract.
RecordFollowsChain ==
    \A t \in Trade :
       /\ recorded[t] = "opened" => contract[t] # "none"
       /\ recorded[t] = "closed" => contract[t] = "closed"

-----------------------------------------------------------------------------
(* What it says of every trade, whoever implements it. *)

\* The inductive invariant: both functions are of their types, and the record follows the
\* contract.
LedgerInv ==
    /\ recorded \in [Trade -> Recorded]
    /\ contract \in [Trade -> Contract]
    /\ RecordFollowsChain

\* No step the collection may take lets it run ahead of the contract.
LEMMA LedgerInvStep == LedgerInv /\ [Next]_vars => LedgerInv'
<1> SUFFICES ASSUME LedgerInv, [Next]_vars PROVE LedgerInv'
  OBVIOUS
<1>1. CASE RecordTrades
  BY <1>1 DEF RecordTrades, May, LedgerInv, RecordFollowsChain
<1>2. ASSUME NEW t \in Trade, OpenOnChain(t) PROVE LedgerInv'
  BY <1>2 DEF OpenOnChain, LedgerInv, RecordFollowsChain, Contract
<1>3. ASSUME NEW t \in Trade, CloseOnChain(t) PROVE LedgerInv'
  BY <1>3 DEF CloseOnChain, LedgerInv, RecordFollowsChain, Contract
<1>4. CASE UNCHANGED vars
  BY <1>4 DEF vars, LedgerInv, RecordFollowsChain
<1> QED
  BY <1>1, <1>2, <1>3, <1>4 DEF Next

\* A trade is recorded OPENED only after the contract opened it and CLOSED only after the
\* contract closed it, in whatever implements TradeLedger.
THEOREM RecordFollowsChainHolds == Spec => []RecordFollowsChain
<1>1. Init => LedgerInv
  BY DEF Init, LedgerInv, RecordFollowsChain, Recorded, Contract
<1>2. LedgerInv => RecordFollowsChain
  BY DEF LedgerInv
<1> QED
  BY <1>1, <1>2, LedgerInvStep, PTL DEF Spec

\* A trade that is recorded CLOSED stays so: nothing that is read again, retried or loaded
\* after a restart reopens or cancels it.
THEOREM ClosedForGood ==
    Spec => [][\A t \in Trade : recorded[t] = "closed" => recorded'[t] = "closed"]_vars
<1>1. [Next]_vars => [\A t \in Trade : recorded[t] = "closed" => recorded'[t] = "closed"]_vars
  BY DEF Next, RecordTrades, May, OpenOnChain, CloseOnChain, vars
<1> QED
  BY <1>1, PTL DEF Spec
=============================================================================
