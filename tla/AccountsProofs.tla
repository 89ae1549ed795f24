--------------------------- MODULE AccountsProofs ---------------------------
(* What Accounts guarantees for any number of users, networks, requests    *)
(* and failures.                                                           *)
EXTENDS Accounts, DataFacts

-----------------------------------------------------------------------------
(* The requests *)

\* Only register and approve read a wallet of their own.
FlagRequests ==
    \A c \in Client :
       req[c].op # "idle" /\ req[c].pc \in {"wallet", "send", "flag"} => req[c].op \in Flag

TypeInv == TypeOK /\ FlagRequests

-----------------------------------------------------------------------------
(* What the values the actions write look like *)

LEMMA RequestFields ==
    ASSUME NEW r \in Request
    PROVE  /\ r.op \in AllOps \cup {"idle"} /\ r.user \in User /\ r.network \in Network
           /\ r.pc \in {"taken", "create", "find", "save", "insert", "all", "wallet", "send", "flag"}
           /\ r.nonce \in Nat /\ r.wallet \in Nat /\ r.on \in BOOLEAN /\ r.other \in BOOLEAN
           /\ r.todo \subseteq Branch /\ r.ok \in BOOLEAN
  BY DEF Request

LEMMA NoReqTyped == NoReq \in Request /\ NoReq.op = "idle" /\ NoReq.pc = "find" /\ NoReq.todo = {}
<1>1. (CHOOSE u \in User : TRUE) \in User /\ (CHOOSE n \in Network : TRUE) \in Network
  BY AccountsAssumption
<1> QED
  BY <1>1 DEF NoReq, Request

\* The requests that begin.
LEMMA NewNonce == \A u \in User :
    LET r == [NoReq EXCEPT !.op = "nonce", !.user = u, !.pc = "taken"]
    IN  r \in Request /\ r.op = "nonce" /\ r.user = u /\ r.pc = "taken"
  BY NoReqTyped DEF NoReq, Request, AllOps
Login(u, n, k) ==
    [NoReq EXCEPT !.op = "login", !.user = u, !.network = n, !.pc = "find", !.nonce = k]
LEMMA NewLogin == \A u \in User, n \in Network, k \in Nat :
    LET r == Login(u, n, k)
    IN  r \in Request /\ r.op = "login" /\ r.user = u /\ r.pc = "find" /\ r.nonce = k
<1> SUFFICES ASSUME NEW u \in User, NEW n \in Network, NEW k \in Nat
             PROVE  LET r == [NoReq EXCEPT !.op = "login", !.user = u, !.network = n, !.pc = "find", !.nonce = k]
                    IN  r \in Request /\ r.op = "login" /\ r.user = u /\ r.pc = "find" /\ r.nonce = k
  BY DEF Login
<1> DEFINE r == [NoReq EXCEPT !.op = "login", !.user = u, !.network = n, !.pc = "find", !.nonce = k]
<1>1. r \in Request
  BY NoReqTyped DEF NoReq, Request, AllOps, Flag
<1>2. r.op = "login" /\ r.user = u /\ r.pc = "find" /\ r.nonce = k
  BY DEF NoReq
<1> QED
  BY <1>1, <1>2
LEMMA NewRefresh == \A u \in User :
    LET r == [NoReq EXCEPT !.op = "refresh", !.user = u, !.pc = "all", !.todo = {"access", "refresh"}]
    IN  r \in Request /\ r.op = "refresh" /\ r.user = u /\ r.pc = "all"
  BY NoReqTyped DEF NoReq, Request, AllOps, Branch
Asks(op, u, n, on) ==
    [NoReq EXCEPT !.op = op, !.user = u, !.network = n, !.pc = "wallet", !.on = on]
LEMMA NewFlag == \A u \in User, n \in Network, op \in Flag, on \in BOOLEAN :
    LET r == Asks(op, u, n, on)
    IN  r \in Request /\ r.op = op /\ r.user = u /\ r.network = n /\ r.pc = "wallet"
<1> SUFFICES ASSUME NEW u \in User, NEW n \in Network, NEW op \in Flag, NEW on \in BOOLEAN
             PROVE  LET r == [NoReq EXCEPT !.op = op, !.user = u, !.network = n, !.pc = "wallet", !.on = on]
                    IN  r \in Request /\ r.op = op /\ r.user = u /\ r.network = n /\ r.pc = "wallet"
  BY DEF Asks
<1> DEFINE r == [NoReq EXCEPT !.op = op, !.user = u, !.network = n, !.pc = "wallet", !.on = on]
<1>1. r \in Request
  BY NoReqTyped DEF NoReq, Request, AllOps, Flag
<1>2. r.op = op /\ r.user = u /\ r.network = n /\ r.pc = "wallet"
  BY DEF NoReq
<1> QED
  BY <1>1, <1>2

\* What the steps of a request make of it.
Same(r, q) == q.op = r.op /\ q.user = r.user /\ q.network = r.network /\ q.nonce = r.nonce

LEMMA ToPc == \A r \in Request, pc \in {"create", "insert", "flag"} :
    LET q == [r EXCEPT !.pc = pc]
    IN  q \in Request /\ Same(r, q) /\ q.pc = pc /\ q.wallet = r.wallet /\ q.on = r.on
  BY DEF Request, Same
LEMMA ToAll == \A r \in Request :
    LET q == [r EXCEPT !.pc = "all", !.todo = Branch]
    IN  q \in Request /\ Same(r, q) /\ q.pc = "all" /\ q.todo = Branch
  BY DEF Request, Same
LEMMA ToSave == \A r \in Request, k \in Nat :
    LET q == [r EXCEPT !.pc = "save", !.wallet = k]
    IN  q \in Request /\ Same(r, q) /\ q.pc = "save" /\ q.wallet = k
  BY DEF Request, Same
LEMMA ToTodo == \A r \in Request, todo \in SUBSET Branch :
    LET q == [r EXCEPT !.todo = todo]
    IN  q \in Request /\ Same(r, q) /\ q.pc = r.pc /\ q.todo = todo /\ q.ok = r.ok
  BY DEF Request, Same
Branched(r, todo, ok) == [r EXCEPT !.todo = todo, !.ok = ok]
LEMMA ToOk == \A r \in Request, todo \in SUBSET Branch, ok \in BOOLEAN :
    LET q == Branched(r, todo, ok)
    IN  q \in Request /\ Same(r, q) /\ q.pc = r.pc /\ q.todo = todo /\ q.ok = ok
<1> SUFFICES ASSUME NEW r \in Request, NEW todo \in SUBSET Branch, NEW ok \in BOOLEAN
             PROVE  LET q == [r EXCEPT !.todo = todo, !.ok = ok]
                    IN  q \in Request /\ Same(r, q) /\ q.pc = r.pc /\ q.todo = todo /\ q.ok = ok
  BY DEF Branched
<1> DEFINE q == [r EXCEPT !.todo = todo, !.ok = ok]
<1>1. q \in Request
  BY DEF Request
<1>2. Same(r, q)
  BY DEF Request, Same
<1>3. q.pc = r.pc /\ q.todo = todo /\ q.ok = ok
  BY DEF Request
<1> QED
  BY <1>1, <1>2, <1>3
Found(r, k, other) == [r EXCEPT !.pc = "send", !.wallet = k, !.other = other]
LEMMA ToSend == \A r \in Request, k \in Nat, other \in BOOLEAN :
    LET q == Found(r, k, other)
    IN  q \in Request /\ Same(r, q) /\ q.pc = "send" /\ q.wallet = k /\ q.on = r.on
<1> SUFFICES ASSUME NEW r \in Request, NEW k \in Nat, NEW other \in BOOLEAN
             PROVE  LET q == [r EXCEPT !.pc = "send", !.wallet = k, !.other = other]
                    IN  q \in Request /\ Same(r, q) /\ q.pc = "send" /\ q.wallet = k /\ q.on = r.on
  BY DEF Found
<1> DEFINE q == [r EXCEPT !.pc = "send", !.wallet = k, !.other = other]
<1>1. q \in Request
  BY DEF Request
<1>2. Same(r, q)
  BY DEF Request, Same
<1>3. q.pc = "send" /\ q.wallet = k /\ q.on = r.on
  BY DEF Request
<1> QED
  BY <1>1, <1>2, <1>3

\* What a step of one request may do to the rest.
Typed ==
    /\ users \in [User -> UserDoc]
    /\ wallets \in Seq(Wallet)
    /\ tokens \in [Token -> Nat]
    /\ contract \in [User -> [Network -> [Flag -> BOOLEAN]]]
    /\ clock \in 0..MaxClock
    /\ minted \in Nat
    /\ logins \in [User -> 0..MaxLogins]
    /\ logouts \in [User -> Nat]
    /\ answered \in [User -> SUBSET Nat]
    /\ faults \in 0..MaxFaults
    /\ crashes \in 0..MaxFaults

LEMMA TypeRequest ==
    ASSUME TypeInv, Typed', NEW c \in Client, NEW r \in Request,
           req' = [req EXCEPT ![c] = r],
           r.op # "idle" /\ r.pc \in {"wallet", "send", "flag"} => r.op \in Flag
    PROVE  TypeInv'
<1>1. req' \in [Client -> Request]
  BY DEF TypeInv, TypeOK
<1>2. FlagRequests'
  <2>1. \A d \in Client : req'[d] = IF d = c THEN r ELSE req[d]
    BY DEF TypeInv, TypeOK
  <2> QED
    BY <2>1 DEF TypeInv, FlagRequests
<1> QED
  BY <1>1, <1>2 DEF Typed, TypeInv, TypeOK

LEMMA Ended ==
    ASSUME TypeInv, Typed', NEW c \in Client, Ends(c) PROVE TypeInv'
  BY NoReqTyped, TypeRequest DEF Ends

LEMMA Unaffected ==
    ASSUME TypeInv, UNCHANGED <<users, wallets, tokens, contract, clock, minted, history, bounded>>
    PROVE  Typed'
  BY DEF TypeInv, TypeOK, Typed, history, bounded

LEMMA FaultTyped == ASSUME TypeInv, Fault PROVE faults' \in 0..MaxFaults /\ crashes' \in 0..MaxFaults
  BY AccountsAssumption DEF Fault, TypeInv, TypeOK

\* An update of a sequence at an index, inside or not.
LEMMA StaysSeq ==
    ASSUME NEW S, NEW s \in Seq(S), NEW k, NEW v, k \in DOMAIN s => v \in S
    PROVE  [s EXCEPT ![k] = v] \in Seq(S)
<1> DEFINE t == [s EXCEPT ![k] = v]
<1>1. Len(s) \in Nat /\ DOMAIN s = 1..Len(s) /\ \A i \in 1..Len(s) : s[i] \in S
  OBVIOUS
<1>2. t \in [1..Len(s) -> S]
  BY <1>1
<1> QED
  BY <1>1, <1>2

-----------------------------------------------------------------------------
(* Types *)

LEMMA TypeInit == Init => TypeInv
  BY NoReqTyped, AccountsAssumption
     DEF Init, TypeInv, TypeOK, FlagRequests, NoUser, UserDoc

\* getNonce and logIn.
LEMMA TypeLogin ==
    ASSUME TypeInv, NEW c \in Client,
           \/ \E u \in User : GetNonce(c, u) \/ \E n \in Network : LogIn(c, u, n)
           \/ NonceTaken(c) \/ NonceCreate(c)
           \/ AccountFind(c) \/ AccountSave(c) \/ AccountInsert(c)
           \/ LoginNonce(c) \/ LoginWallet(c) \/ Answer(c)
           \/ \E type \in {"access", "refresh"} : GenerateToken(c, type)
    PROVE  TypeInv'
<1>0. /\ TypeOK /\ req[c] \in Request /\ Of(c) \in User /\ req \in [Client -> Request]
      /\ users \in [User -> UserDoc] /\ minted + 1 \in Nat
  BY DEF TypeInv, TypeOK, Of, Request
<1>f. req[c] \in Request
  BY <1>0
<1> USE DEF history, bounded
<1>1. ASSUME NEW u \in User, GetNonce(c, u) PROVE TypeInv'
  <2> DEFINE r == [NoReq EXCEPT !.op = "nonce", !.user = u, !.pc = "taken"]
  <2>1. r \in Request /\ r.pc = "taken"
    BY NewNonce
  <2>2. req' = [req EXCEPT ![c] = r] /\ Typed'
    BY <1>1, Unaffected DEF GetNonce, Starts
  <2> QED
    BY <2>1, <2>2, TypeRequest
<1>2. ASSUME NEW u \in User, NEW n \in Network, LogIn(c, u, n) PROVE TypeInv'
  <2>1. logins' \in [User -> 0..MaxLogins]
    <3>1. logins \in [User -> 0..MaxLogins] /\ MaxLogins \in Nat /\ logins[u] < MaxLogins
      BY <1>0, <1>2, AccountsAssumption DEF TypeOK, LogIn
    <3>2. logins[u] + 1 \in 0..MaxLogins
      BY <3>1
    <3> QED
      BY <1>2, <3>1, <3>2 DEF LogIn
  <2>2. Typed'
    BY <1>0, <1>2, <2>1 DEF LogIn, Typed, TypeOK
  <2>3. users[u].nonce \in Nat
    BY <1>0 DEF UserDoc
  <2>4. Login(u, n, users[u].nonce) \in Request /\ Login(u, n, users[u].nonce).pc = "find"
    BY <2>3, NewLogin
  <2>5. req' = [req EXCEPT ![c] = Login(u, n, users[u].nonce)]
    BY <1>2 DEF LogIn, Starts, Login
  <2> QED
    BY <2>2, <2>4, <2>5, TypeRequest
<1>3. CASE NonceTaken(c)
  <2>1. [req[c] EXCEPT !.pc = "create"] \in Request /\ [req[c] EXCEPT !.pc = "create"].pc = "create"
    BY <1>f, ToPc
  <2>2. req' = [req EXCEPT ![c] = NoReq] \/ req' = [req EXCEPT ![c] = [req[c] EXCEPT !.pc = "create"]]
    BY <1>3 DEF NonceTaken, Ends, Goto
  <2>3. Typed'
    BY <1>3, Unaffected DEF NonceTaken
  <2> QED
    BY <2>1, <2>2, <2>3, NoReqTyped, TypeRequest
<1>4. CASE NonceCreate(c)
  <2>1. users' \in [User -> UserDoc]
    BY <1>0, <1>4 DEF NonceCreate, UserDoc
  <2>2. Typed'
    BY <1>0, <1>4, <2>1 DEF NonceCreate, Typed, TypeOK
  <2> QED
    BY <1>4, <2>2, Ended DEF NonceCreate
<1>5. CASE AccountFind(c)
  <2>1. Typed'
    BY <1>0, <1>5 DEF AccountFind, Typed, TypeOK
  <2>2. /\ [req[c] EXCEPT !.pc = "all", !.todo = Branch] \in Request
        /\ [req[c] EXCEPT !.pc = "all", !.todo = Branch].pc = "all"
        /\ [req[c] EXCEPT !.pc = "save", !.wallet = minted + 1] \in Request
        /\ [req[c] EXCEPT !.pc = "save", !.wallet = minted + 1].pc = "save"
    <3>1. minted + 1 \in Nat
      BY <1>0
    <3> QED
      BY <1>f, <3>1, ToAll, ToSave
  <2>3. \/ req' = [req EXCEPT ![c] = [req[c] EXCEPT !.pc = "all", !.todo = Branch]]
        \/ req' = [req EXCEPT ![c] = [req[c] EXCEPT !.pc = "save", !.wallet = minted + 1]]
    BY <1>0, <1>5 DEF AccountFind
  <2> QED
    BY <2>1, <2>2, <2>3, TypeRequest
<1>6. CASE AccountSave(c)
  <2>1. users' \in [User -> UserDoc]
    <3>1. req[c].wallet \in Nat
      BY <1>0, RequestFields
    <3> QED
      BY <1>0, <1>6, <3>1 DEF AccountSave, UserDoc
  <2>2. Typed'
    BY <1>0, <1>6, <2>1 DEF AccountSave, Typed, TypeOK
  <2>3. [req[c] EXCEPT !.pc = "insert"] \in Request /\ [req[c] EXCEPT !.pc = "insert"].pc = "insert"
    BY <1>f, ToPc
  <2>4. req' = [req EXCEPT ![c] = [req[c] EXCEPT !.pc = "insert"]]
    BY <1>6 DEF AccountSave, Goto
  <2> QED
    BY <2>2, <2>3, <2>4, TypeRequest
<1>7. CASE AccountInsert(c)
  <2>1. wallets' \in Seq(Wallet)
    <3>1. NewWallet(c) \in Wallet
      BY <1>0, RequestFields DEF NewWallet, Wallet, Of
    <3> QED
      BY <1>0, <1>7, <3>1 DEF AccountInsert, Inserted, TypeOK
  <2>2. Typed'
    BY <1>0, <1>7, <2>1 DEF AccountInsert, Typed, TypeOK
  <2>3. /\ [req[c] EXCEPT !.pc = "all", !.todo = Branch] \in Request
        /\ [req[c] EXCEPT !.pc = "all", !.todo = Branch].pc = "all"
    BY <1>f, ToAll
  <2>4. req' = [req EXCEPT ![c] = [req[c] EXCEPT !.pc = "all", !.todo = Branch]]
    BY <1>0, <1>7 DEF AccountInsert
  <2> QED
    BY <2>2, <2>3, <2>4, TypeRequest
<1>8. CASE LoginNonce(c)
  <2>1. users' \in [User -> UserDoc]
    <3>1. users[Of(c)].nonce + 1 \in Nat
      BY <1>0 DEF UserDoc
    <3> QED
      BY <1>0, <1>8, <3>1 DEF LoginNonce, FreshNonce, UserDoc
  <2>2. Typed'
    BY <1>0, <1>8, <2>1 DEF LoginNonce, Typed, TypeOK
  <2>3. /\ [req[c] EXCEPT !.todo = req[c].todo \ {"nonce"}] \in Request
        /\ [req[c] EXCEPT !.todo = req[c].todo \ {"nonce"}].pc = "all"
    <3>1. req[c].pc = "all" /\ req[c].todo \ {"nonce"} \in SUBSET Branch
      BY <1>f, <1>8, RequestFields DEF LoginNonce, At
    <3> QED
      BY <1>f, <3>1, ToTodo
  <2>4. req' = [req EXCEPT ![c] = [req[c] EXCEPT !.todo = req[c].todo \ {"nonce"}]]
    BY <1>0, <1>8 DEF LoginNonce
  <2> QED
    BY <2>2, <2>3, <2>4, TypeRequest
<1>9. CASE LoginWallet(c)
  <2>1. Typed'
    BY <1>9, Unaffected DEF LoginWallet
  <2> DEFINE r == Branched(req[c], req[c].todo \ {"wallet"},
                            req[c].ok /\ First(Of(c), req[c].network) # {})
  <2>2. r \in Request /\ r.pc = "all"
    <3>1. req[c].pc = "all"
      BY <1>9 DEF LoginWallet, At
    <3>2. req[c].todo \ {"wallet"} \in SUBSET Branch
      BY <1>f, RequestFields
    <3>3. \A b \in BOOLEAN : LET q == Branched(req[c], req[c].todo \ {"wallet"}, b)
                            IN  q \in Request /\ q.pc = req[c].pc
      BY <1>f, <3>2, ToOk
    <3> QED
      BY <3>1, <3>3
  <2>3. req' = [req EXCEPT ![c] = r]
    BY <1>0, <1>9 DEF LoginWallet, Branched
  <2> QED
    BY <2>1, <2>2, <2>3, TypeRequest
<1>10. ASSUME NEW type \in {"access", "refresh"}, GenerateToken(c, type) PROVE TypeInv'
  <2>1. tokens' \in [Token -> Nat]
    <3>1. [user |-> Of(c), type |-> type, second |-> clock] \in Token
      BY <1>0 DEF Token, TypeOK
    <3>2. tokens \in [Token -> Nat]
      BY <1>0 DEF TypeOK
    <3> QED
      BY <1>10, <3>1, <3>2 DEF GenerateToken
  <2>2. Typed'
    BY <1>0, <1>10, <2>1 DEF GenerateToken, Typed, TypeOK
  <2>3. /\ [req[c] EXCEPT !.todo = req[c].todo \ {type}] \in Request
        /\ [req[c] EXCEPT !.todo = req[c].todo \ {type}].pc = "all"
    <3>1. req[c].pc = "all" /\ req[c].todo \ {type} \in SUBSET Branch
      BY <1>f, <1>10, RequestFields DEF GenerateToken, At
    <3> QED
      BY <1>f, <3>1, ToTodo
  <2>4. req' = [req EXCEPT ![c] = [req[c] EXCEPT !.todo = req[c].todo \ {type}]]
    BY <1>0, <1>10 DEF GenerateToken
  <2> QED
    BY <2>2, <2>3, <2>4, TypeRequest
<1>11. CASE Answer(c)
  <2>1. answered' \in [User -> SUBSET Nat]
    <3>1. req[c].nonce \in Nat /\ answered \in [User -> SUBSET Nat]
      BY <1>0, RequestFields DEF TypeOK
    <3> QED
      BY <1>0, <1>11, <3>1 DEF Answer
  <2>2. Typed'
    BY <1>0, <1>11, <2>1 DEF Answer, Typed, TypeOK
  <2> QED
    BY <1>11, <2>2, Ended DEF Answer
<1> QED
  BY <1>1, <1>2, <1>3, <1>4, <1>5, <1>6, <1>7, <1>8, <1>9, <1>10, <1>11

\* refreshToken, register and approve.
LEMMA TypeTokens ==
    ASSUME TypeInv, NEW c \in Client, NEW t \in Token, Refresh(c, t) PROVE TypeInv'
<1>1. t.user \in User
  BY DEF Token
<1>2. tokens' \in [Token -> Nat]
  BY DEF Refresh, FoundAndRemoved, TypeInv, TypeOK
<1>3. Typed'
  BY <1>2 DEF Refresh, Typed, TypeInv, TypeOK, history, bounded
<1> DEFINE r == [NoReq EXCEPT !.op = "refresh", !.user = t.user, !.pc = "all",
                              !.todo = {"access", "refresh"}]
<1>4. r \in Request /\ r.pc = "all"
  BY <1>1, NewRefresh
<1>5. req' = [req EXCEPT ![c] = r]
  BY DEF Refresh, Starts
<1> QED
  BY <1>3, <1>4, <1>5, TypeRequest

LEMMA TypeFlags ==
    ASSUME TypeInv, NEW c \in Client,
           \/ \E u \in User, n \in Network, op \in Flag, on \in BOOLEAN :
                 RegisterOrApprove(c, op, u, n, on)
           \/ ReadWallet(c) \/ SendFlag(c) \/ SaveFlag(c)
    PROVE  TypeInv'
<1>0. /\ TypeOK /\ req[c] \in Request /\ Of(c) \in User /\ req \in [Client -> Request]
      /\ wallets \in Seq(Wallet) /\ req[c].network \in Network /\ req[c].on \in BOOLEAN
  BY DEF TypeInv, TypeOK, Of, Request
<1>f. req[c] \in Request
  BY <1>0
<1> USE DEF history, bounded
<1>1. ASSUME NEW u \in User, NEW n \in Network, NEW op \in Flag, NEW on \in BOOLEAN,
             RegisterOrApprove(c, op, u, n, on)
      PROVE  TypeInv'
  <2>1. Typed'
    BY <1>1, Unaffected DEF RegisterOrApprove
  <2>2. Asks(op, u, n, on) \in Request /\ Asks(op, u, n, on).op = op
    BY NewFlag
  <2>3. req' = [req EXCEPT ![c] = Asks(op, u, n, on)]
    BY <1>1 DEF RegisterOrApprove, Starts, Asks
  <2> QED
    BY <2>1, <2>2, <2>3, TypeRequest
<1>2. CASE ReadWallet(c)
  <2>1. Typed'
    BY <1>2, Unaffected DEF ReadWallet
  <2>2. req[c].op \in Flag
    BY <1>2 DEF ReadWallet, At, TypeInv, FlagRequests
  <2>3. \/ req' = [req EXCEPT ![c] = NoReq]
        \/ \E i \in First(Of(c), req[c].network) :
              req' = [req EXCEPT ![c] = Found(req[c], i, wallets[i][OtherFlag(req[c].op)])]
    BY <1>0, <1>2 DEF ReadWallet, Ends, Found
  <2>4. ASSUME NEW i \in First(Of(c), req[c].network)
        PROVE  i \in Nat /\ wallets[i][OtherFlag(req[c].op)] \in BOOLEAN
    <3>1. i \in DOMAIN wallets /\ i \in Nat /\ wallets[i] \in Wallet
      BY <1>0 DEF First, WalletsOf
    <3>2. OtherFlag(req[c].op) \in Flag
      BY <2>2 DEF OtherFlag, Flag
    <3> QED
      BY <3>1, <3>2 DEF Wallet, Flag
  <2>5. \A i \in First(Of(c), req[c].network) :
           LET q == Found(req[c], i, wallets[i][OtherFlag(req[c].op)])
           IN  q \in Request /\ q.op = req[c].op
    BY <1>f, <2>4, ToSend DEF Same
  <2> QED
    BY <2>1, <2>2, <2>3, <2>5, NoReqTyped, TypeRequest
<1>3. CASE SendFlag(c)
  <2>1. req[c].op \in Flag
    BY <1>3 DEF SendFlag, At, TypeInv, FlagRequests
  <2>2. contract' \in [User -> [Network -> [Flag -> BOOLEAN]]]
    <3>1. contract \in [User -> [Network -> [Flag -> BOOLEAN]]]
      BY <1>0 DEF TypeOK
    <3>2. [contract EXCEPT ![Of(c)][req[c].network][req[c].op] = req[c].on]
             \in [User -> [Network -> [Flag -> BOOLEAN]]]
      BY <1>0, <2>1, <3>1
    <3> QED
      BY <1>3, <3>1, <3>2 DEF SendFlag
  <2>3. faults' \in 0..MaxFaults /\ crashes' \in 0..MaxFaults
    BY <1>0, <1>3, FaultTyped DEF SendFlag, TypeOK
  <2>4. Typed'
    BY <1>0, <1>3, <2>2, <2>3 DEF SendFlag, Typed, TypeOK
  <2>5. [req[c] EXCEPT !.pc = "flag"] \in Request /\ [req[c] EXCEPT !.pc = "flag"].op = req[c].op
    BY <1>f, ToPc DEF Same
  <2>6. req' = [req EXCEPT ![c] = NoReq] \/ req' = [req EXCEPT ![c] = [req[c] EXCEPT !.pc = "flag"]]
    BY <1>3 DEF SendFlag, Ends, Goto
  <2> QED
    BY <2>1, <2>4, <2>5, <2>6, NoReqTyped, TypeRequest
<1>4. CASE SaveFlag(c)
  <2>1. req[c].op \in Flag
    BY <1>4 DEF SaveFlag, At, TypeInv, FlagRequests
  <2>2. wallets' \in Seq(Wallet)
    <3>1. \A w \in Wallet : Saved(w, req[c]) \in Wallet
      BY <1>0, <2>1 DEF Saved, Wallet, Flag
    <3>3. req[c].wallet \in DOMAIN wallets => wallets[req[c].wallet] \in Wallet
      BY <1>0
    <3> DEFINE k == req[c].wallet
    <3>2. wallets' = [wallets EXCEPT ![k] = Saved(wallets[k], req[c])]
      BY <1>4 DEF SaveFlag
    <3> QED
      BY <1>0, <3>1, <3>2, <3>3, StaysSeq
  <2>3. Typed'
    BY <1>0, <1>4, <2>2 DEF SaveFlag, Typed, TypeOK
  <2> QED
    BY <1>4, <2>3, Ended DEF SaveFlag
<1> QED
  BY <1>1, <1>2, <1>3, <1>4

\* What may happen to any request, and to the process.
LEMMA TypeFailures ==
    ASSUME TypeInv,
           \/ \E c \in Client : RequestFails(c)
           \/ \E t \in Token : LogOut(t)
           \/ Tick \/ Crash \/ UNCHANGED vars
    PROVE  TypeInv'
<1>0. TypeOK /\ FlagRequests /\ req \in [Client -> Request]
  BY DEF TypeInv, TypeOK
<1> USE DEF history, bounded
<1>1. ASSUME NEW c \in Client, RequestFails(c) PROVE TypeInv'
  <2>0. req[c] \in Request
    BY <1>0
  <2>1. Typed'
    BY <1>0, <1>1, FaultTyped DEF RequestFails, Typed, TypeOK
  <2>2. CASE Ends(c)
    BY <2>1, <2>2, Ended
  <2>3. CASE \E todo \in SUBSET Branch : req' = [req EXCEPT ![c] = Branched(req[c], todo, FALSE)]
    <3>1. PICK todo \in SUBSET Branch : req' = [req EXCEPT ![c] = Branched(req[c], todo, FALSE)]
      BY <2>3
    <3>2. LET q == Branched(req[c], todo, FALSE)
          IN  q \in Request /\ q.op = req[c].op /\ q.pc = req[c].pc
      BY <2>0, ToOk DEF Same
    <3>3. req[c].op # "idle" /\ req[c].pc \in {"wallet", "send", "flag"} => req[c].op \in Flag
      BY <1>0 DEF FlagRequests
    <3> QED
      BY <2>1, <3>1, <3>2, <3>3, TypeRequest
  <2>4. Ends(c) \/ \E todo \in SUBSET Branch : req' = [req EXCEPT ![c] = Branched(req[c], todo, FALSE)]
    <3>1. req[c].todo \subseteq Branch
      BY <2>0, RequestFields
    <3>2. CASE \E b \in {"nonce", "wallet", "refresh"} \cap req[c].todo :
                  req' = [req EXCEPT ![c].ok = FALSE,
                             ![c].todo = @ \ IF b = "refresh" THEN {"access", "refresh"} ELSE {b}]
      <4>1. PICK b : req' = [req EXCEPT ![c].ok = FALSE,
                             ![c].todo = @ \ IF b = "refresh" THEN {"access", "refresh"} ELSE {b}]
        BY <3>2
      <4> DEFINE todo == req[c].todo \ IF b = "refresh" THEN {"access", "refresh"} ELSE {b}
      <4>2. todo \in SUBSET Branch
        BY <3>1
      <4>3. req' = [req EXCEPT ![c] = Branched(req[c], todo, FALSE)]
        BY <1>0, <2>0, <4>1 DEF Branched, Request
      <4> QED
        BY <4>2, <4>3
    <3> QED
      BY <1>1, <3>2 DEF RequestFails
  <2> QED
    BY <2>2, <2>3, <2>4
<1>2. ASSUME NEW t \in Token, LogOut(t) PROVE TypeInv'
  <2>a. t.user \in User /\ tokens \in [Token -> Nat] /\ logouts \in [User -> Nat]
    BY <1>0 DEF Token, TypeOK
  <2>b. tokens[t] > 0 /\ tokens' = [tokens EXCEPT ![t] = tokens[t] - 1]
    BY <1>2 DEF LogOut, FoundAndRemoved
  <2>c. logouts' = [logouts EXCEPT ![t.user] = logouts[t.user] + 1]
    BY <1>2 DEF LogOut
  <2>d. tokens[t] - 1 \in Nat /\ logouts[t.user] + 1 \in Nat
    BY <2>a, <2>b
  <2>1. tokens' \in [Token -> Nat] /\ logouts' \in [User -> Nat]
    BY <2>a, <2>b, <2>c, <2>d
  <2> QED
    BY <1>0, <1>2, <2>1 DEF LogOut, TypeInv, TypeOK, FlagRequests
<1>3. CASE Tick
  BY <1>0, <1>3, AccountsAssumption DEF Tick, TypeInv, TypeOK, FlagRequests
<1>4. CASE Crash
  BY <1>0, <1>4, NoReqTyped, AccountsAssumption DEF Crash, TypeInv, TypeOK, FlagRequests
<1>5. CASE UNCHANGED vars
  BY <1>0, <1>5 DEF vars, TypeInv, TypeOK, FlagRequests
<1> QED
  BY <1>1, <1>2, <1>3, <1>4, <1>5

LEMMA TypeStep == TypeInv /\ [Next]_vars => TypeInv'
  BY TypeLogin, TypeTokens, TypeFlags, TypeFailures DEF Next, RequestStep

LEMMA TypeInvHolds == Spec => []TypeInv
  BY TypeInit, TypeStep, PTL DEF Spec

\* Every reachable state of users, wallets, tokens and requests is well typed; in particular
\* no token is removed more often than it was stored.
THEOREM AccountsTypeCorrect == Spec => []TypeOK
<1>1. TypeInv => TypeOK
  BY DEF TypeInv
<1> QED
  BY <1>1, TypeInvHolds, PTL

-----------------------------------------------------------------------------
(* Nonces *)

\* What a step makes of the request c: nothing, something that is no login, a login that
\* begins, or the next position of the same request.  Of a login whose branches run, the
\* nonce is done only when the nonce of the user has grown.
NonceDone(r) == r.pc = "all" /\ r.ok /\ "nonce" \notin r.todo
Moved(c) ==
    \/ req'[c] = req[c]
    \/ req'[c].op # "login"
    \/ /\ req'[c].user \in User
       /\ req'[c].nonce = users[req'[c].user].nonce /\ req'[c].pc = "find"
    \/ /\ Same(req[c], req'[c])
       /\ NonceDone(req'[c]) => NonceDone(req[c]) \/ users'[Of(c)].nonce > users[Of(c)].nonce

LEMMA OnlyOne ==
    ASSUME TypeInv, NEW c \in Client, NEW r, req' = [req EXCEPT ![c] = r], NEW d \in Client
    PROVE  req'[d] = IF d = c THEN r ELSE req[d]
  BY DEF TypeInv, TypeOK

LEMMA OneMoves ==
    ASSUME TypeInv, NEW c \in Client, NEW r, req' = [req EXCEPT ![c] = r],
           \/ r.op # "login"
           \/ r.user \in User /\ r.nonce = users[r.user].nonce /\ r.pc = "find"
           \/ /\ Same(req[c], r)
              /\ NonceDone(r) => NonceDone(req[c]) \/ users'[Of(c)].nonce > users[Of(c)].nonce
    PROVE  \A d \in Client : Moved(d)
  BY OnlyOne DEF Moved

LEMMA LoginMoves ==
    ASSUME TypeInv, NEW c \in Client, RequestStep(c)
    PROVE  \A d \in Client : Moved(d)
<1>0. /\ TypeOK /\ req \in [Client -> Request] /\ Of(c) \in User
      /\ users \in [User -> UserDoc] /\ minted + 1 \in Nat
  BY DEF TypeInv, TypeOK, Of, Request
<1>f. req[c] \in Request
  BY <1>0
<1>e. Ends(c) => \A d \in Client : Moved(d)
  BY NoReqTyped, OneMoves DEF Ends
<1>p. ASSUME NEW pc \in {"create", "insert", "flag"}, Goto(c, pc)
      PROVE  \A d \in Client : Moved(d)
  <2>1. Same(req[c], [req[c] EXCEPT !.pc = pc]) /\ [req[c] EXCEPT !.pc = pc].pc = pc
    BY <1>f, ToPc
  <2>2. req' = [req EXCEPT ![c] = [req[c] EXCEPT !.pc = pc]]
    BY <1>p DEF Goto
  <2> QED
    BY <2>1, <2>2, OneMoves DEF NonceDone
<1>a. req' = [req EXCEPT ![c].pc = "all", ![c].todo = Branch] => \A d \in Client : Moved(d)
  <2>1. Same(req[c], [req[c] EXCEPT !.pc = "all", !.todo = Branch])
    BY <1>f, ToAll
  <2>2. [req[c] EXCEPT !.pc = "all", !.todo = Branch].todo = Branch
    BY <1>f, ToAll
  <2>3. ~NonceDone([req[c] EXCEPT !.pc = "all", !.todo = Branch])
    BY <2>2 DEF NonceDone, Branch
  <2>4. ASSUME req' = [req EXCEPT ![c].pc = "all", ![c].todo = Branch]
        PROVE  req' = [req EXCEPT ![c] = [req[c] EXCEPT !.pc = "all", !.todo = Branch]]
    BY <1>0, <2>4
  <2> QED
    BY <2>1, <2>3, <2>4, OneMoves
<1>1. CASE NonceTaken(c)
  BY <1>1, <1>e, <1>p DEF NonceTaken
<1>2. CASE NonceCreate(c)
  BY <1>2, <1>e DEF NonceCreate
<1>3. CASE AccountFind(c)
  <2>1. CASE req' = [req EXCEPT ![c].pc = "save", ![c].wallet = minted + 1]
    <3> DEFINE r == [req[c] EXCEPT !.pc = "save", !.wallet = minted + 1]
    <3>1. Same(req[c], r) /\ r.pc = "save"
      BY <1>0, <1>f, ToSave
    <3>2. req' = [req EXCEPT ![c] = r]
      BY <1>0, <2>1
    <3> QED
      BY <3>1, <3>2, OneMoves DEF NonceDone
  <2> QED
    BY <1>3, <1>a, <2>1 DEF AccountFind
<1>4. CASE AccountSave(c)
  BY <1>4, <1>p DEF AccountSave
<1>5. CASE AccountInsert(c)
  BY <1>5, <1>a DEF AccountInsert
<1>t. ASSUME NEW b \in Branch, req' = [req EXCEPT ![c].todo = @ \ {b}],
             b # "nonce" \/ users'[Of(c)].nonce > users[Of(c)].nonce
      PROVE  \A d \in Client : Moved(d)
  <2> DEFINE r == [req[c] EXCEPT !.todo = req[c].todo \ {b}]
  <2>1. req[c].todo \ {b} \in SUBSET Branch
    BY <1>f, RequestFields
  <2>2. Same(req[c], r) /\ r.todo = req[c].todo \ {b} /\ r.pc = req[c].pc /\ r.ok = req[c].ok
    BY <1>f, <2>1, ToTodo
  <2>3. req' = [req EXCEPT ![c] = r]
    BY <1>0, <1>t
  <2>4. NonceDone(r) => NonceDone(req[c]) \/ users'[Of(c)].nonce > users[Of(c)].nonce
    BY <1>t, <2>2 DEF NonceDone
  <2> QED
    BY <2>2, <2>3, <2>4, OneMoves
<1>6. CASE LoginNonce(c)
  <2>1. users'[Of(c)].nonce = users[Of(c)].nonce + 1 /\ users[Of(c)].nonce \in Nat
    BY <1>0, <1>6 DEF LoginNonce, FreshNonce, UserDoc
  <2>2. users'[Of(c)].nonce > users[Of(c)].nonce
    BY <2>1
  <2>3. "nonce" \in Branch /\ req' = [req EXCEPT ![c].todo = @ \ {"nonce"}]
    BY <1>6 DEF LoginNonce, Branch
  <2> QED
    BY <1>t, <2>2, <2>3
<1>7. CASE LoginWallet(c)
  <2> DEFINE r == Branched(req[c], req[c].todo \ {"wallet"},
                            req[c].ok /\ First(Of(c), req[c].network) # {})
  <2>1. req[c].todo \ {"wallet"} \in SUBSET Branch
    BY <1>f, RequestFields
  <2>2. \A ok \in BOOLEAN :
           LET q == Branched(req[c], req[c].todo \ {"wallet"}, ok)
           IN  Same(req[c], q) /\ q.pc = req[c].pc /\ q.todo = req[c].todo \ {"wallet"} /\ q.ok = ok
    BY <1>f, <2>1, ToOk
  <2>3. (req[c].ok /\ First(Of(c), req[c].network) # {}) \in BOOLEAN
    OBVIOUS
  <2>4. /\ Same(req[c], r) /\ r.pc = req[c].pc /\ r.todo = req[c].todo \ {"wallet"}
        /\ r.ok = (req[c].ok /\ First(Of(c), req[c].network) # {})
    BY <2>2, <2>3
  <2>5. NonceDone(r) => NonceDone(req[c])
    BY <2>4 DEF NonceDone
  <2>6. req' = [req EXCEPT ![c] = r]
    BY <1>0, <1>7 DEF LoginWallet, Branched
  <2> QED
    BY <2>4, <2>5, <2>6, OneMoves
<1>8. CASE Answer(c)
  BY <1>8, <1>e DEF Answer
<1>9. ASSUME NEW type \in {"access", "refresh"}, GenerateToken(c, type)
      PROVE  \A d \in Client : Moved(d)
  <2>1. type \in Branch /\ type # "nonce" /\ req' = [req EXCEPT ![c].todo = @ \ {type}]
    BY <1>9 DEF GenerateToken, Branch
  <2> QED
    BY <1>t, <2>1
<1>10. CASE ReadWallet(c) \/ SendFlag(c) \/ SaveFlag(c)
  <2>1. req[c].op \in Flag
    BY <1>10 DEF ReadWallet, SendFlag, SaveFlag, At, TypeInv, FlagRequests
  <2>2. req'[c].op # "login" /\ \A d \in Client \ {c} : req'[d] = req[d]
    <3>1. CASE Ends(c)
      BY <1>0, <3>1, NoReqTyped DEF Ends
    <3>2. CASE Goto(c, "flag")
      BY <1>0, <2>1, <3>2 DEF Goto, Flag
    <3>3. CASE \E i \in First(Of(c), req[c].network) :
                 req' = [req EXCEPT ![c].pc = "send", ![c].wallet = i,
                                    ![c].other = wallets[i][OtherFlag(req[c].op)]]
      BY <1>0, <2>1, <3>3 DEF Flag
    <3> QED
      BY <1>10, <3>1, <3>2, <3>3 DEF ReadWallet, SendFlag, SaveFlag
  <2> QED
    BY <2>2 DEF Moved
<1> QED
  BY <1>1, <1>2, <1>3, <1>4, <1>5, <1>6, <1>7, <1>8, <1>9, <1>10 DEF RequestStep

LEMMA AllMove == TypeInv /\ [Next]_vars => \A d \in Client : Moved(d)
<1> SUFFICES ASSUME TypeInv, [Next]_vars PROVE \A d \in Client : Moved(d)
  OBVIOUS
<1>0. req \in [Client -> Request] /\ users \in [User -> UserDoc]
  BY DEF TypeInv, TypeOK
<1>1. ASSUME NEW c \in Client, RequestFails(c) PROVE \A d \in Client : Moved(d)
  <2>1. CASE Ends(c)
    BY <2>1, NoReqTyped, OneMoves DEF Ends
  <2>2. CASE \E b \in {"nonce", "wallet", "refresh"} \cap req[c].todo :
               req' = [req EXCEPT ![c].ok = FALSE,
                          ![c].todo = @ \ IF b = "refresh" THEN {"access", "refresh"} ELSE {b}]
    <3>1. PICK b : req' = [req EXCEPT ![c].ok = FALSE,
                             ![c].todo = @ \ IF b = "refresh" THEN {"access", "refresh"} ELSE {b}]
      BY <2>2
    <3> DEFINE todo == req[c].todo \ IF b = "refresh" THEN {"access", "refresh"} ELSE {b}
    <3>2. req[c] \in Request /\ todo \in SUBSET Branch
      BY <1>0, RequestFields
    <3>3. req' = [req EXCEPT ![c] = Branched(req[c], todo, FALSE)]
      BY <1>0, <3>1, <3>2 DEF Branched, Request
    <3>4. Same(req[c], Branched(req[c], todo, FALSE)) /\ ~Branched(req[c], todo, FALSE).ok
      BY <3>2, ToOk
    <3> QED
      BY <3>3, <3>4, OneMoves DEF NonceDone
  <2> QED
    BY <1>1, <2>1, <2>2 DEF RequestFails
<1>2. ASSUME NEW c \in Client, NEW u \in User, GetNonce(c, u) PROVE \A d \in Client : Moved(d)
  <2> DEFINE r == [NoReq EXCEPT !.op = "nonce", !.user = u, !.pc = "taken"]
  <2>1. r.op = "nonce"
    BY NewNonce
  <2>2. req' = [req EXCEPT ![c] = r]
    BY <1>2 DEF GetNonce, Starts
  <2> QED
    BY <2>1, <2>2, OneMoves
<1>3. ASSUME NEW c \in Client, NEW u \in User, NEW n \in Network, LogIn(c, u, n)
      PROVE  \A d \in Client : Moved(d)
  <2> DEFINE r == Login(u, n, users[u].nonce)
  <2>1. users[u].nonce \in Nat
    BY <1>0 DEF UserDoc
  <2>2. r.user = u /\ r.nonce = users[u].nonce /\ r.pc = "find"
    BY <2>1, NewLogin
  <2>3. req' = [req EXCEPT ![c] = r]
    BY <1>3 DEF LogIn, Starts, Login
  <2> HIDE DEF r
  <2> QED
    BY <2>2, <2>3, OneMoves
<1>4. ASSUME NEW c \in Client, NEW u \in User, NEW n \in Network, NEW op \in Flag, NEW on \in BOOLEAN,
             RegisterOrApprove(c, op, u, n, on)
      PROVE  \A d \in Client : Moved(d)
  <2>1. Asks(op, u, n, on).op # "login"
    BY NewFlag DEF Flag
  <2>2. req' = [req EXCEPT ![c] = Asks(op, u, n, on)]
    BY <1>4 DEF RegisterOrApprove, Starts, Asks
  <2> QED
    BY <2>1, <2>2, OneMoves
<1>5. ASSUME NEW c \in Client, NEW t \in Token, Refresh(c, t) PROVE \A d \in Client : Moved(d)
  <2> DEFINE r == [NoReq EXCEPT !.op = "refresh", !.user = t.user, !.pc = "all",
                                !.todo = {"access", "refresh"}]
  <2>1. r.op # "login"
    BY NewRefresh DEF Token
  <2>2. req' = [req EXCEPT ![c] = r]
    BY <1>5 DEF Refresh, Starts
  <2> QED
    BY <2>1, <2>2, OneMoves
<1>6. CASE Crash
  BY <1>6, NoReqTyped DEF Crash, Moved
<1>7. CASE UNCHANGED req
  BY <1>7 DEF Moved
<1> QED
  BY <1>1, <1>2, <1>3, <1>4, <1>5, <1>6, <1>7, LoginMoves DEF Next, LogOut, Tick, vars

\* A nonce only grows, and is answered only by Answer.
LEMMA NonceGrows ==
    ASSUME TypeInv, [Next]_vars, NEW u \in User
    PROVE  users[u].nonce \in Nat /\ users'[u].nonce \in Nat /\ users'[u].nonce >= users[u].nonce
<1>1. users \in [User -> UserDoc] /\ users[u].nonce \in Nat
  BY DEF TypeInv, TypeOK, UserDoc
<1>2. CASE UNCHANGED users
  BY <1>1, <1>2
<1>3. ASSUME NEW c \in Client, NonceCreate(c) \/ AccountSave(c) \/ LoginNonce(c)
      PROVE  users'[u].nonce \in {users[u].nonce, users[u].nonce + 1}
  BY <1>1, <1>3 DEF NonceCreate, AccountSave, LoginNonce, FreshNonce, UserDoc
<1>4. (\E c \in Client : NonceCreate(c) \/ AccountSave(c) \/ LoginNonce(c)) \/ UNCHANGED users
  BY ZenonT(60) DEF Next, RequestStep, NonceTaken, AccountFind, AccountInsert, LoginWallet, Answer,
         GenerateToken, ReadWallet, SendFlag, SaveFlag, RequestFails, GetNonce, LogIn,
         RegisterOrApprove, Refresh, LogOut, Tick, Crash, vars
<1> QED
  BY <1>1, <1>2, <1>3, <1>4

LEMMA OnlyAnswers ==
    ASSUME TypeInv, [Next]_vars, NEW u \in User, NEW k \in answered'[u]
    PROVE  \/ k \in answered[u]
           \/ \E c \in Client : /\ req[c].op = "login" /\ Of(c) = u /\ k = req[c].nonce
                                /\ NonceDone(req[c]) /\ UNCHANGED users
<1>1. answered \in [User -> SUBSET Nat]
  BY DEF TypeInv, TypeOK
<1>2. ASSUME NEW c \in Client, Answer(c)
      PROVE  \/ k \in answered[u]
             \/ /\ req[c].op = "login" /\ Of(c) = u /\ k = req[c].nonce
                /\ NonceDone(req[c]) /\ UNCHANGED users
  BY <1>1, <1>2 DEF Answer, At, NonceDone
<1>3. (\E c \in Client : Answer(c)) \/ UNCHANGED answered
  BY ZenonT(60) DEF Next, RequestStep, NonceTaken, NonceCreate, AccountFind, AccountSave, AccountInsert,
         LoginNonce, LoginWallet, GenerateToken, ReadWallet, SendFlag, SaveFlag, RequestFails,
         GetNonce, LogIn, RegisterOrApprove, Refresh, LogOut, Tick, Crash, vars, history
<1> QED
  BY <1>2, <1>3

\* A login holds a nonce that was the user's, and one that is past writing its own holds one
\* that is so no longer.
NonceInv ==
    /\ \A u \in User : \A k \in answered[u] : k < users[u].nonce
    /\ \A c \in Client : req[c].op = "login" =>
          /\ req[c].nonce <= users[Of(c)].nonce
          /\ NonceDone(req[c]) => req[c].nonce < users[Of(c)].nonce

LEMMA NonceStep == TypeInv /\ TypeInv' /\ NonceInv /\ [Next]_vars => NonceInv'
<1> SUFFICES ASSUME TypeInv, TypeInv', NonceInv, [Next]_vars PROVE NonceInv'
  OBVIOUS
<1>0. answered \in [User -> SUBSET Nat] /\ answered' \in [User -> SUBSET Nat]
  BY DEF TypeInv, TypeOK
<1>1. ASSUME NEW u \in User, NEW k \in answered'[u] PROVE k < users'[u].nonce
  <2>1. users[u].nonce \in Nat /\ users'[u].nonce \in Nat /\ users'[u].nonce >= users[u].nonce
    BY NonceGrows
  <2>2. k \in Nat
    BY <1>0, <1>1
  <2>3. k < users[u].nonce
    BY OnlyAnswers DEF NonceInv
  <2> QED
    BY <2>1, <2>2, <2>3
<1>2. ASSUME NEW c \in Client, req'[c].op = "login"
      PROVE  /\ req'[c].nonce <= users'[req'[c].user].nonce
             /\ NonceDone(req'[c]) => req'[c].nonce < users'[req'[c].user].nonce
  <2>1. Moved(c)
    BY AllMove
  <2>2. req[c] \in Request /\ req'[c] \in Request
    BY DEF TypeInv, TypeOK
  <2>3. /\ req[c].nonce \in Nat /\ req'[c].nonce \in Nat
        /\ req[c].user \in User /\ req'[c].user \in User
    BY <2>2, RequestFields
  <2>4. \A u \in User : /\ users[u].nonce \in Nat /\ users'[u].nonce \in Nat
                        /\ users'[u].nonce >= users[u].nonce
    BY NonceGrows
  <2>5. req[c].op = "login" => /\ req[c].nonce <= users[req[c].user].nonce
                               /\ NonceDone(req[c]) => req[c].nonce < users[req[c].user].nonce
    BY DEF NonceInv, Of
  <2>6. CASE req'[c] = req[c]
    <3>1. req[c].op = "login"
      BY <1>2, <2>6
    <3> QED
      BY <2>3, <2>4, <2>5, <2>6, <3>1
  <2>7. CASE req'[c].nonce = users[req'[c].user].nonce /\ req'[c].pc = "find"
    BY <2>3, <2>4, <2>7 DEF NonceDone
  <2>8. CASE /\ Same(req[c], req'[c])
             /\ NonceDone(req'[c]) => NonceDone(req[c]) \/ users'[Of(c)].nonce > users[Of(c)].nonce
    <3>1. /\ req[c].op = "login" /\ req'[c].user = req[c].user /\ req'[c].nonce = req[c].nonce
          /\ Of(c) = req[c].user
      BY <1>2, <2>8 DEF Same, Of
    <3> QED
      BY <2>3, <2>4, <2>5, <2>8, <3>1
  <2> QED
    BY <1>2, <2>1, <2>6, <2>7, <2>8 DEF Moved
<1> QED
  BY <1>1, <1>2 DEF NonceInv, Of

\* A nonce whose login was answered is never the nonce of the user again, whatever logins of
\* the same user write theirs between: updateNonce ends the use of a signature.
THEOREM NonceNotReusedHolds == Spec => []NonceNotReused
<1>1. Init => NonceInv
  BY NoReqTyped DEF Init, NonceInv
<1>2. TypeInv /\ NonceInv => NonceNotReused
  <2>1. ASSUME TypeInv, NonceInv, NEW u \in User PROVE users[u].nonce \notin answered[u]
    <3>1. users[u].nonce \in Nat
      BY <2>1 DEF TypeInv, TypeOK, UserDoc
    <3> QED
      BY <2>1, <3>1 DEF NonceInv
  <2> QED
    BY <2>1 DEF NonceNotReused
<1> QED
  BY <1>1, <1>2, NonceStep, TypeInvHolds, PTL DEF Spec

-----------------------------------------------------------------------------
(* The wallet of a oneCT *)

HasWallet(u, k) == \E i \in DOMAIN wallets : wallets[i].user = u /\ wallets[i].key = k
AboutToInsert(c, u, k) == At(c, "insert") /\ Of(c) = u /\ req[c].wallet = k

\* No wallet is removed, or given another owner or key.
LEMMA WalletsStay ==
    ASSUME TypeInv, [Next]_vars, NEW u, NEW k, HasWallet(u, k) PROVE HasWallet(u, k)'
<1>0. wallets \in Seq(Wallet)
  BY DEF TypeInv, TypeOK
<1>1. PICK i \in DOMAIN wallets : wallets[i].user = u /\ wallets[i].key = k
  BY DEF HasWallet
<1>2. ASSUME NEW w, wallets' = Append(wallets, w)
      PROVE  i \in DOMAIN wallets' /\ wallets'[i] = wallets[i]
  BY <1>0, <1>2
<1>3. ASSUME NEW c \in Client, SaveFlag(c)
      PROVE  i \in DOMAIN wallets' /\ wallets'[i].user = u /\ wallets'[i].key = k
  <2>1. req[c].op \in Flag
    BY <1>3 DEF SaveFlag, At, TypeInv, FlagRequests
  <2>2. \A w \in Wallet : Saved(w, req[c]).user = w.user /\ Saved(w, req[c]).key = w.key
    BY <2>1 DEF Saved, Wallet, Flag
  <2>3. DOMAIN wallets' = DOMAIN wallets
    BY <1>3 DEF SaveFlag
  <2>4. wallets[i] \in Wallet
    BY <1>0
  <2>5. wallets'[i] = IF i = req[c].wallet THEN Saved(wallets[i], req[c]) ELSE wallets[i]
    BY <1>3 DEF SaveFlag
  <2> QED
    BY <1>1, <2>2, <2>3, <2>4, <2>5
<1>4. \/ \E c \in Client : SaveFlag(c) \/ wallets' = Append(wallets, NewWallet(c))
      \/ UNCHANGED wallets
  BY ZenonT(60) DEF Next, RequestStep, NonceTaken, NonceCreate, AccountFind, AccountSave, AccountInsert,
         Inserted, LoginNonce, LoginWallet, Answer, GenerateToken, ReadWallet, SendFlag,
         RequestFails, GetNonce, LogIn, RegisterOrApprove, Refresh, LogOut, Tick, Crash, vars
<1> QED
  BY <1>1, <1>2, <1>3, <1>4 DEF HasWallet

\* Without a failure or a crash, a request about to insert stays so until it has inserted.
LEMMA InsertStays ==
    ASSUME TypeInv, [Next]_vars, faults' = 0, crashes' = 0,
           NEW d \in Client, NEW u, NEW k, AboutToInsert(d, u, k)
    PROVE  AboutToInsert(d, u, k)' \/ HasWallet(u, k)'
<1>0. req \in [Client -> Request] /\ wallets \in Seq(Wallet)
  BY DEF TypeInv, TypeOK
<1>1. ASSUME NEW c \in Client, NEW r, req' = [req EXCEPT ![c] = r], c # d
      PROVE  AboutToInsert(d, u, k)'
  BY <1>1, OnlyOne DEF AboutToInsert, At, Of
<1>d. req[d].op # "idle" /\ req[d].pc = "insert" /\ req[d].user = u /\ req[d].wallet = k
  BY DEF AboutToInsert, At, Of
<1>2. ASSUME AccountInsert(d) PROVE HasWallet(u, k)'
  <2>1. wallets' = Append(wallets, NewWallet(d))
    BY <1>2 DEF AccountInsert, Inserted
  <2>2. Len(wallets) + 1 \in DOMAIN wallets' /\ wallets'[Len(wallets) + 1] = NewWallet(d)
    BY <1>0, <2>1
  <2> QED
    BY <1>d, <2>2 DEF NewWallet, Of, HasWallet
<1>3. ~Crash /\ \A c \in Client : ~RequestFails(c)
  <2>1. faults \in Nat /\ crashes \in Nat
    BY AccountsAssumption DEF TypeInv, TypeOK
  <2> QED
    BY <2>1 DEF Crash, RequestFails, Fault
<1>4. ASSUME NEW c \in Client, RequestStep(c), ~AccountInsert(d)
      PROVE  AboutToInsert(d, u, k)'
  <2>1. c # d
    BY <1>d, <1>4 DEF RequestStep, NonceTaken, NonceCreate, AccountFind, AccountSave, LoginNonce,
       LoginWallet, Answer, GenerateToken, ReadWallet, SendFlag, SaveFlag, At
  <2>2. CASE \E pc \in {"create", "insert", "flag"} : Goto(c, pc)
    BY <1>0, <2>1, <2>2 DEF Goto, AboutToInsert, At, Of
  <2>3. CASE Ends(c)
    BY <1>0, <2>1, <2>3 DEF Ends, AboutToInsert, At, Of
  <2>4. CASE \E todo : req' = [req EXCEPT ![c].pc = "all", ![c].todo = todo]
    BY <1>0, <2>1, <2>4 DEF AboutToInsert, At, Of
  <2>5. CASE \E w : req' = [req EXCEPT ![c].pc = "save", ![c].wallet = w]
    BY <1>0, <2>1, <2>5 DEF AboutToInsert, At, Of
  <2>6. CASE \E todo : req' = [req EXCEPT ![c].todo = todo]
    BY <1>0, <2>1, <2>6 DEF AboutToInsert, At, Of
  <2>7. CASE \E todo, ok : req' = [req EXCEPT ![c].todo = todo, ![c].ok = ok]
    BY <1>0, <2>1, <2>7 DEF AboutToInsert, At, Of
  <2>8. CASE \E w, o : req' = [req EXCEPT ![c].pc = "send", ![c].wallet = w, ![c].other = o]
    BY <1>0, <2>1, <2>8 DEF AboutToInsert, At, Of
  <2>9. CASE LoginNonce(c) \/ LoginWallet(c) \/ \E type \in {"access", "refresh"} : GenerateToken(c, type)
    BY <2>6, <2>7, <2>9 DEF LoginNonce, LoginWallet, GenerateToken
  <2>10. CASE AccountFind(c) \/ AccountInsert(c) \/ AccountSave(c)
    BY <2>2, <2>4, <2>5, <2>10 DEF AccountFind, AccountInsert, AccountSave
  <2>11. CASE NonceTaken(c) \/ NonceCreate(c) \/ Answer(c)
    BY <2>2, <2>3, <2>11 DEF NonceTaken, NonceCreate, Answer
  <2>12. CASE ReadWallet(c) \/ SendFlag(c) \/ SaveFlag(c)
    BY <2>2, <2>3, <2>8, <2>12 DEF ReadWallet, SendFlag, SaveFlag
  <2> QED
    BY <1>4, <2>9, <2>10, <2>11, <2>12 DEF RequestStep
<1>5. ASSUME NEW c \in Client, NEW r, Starts(c, r)
      PROVE  c # d /\ \E q : req' = [req EXCEPT ![c] = q]
  BY <1>d, <1>5, NoReqTyped DEF Starts
<1>6. \/ \E c \in Client : RequestStep(c) \/ \E r : Starts(c, r)
      \/ UNCHANGED req
  BY <1>3 DEF Next, GetNonce, LogIn, RegisterOrApprove, Refresh, LogOut, Tick, vars
<1>7. UNCHANGED req => AboutToInsert(d, u, k)'
  BY DEF AboutToInsert, At, Of
<1> QED
  BY <1>1, <1>2, <1>4, <1>5, <1>6, <1>7

\* The oneCT of a user changes only to the key a login is about to insert.
LEMMA OneCTMoves ==
    ASSUME TypeInv, [Next]_vars, NEW u \in User, NEW k, users'[u].oneCT = k
    PROVE  \/ users[u].oneCT = k
           \/ \E c \in Client : AboutToInsert(c, u, k)'
<1>0. users \in [User -> UserDoc] /\ req \in [Client -> Request]
  BY DEF TypeInv, TypeOK
<1>1. ASSUME NEW c \in Client, AccountSave(c), u = Of(c)
      PROVE  AboutToInsert(c, u, k)'
  <2>1. k = req[c].wallet
    BY <1>0, <1>1 DEF AccountSave, UserDoc
  <2>2. req'[c] = [req[c] EXCEPT !.pc = "insert"] /\ req[c] \in Request /\ req[c].op # "idle"
    BY <1>0, <1>1 DEF AccountSave, Goto, At
  <2>3. /\ [req[c] EXCEPT !.pc = "insert"].pc = "insert"
        /\ [req[c] EXCEPT !.pc = "insert"].wallet = req[c].wallet
        /\ Same(req[c], [req[c] EXCEPT !.pc = "insert"])
    BY <2>2, ToPc
  <2>4. req'[c].pc = "insert" /\ req'[c].user = u /\ req'[c].wallet = k /\ req'[c].op # "idle"
    BY <1>1, <2>1, <2>2, <2>3 DEF Same, Of
  <2> QED
    BY <2>4 DEF AboutToInsert, At, Of
<1>2. ASSUME NEW c \in Client, NonceCreate(c) \/ LoginNonce(c) \/ (AccountSave(c) /\ u # Of(c))
      PROVE  users[u].oneCT = k
  BY <1>0, <1>2 DEF NonceCreate, LoginNonce, AccountSave, UserDoc
<1>3. (\E c \in Client : NonceCreate(c) \/ AccountSave(c) \/ LoginNonce(c)) \/ UNCHANGED users
  BY ZenonT(60) DEF Next, RequestStep, NonceTaken, AccountFind, AccountInsert, LoginWallet, Answer,
         GenerateToken, ReadWallet, SendFlag, SaveFlag, RequestFails, GetNonce, LogIn,
         RegisterOrApprove, Refresh, LogOut, Tick, Crash, vars
<1> QED
  BY <1>1, <1>2, <1>3

LEMMA OneCTStep == TypeInv /\ OneCTHasWallet /\ [Next]_vars => OneCTHasWallet'
<1> SUFFICES ASSUME TypeInv, OneCTHasWallet, [Next]_vars, faults' = 0, crashes' = 0,
                    NEW u \in User, users'[u].oneCT # 0,
                    NEW k, users'[u].oneCT = k
             PROVE  HasWallet(u, k)' \/ \E c \in Client : AboutToInsert(c, u, k)'
  BY DEF OneCTHasWallet, HasWallet, AboutToInsert
<1>1. faults = 0 /\ crashes = 0
  <2>1. faults \in Nat /\ crashes \in Nat
    BY AccountsAssumption DEF TypeInv, TypeOK
  <2>2. faults' \in {faults, faults + 1} /\ crashes' \in {crashes, crashes + 1}
    BY ZenonT(60) DEF Next, RequestStep, NonceTaken, NonceCreate, AccountFind, AccountSave, AccountInsert,
           LoginNonce, LoginWallet, Answer, GenerateToken, ReadWallet, SendFlag, SaveFlag, Fault,
           RequestFails, GetNonce, LogIn, RegisterOrApprove, Refresh, LogOut, Tick, Crash, vars,
           bounded
  <2> QED
    BY <2>1, <2>2
<1>2. CASE users[u].oneCT = k
  <2>1. HasWallet(u, k) \/ \E c \in Client : AboutToInsert(c, u, k)
    BY <1>1, <1>2 DEF OneCTHasWallet, HasWallet, AboutToInsert
  <2> QED
    BY <2>1, WalletsStay, InsertStays
<1> QED
  BY <1>2, OneCTMoves

\* While nothing fails, the oneCT that register gives to the contract is the address of one of
\* the user's wallets or of the one a login is about to insert, however many first logins run.
THEOREM OneCTHasWalletHolds == Spec => []OneCTHasWallet
<1>1. Init => OneCTHasWallet
  BY DEF Init, OneCTHasWallet, NoUser
<1> QED
  BY <1>1, OneCTStep, TypeInvHolds, PTL DEF Spec

-----------------------------------------------------------------------------
(* The flags of a wallet and the contracts *)

\* A request has sent its flag to the contract and is about to save it.
Saving(c, u, n, f) == At(c, "flag") /\ req[c].op = f /\ Of(c) = u /\ req[c].network = n

\* What register and approve rely on while nothing fails: a request holds the first wallet of
\* its user and network, a contract holds a flag only of a user with a wallet, a user has one
\* request of a flag, and what is about to be saved is what the contract holds.
HoldsFirst == \A c \in Client, u \in User, n \in Network :
    /\ req[c].op \in Flag /\ req[c].pc \in {"send", "flag"}
    /\ req[c].user = u /\ req[c].network = n
    => req[c].wallet \in First(u, n)
HeldHasWallet == \A u \in User, n \in Network, f \in Flag :
    contract[u][n][f] => First(u, n) # {}
OneOfUser == \A f \in Flag \ Overlaps, c, d \in Client :
    req[c].op = f /\ req[d].op = f /\ Of(c) = Of(d) => c = d
SavesHeld == \A f \in Flag \ Overlaps, c \in Client, u \in User, n \in Network :
    Saving(c, u, n, f) => req[c].on = contract[u][n][f]
Follows(f, u, n) ==
    \/ \E c \in Client : Saving(c, u, n, f)
    \/ \A i \in First(u, n) : wallets[i][f] = contract[u][n][f]
FlagsFollow == \A f \in Flag \ Overlaps, u \in User, n \in Network : Follows(f, u, n)
FlagInv ==
    faults = 0 /\ crashes = 0 =>
       HoldsFirst /\ HeldHasWallet /\ OneOfUser /\ SavesHeld /\ FlagsFollow

\* What is the first wallet of a user on a network stays so, with its other flag; and one that
\* becomes so is new, and has neither flag.
LEMMA WalletsChange ==
    ASSUME TypeInv, [Next]_vars
    PROVE  \/ UNCHANGED wallets
           \/ \E c \in Client : AccountInsert(c)
           \/ \E c \in Client : SaveFlag(c)
  BY ZenonT(60) DEF Next, RequestStep, NonceTaken, NonceCreate, AccountFind, AccountSave,
         LoginNonce, LoginWallet, Answer, GenerateToken, ReadWallet, SendFlag,
         RequestFails, GetNonce, LogIn, RegisterOrApprove, Refresh, LogOut, Tick, Crash, vars

LEMMA FlagSaved ==
    ASSUME TypeInv, NEW c \in Client, SaveFlag(c)
    PROVE  /\ req[c].op \in Flag /\ DOMAIN wallets' = DOMAIN wallets
           /\ \A i \in DOMAIN wallets :
                 /\ wallets'[i].user = wallets[i].user /\ wallets'[i].network = wallets[i].network
                 /\ \A f \in Flag : wallets'[i][f] = IF i = req[c].wallet /\ f = req[c].op
                                                      THEN req[c].on ELSE wallets[i][f]
<1>0. wallets \in Seq(Wallet)
  BY DEF TypeInv, TypeOK
<1>1. req[c].op \in Flag
  BY DEF SaveFlag, At, TypeInv, FlagRequests
<1>2. \A w \in Wallet : /\ Saved(w, req[c]).user = w.user /\ Saved(w, req[c]).network = w.network
                        /\ \A f \in Flag : Saved(w, req[c])[f] = IF f = req[c].op THEN req[c].on ELSE w[f]
  BY <1>1 DEF Saved, Wallet, Flag
<1>3. DOMAIN wallets' = DOMAIN wallets
  BY DEF SaveFlag
<1>4. \A i \in DOMAIN wallets : /\ wallets[i] \in Wallet
                                /\ wallets'[i] = IF i = req[c].wallet THEN Saved(wallets[i], req[c]) ELSE wallets[i]
  BY <1>0 DEF SaveFlag
<1> QED
  BY <1>1, <1>2, <1>3, <1>4

LEMMA FirstMoves ==
    ASSUME TypeInv, [Next]_vars, NEW u \in User, NEW n \in Network
    PROVE  /\ \A i \in First(u, n) : i \in First(u, n)'
           /\ \A i \in First(u, n)' :
                 \/ i \in First(u, n)
                 \/ First(u, n) = {} /\ \A f \in Flag : wallets'[i][f] = FALSE
<1>0. wallets \in Seq(Wallet) /\ DOMAIN wallets = 1..Len(wallets) /\ Len(wallets) \in Nat
  BY DEF TypeInv, TypeOK
<1>1. CASE UNCHANGED wallets
  BY <1>1 DEF First, WalletsOf
<1>2. CASE \E c \in Client : SaveFlag(c)
  <2>1. DOMAIN wallets' = DOMAIN wallets
    BY <1>2, FlagSaved
  <2>2. \A i \in DOMAIN wallets : wallets'[i].user = wallets[i].user /\ wallets'[i].network = wallets[i].network
    BY <1>2, FlagSaved
  <2>3. WalletsOf(u, n)' = WalletsOf(u, n)
    BY <2>1, <2>2 DEF WalletsOf
  <2> QED
    BY <2>3 DEF First
<1>3. ASSUME NEW c \in Client, AccountInsert(c)
      PROVE  /\ \A i \in First(u, n) : i \in First(u, n)'
             /\ \A i \in First(u, n)' :
                   \/ i \in First(u, n)
                   \/ First(u, n) = {} /\ \A f \in Flag : wallets'[i][f] = FALSE
  <2> DEFINE w == NewWallet(c)
             m == Len(wallets) + 1
  <2>1. wallets' = Append(wallets, w)
    BY <1>3 DEF AccountInsert, Inserted
  <2>2. /\ DOMAIN wallets' = DOMAIN wallets \cup {m} /\ wallets'[m] = w
        /\ \A i \in DOMAIN wallets : wallets'[i] = wallets[i] /\ i <= m /\ ~(m <= i)
    BY <1>0, <2>1
  <2>3. \A f \in Flag : w[f] = FALSE
    BY DEF NewWallet, Flag
  <2>4. /\ WalletsOf(u, n)' \subseteq WalletsOf(u, n) \cup {m}
        /\ WalletsOf(u, n) \subseteq WalletsOf(u, n)'
        /\ \A i \in WalletsOf(u, n) : i <= m /\ ~(m <= i)
    BY <2>2 DEF WalletsOf
  <2> HIDE DEF w, m
  <2>5. \A i \in First(u, n) : i \in First(u, n)'
    BY <2>4 DEF First
  <2>6. ASSUME NEW i \in First(u, n)' PROVE i \in First(u, n) \/ (i = m /\ First(u, n) = {})
    BY <2>4 DEF First
  <2> QED
    BY <2>2, <2>3, <2>5, <2>6
<1> QED
  BY <1>1, <1>2, <1>3, WalletsChange

\* What a step without a failure makes of a request, as far as flags go.
Begun(d) ==
    /\ req'[d].pc = "wallet"
    /\ req'[d].op \notin Overlaps => \A e \in Client : req[e].op = req'[d].op => Of(e) # req'[d].user
    /\ \A e \in Client \ {d} : req'[e] = req[e]
Loaded(d) ==
    /\ Same(req[d], req'[d]) /\ req[d].pc = "wallet" /\ req'[d].pc = "send"
    /\ req'[d].wallet \in First(req'[d].user, req'[d].network)
Sent(d) ==
    /\ SendFlag(d) /\ Same(req[d], req'[d]) /\ req[d].pc = "send" /\ req'[d].pc = "flag"
    /\ req'[d].op \in Flag /\ req'[d].wallet = req[d].wallet /\ req'[d].on = req[d].on
    /\ contract' = [contract EXCEPT ![req[d].user][req[d].network][req[d].op] = req[d].on]
    /\ UNCHANGED wallets
FlagMoved(d) ==
    \/ req'[d] = req[d]
    \/ req'[d].op \notin Flag /\ (At(d, "flag") => SaveFlag(d))
    \/ Same(req[d], req'[d]) /\ req'[d].pc \notin {"send", "flag"} /\ ~At(d, "flag")
    \/ Begun(d) /\ ~At(d, "flag")
    \/ Loaded(d)
    \/ Sent(d)

LEMMA NoFailure ==
    ASSUME TypeInv, [Next]_vars, faults' = 0, crashes' = 0
    PROVE  faults = 0 /\ crashes = 0 /\ ~Crash /\ \A c \in Client : ~RequestFails(c)
<1>1. faults \in Nat /\ crashes \in Nat
  BY AccountsAssumption DEF TypeInv, TypeOK
<1>2. faults' \in {faults, faults + 1} /\ crashes' \in {crashes, crashes + 1}
  BY ZenonT(60) DEF Next, RequestStep, NonceTaken, NonceCreate, AccountFind, AccountSave, AccountInsert,
         LoginNonce, LoginWallet, Answer, GenerateToken, ReadWallet, SendFlag, SaveFlag, Fault,
         RequestFails, GetNonce, LogIn, RegisterOrApprove, Refresh, LogOut, Tick, Crash, vars,
         bounded
<1> QED
  BY <1>1, <1>2 DEF Crash, RequestFails, Fault

LEMMA OneFlagMoves ==
    ASSUME TypeInv, NEW c \in Client, NEW r, req' = [req EXCEPT ![c] = r], FlagMoved(c)
    PROVE  \A d \in Client : FlagMoved(d)
  BY OnlyOne DEF FlagMoved

LEMMA StepFlagMoves ==
    ASSUME TypeInv, NEW c \in Client, RequestStep(c), faults' = 0, crashes' = 0, faults = 0
    PROVE  \A d \in Client : FlagMoved(d)
<1>0. /\ TypeOK /\ req \in [Client -> Request] /\ Of(c) \in User /\ minted + 1 \in Nat
      /\ wallets \in Seq(Wallet)
  BY DEF TypeInv, TypeOK, Of, Request
<1>f. req[c] \in Request
  BY <1>0
<1>e. ASSUME Ends(c), At(c, "flag") => SaveFlag(c) PROVE \A d \in Client : FlagMoved(d)
  <2>1. req'[c].op \notin Flag
    BY <1>e, <1>0, NoReqTyped DEF Ends, Flag
  <2> QED
    BY <1>e, <2>1, OneFlagMoves DEF Ends, FlagMoved
<1>s. ASSUME NEW r, Same(req[c], r), r.pc \notin {"send", "flag"}, ~At(c, "flag"),
             req' = [req EXCEPT ![c] = r]
      PROVE  \A d \in Client : FlagMoved(d)
  <2>1. req'[c] = r
    BY <1>0, <1>s
  <2> QED
    BY <1>s, <2>1, OneFlagMoves DEF FlagMoved
<1>p. ASSUME NEW pc \in {"create", "insert"}, Goto(c, pc), ~At(c, "flag")
      PROVE  \A d \in Client : FlagMoved(d)
  <2>1. Same(req[c], [req[c] EXCEPT !.pc = pc]) /\ [req[c] EXCEPT !.pc = pc].pc = pc
    BY ZenonT(60), <1>f, ToPc
  <2>2. req' = [req EXCEPT ![c] = [req[c] EXCEPT !.pc = pc]]
    BY <1>p DEF Goto
  <2> QED
    BY <1>p, <2>1, <2>2, <1>s
<1>a. ASSUME req' = [req EXCEPT ![c].pc = "all", ![c].todo = Branch], ~At(c, "flag")
      PROVE  \A d \in Client : FlagMoved(d)
  <2>1. /\ Same(req[c], [req[c] EXCEPT !.pc = "all", !.todo = Branch])
        /\ [req[c] EXCEPT !.pc = "all", !.todo = Branch].pc = "all"
    BY <1>f, ToAll
  <2>2. req' = [req EXCEPT ![c] = [req[c] EXCEPT !.pc = "all", !.todo = Branch]]
    BY <1>0, <1>a
  <2> QED
    BY <1>a, <2>1, <2>2, <1>s
<1>t. ASSUME NEW b \in Branch, req' = [req EXCEPT ![c].todo = @ \ {b}], At(c, "all")
      PROVE  \A d \in Client : FlagMoved(d)
  <2> DEFINE r == [req[c] EXCEPT !.todo = req[c].todo \ {b}]
  <2>1. req[c].todo \ {b} \in SUBSET Branch
    BY <1>f, RequestFields
  <2>2. Same(req[c], r) /\ r.pc = req[c].pc
    BY <1>f, <2>1, ToTodo
  <2>3. req' = [req EXCEPT ![c] = r]
    BY <1>0, <1>t
  <2>4. r.pc \notin {"send", "flag"} /\ ~At(c, "flag")
    BY <1>t, <2>2 DEF At
  <2> HIDE DEF r
  <2> QED
    BY <2>2, <2>3, <2>4, <1>s
<1>1. CASE NonceTaken(c) \/ NonceCreate(c) \/ Answer(c)
  <2>1. ~At(c, "flag")
    BY <1>1 DEF NonceTaken, NonceCreate, Answer, At
  <2> QED
    BY <1>1, <2>1, <1>e, <1>p DEF NonceTaken, NonceCreate, Answer
<1>3. CASE AccountFind(c)
  <2>0. ~At(c, "flag")
    BY <1>3 DEF AccountFind, At
  <2>1. CASE req' = [req EXCEPT ![c].pc = "save", ![c].wallet = minted + 1]
    <3> DEFINE r == [req[c] EXCEPT !.pc = "save", !.wallet = minted + 1]
    <3>1. Same(req[c], r) /\ r.pc = "save"
      BY <1>0, <1>f, ToSave
    <3>2. req' = [req EXCEPT ![c] = r]
      BY <1>0, <2>1
    <3> HIDE DEF r
    <3> QED
      BY <2>0, <3>1, <3>2, <1>s
  <2> QED
    BY <1>3, <1>a, <2>0, <2>1 DEF AccountFind
<1>4. CASE AccountSave(c) \/ AccountInsert(c)
  <2>0. ~At(c, "flag")
    BY <1>4 DEF AccountSave, AccountInsert, At
  <2> QED
    BY <1>4, <2>0, <1>p, <1>a DEF AccountSave, AccountInsert
<1>6. CASE LoginNonce(c)
  BY <1>6, <1>t DEF LoginNonce, Branch
<1>7. CASE LoginWallet(c)
  <2> DEFINE r == Branched(req[c], req[c].todo \ {"wallet"},
                            req[c].ok /\ First(Of(c), req[c].network) # {})
  <2>1. req[c].todo \ {"wallet"} \in SUBSET Branch
    BY <1>f, RequestFields
  <2>2. \A ok \in BOOLEAN :
           LET q == Branched(req[c], req[c].todo \ {"wallet"}, ok)
           IN  Same(req[c], q) /\ q.pc = req[c].pc
    BY <1>f, <2>1, ToOk
  <2>3. (req[c].ok /\ First(Of(c), req[c].network) # {}) \in BOOLEAN
    OBVIOUS
  <2>4. Same(req[c], r) /\ r.pc = req[c].pc
    BY <2>2, <2>3
  <2>5. r.pc \notin {"send", "flag"} /\ ~At(c, "flag")
    BY <1>7, <2>4 DEF LoginWallet, At
  <2>6. req' = [req EXCEPT ![c] = r]
    BY <1>0, <1>7 DEF LoginWallet, Branched
  <2> HIDE DEF r
  <2> QED
    BY <2>4, <2>5, <2>6, <1>s
<1>9. ASSUME NEW type \in {"access", "refresh"}, GenerateToken(c, type)
      PROVE  \A d \in Client : FlagMoved(d)
  <2>1. type \in Branch /\ req' = [req EXCEPT ![c].todo = @ \ {type}] /\ At(c, "all")
    BY <1>9 DEF GenerateToken, Branch
  <2> QED
    BY <1>t, <2>1
<1>10. CASE ReadWallet(c)
  <2>0. ~At(c, "flag") /\ req[c].pc = "wallet" /\ req[c].op \in Flag
    BY <1>10 DEF ReadWallet, At, TypeInv, FlagRequests
  <2>3. \/ req' = [req EXCEPT ![c] = NoReq]
        \/ \E i \in First(Of(c), req[c].network) :
              req' = [req EXCEPT ![c] = Found(req[c], i, wallets[i][OtherFlag(req[c].op)])]
    BY <1>0, <1>10 DEF ReadWallet, Ends, Found
  <2>4. ASSUME NEW i \in First(Of(c), req[c].network)
        PROVE  i \in Nat /\ wallets[i][OtherFlag(req[c].op)] \in BOOLEAN
    <3>1. i \in DOMAIN wallets /\ i \in Nat /\ wallets[i] \in Wallet
      BY <1>0 DEF First, WalletsOf
    <3>2. OtherFlag(req[c].op) \in Flag
      BY <2>0 DEF OtherFlag, Flag
    <3> QED
      BY <3>1, <3>2 DEF Wallet, Flag
  <2>5. ASSUME NEW i \in First(Of(c), req[c].network),
               req' = [req EXCEPT ![c] = Found(req[c], i, wallets[i][OtherFlag(req[c].op)])]
        PROVE  Loaded(c)
    <3>1. LET q == Found(req[c], i, wallets[i][OtherFlag(req[c].op)])
          IN  Same(req[c], q) /\ q.pc = "send" /\ q.wallet = i
      BY <1>f, <2>4, ToSend
    <3>2. req'[c] = Found(req[c], i, wallets[i][OtherFlag(req[c].op)])
      BY <1>0, <2>5
    <3> QED
      BY <2>0, <3>1, <3>2 DEF Loaded, Same, Of
  <2>6. CASE req' = [req EXCEPT ![c] = NoReq]
    BY <2>0, <2>6, <1>e DEF Ends
  <2> QED
    BY <2>3, <2>5, <2>6, OneFlagMoves DEF FlagMoved
<1>11. CASE SendFlag(c)
  <2>0. ~At(c, "flag") /\ req[c].pc = "send" /\ req[c].op \in Flag /\ UNCHANGED wallets
    BY <1>11 DEF SendFlag, At, TypeInv, FlagRequests
  <2>1. CASE Ends(c)
    BY <2>0, <2>1, <1>e
  <2>2. CASE /\ contract' = [contract EXCEPT ![Of(c)][req[c].network][req[c].op] = req[c].on]
             /\ Goto(c, "flag")
    <3>1. req'[c] = [req[c] EXCEPT !.pc = "flag"] /\ req' = [req EXCEPT ![c] = req'[c]]
      BY <1>0, <2>2 DEF Goto
    <3>2. LET q == [req[c] EXCEPT !.pc = "flag"]
          IN  Same(req[c], q) /\ q.pc = "flag" /\ q.wallet = req[c].wallet /\ q.on = req[c].on
      BY <1>f, ToPc
    <3>3. Sent(c)
      BY <1>11, <2>0, <2>2, <3>1, <3>2 DEF Sent, Same, Of
    <3> QED
      BY <3>1, <3>3, OneFlagMoves DEF FlagMoved
  <2> QED
    BY <1>11, <2>1, <2>2 DEF SendFlag
<1>12. CASE SaveFlag(c)
  BY <1>12, <1>e DEF SaveFlag
<1> QED
  BY <1>1, <1>3, <1>4, <1>6, <1>7, <1>9, <1>10, <1>11, <1>12 DEF RequestStep

LEMMA FlagMoves ==
    ASSUME TypeInv, [Next]_vars, faults' = 0, crashes' = 0
    PROVE  \A d \in Client : FlagMoved(d)
<1>0. req \in [Client -> Request] /\ users \in [User -> UserDoc]
  BY DEF TypeInv, TypeOK
<1>1. ASSUME NEW c \in Client, RequestStep(c) PROVE \A d \in Client : FlagMoved(d)
  BY <1>1, NoFailure, StepFlagMoves
<1>s. ASSUME NEW c \in Client, NEW r, Starts(c, r), r.op \notin Flag \/ r.pc = "wallet"
      PROVE  \A d \in Client : FlagMoved(d)
  <2>1. req' = [req EXCEPT ![c] = r] /\ req'[c] = r /\ ~At(c, "flag")
    BY <1>0, <1>s, NoReqTyped DEF Starts, At
  <2>2. r.pc = "wallet" => Begun(c)
    BY <1>0, <1>s, <2>1 DEF Starts, Begun
  <2> QED
    BY <1>s, <2>1, <2>2, OneFlagMoves DEF FlagMoved
<1>2. ASSUME NEW c \in Client, NEW u \in User, GetNonce(c, u) PROVE \A d \in Client : FlagMoved(d)
  <2> DEFINE r == [NoReq EXCEPT !.op = "nonce", !.user = u, !.pc = "taken"]
  <2>1. r.op \notin Flag
    BY NewNonce DEF Flag
  <2>2. Starts(c, r)
    BY <1>2 DEF GetNonce
  <2> HIDE DEF r
  <2> QED
    BY <2>1, <2>2, <1>s
<1>3. ASSUME NEW c \in Client, NEW u \in User, NEW n \in Network, LogIn(c, u, n)
      PROVE  \A d \in Client : FlagMoved(d)
  <2> DEFINE r == Login(u, n, users[u].nonce)
  <2>1. users[u].nonce \in Nat
    BY <1>0 DEF UserDoc
  <2>2. r.op \notin Flag
    BY <2>1, NewLogin DEF Flag
  <2>3. Starts(c, r)
    BY <1>3 DEF LogIn, Login
  <2> HIDE DEF r
  <2> QED
    BY <2>2, <2>3, <1>s
<1>4. ASSUME NEW c \in Client, NEW u \in User, NEW n \in Network, NEW op \in Flag, NEW on \in BOOLEAN,
             RegisterOrApprove(c, op, u, n, on)
      PROVE  \A d \in Client : FlagMoved(d)
  <2>1. Asks(op, u, n, on).pc = "wallet"
    BY NewFlag
  <2>2. Starts(c, Asks(op, u, n, on))
    BY <1>4 DEF RegisterOrApprove, Asks
  <2> QED
    BY <2>1, <2>2, <1>s
<1>5. ASSUME NEW c \in Client, NEW t \in Token, Refresh(c, t) PROVE \A d \in Client : FlagMoved(d)
  <2> DEFINE r == [NoReq EXCEPT !.op = "refresh", !.user = t.user, !.pc = "all",
                                !.todo = {"access", "refresh"}]
  <2>1. r.op \notin Flag
    BY NewRefresh DEF Token, Flag
  <2>2. Starts(c, r)
    BY <1>5 DEF Refresh
  <2> HIDE DEF r
  <2> QED
    BY <2>1, <2>2, <1>s
<1>7. CASE UNCHANGED req
  BY <1>7 DEF FlagMoved
<1> QED
  BY <1>1, <1>2, <1>3, <1>4, <1>5, <1>7, NoFailure DEF Next, LogOut, Tick, vars

LEMMA ContractChanges ==
    ASSUME TypeInv, [Next]_vars, faults' = 0, crashes' = 0
    PROVE  UNCHANGED contract \/ \E c \in Client : Sent(c)
<1>1. ASSUME NEW c \in Client, SendFlag(c),
             contract' = [contract EXCEPT ![Of(c)][req[c].network][req[c].op] = req[c].on],
             Goto(c, "flag")
      PROVE  Sent(c)
  <2>0. req \in [Client -> Request] /\ req[c] \in Request
    BY DEF TypeInv, TypeOK
  <2>1. req'[c] = [req[c] EXCEPT !.pc = "flag"]
    BY <1>1, <2>0 DEF Goto
  <2>2. LET q == [req[c] EXCEPT !.pc = "flag"]
        IN  Same(req[c], q) /\ q.pc = "flag" /\ q.wallet = req[c].wallet /\ q.on = req[c].on
    BY <2>0, ToPc
  <2>3. req[c].pc = "send" /\ req[c].op \in Flag /\ UNCHANGED wallets
    BY <1>1 DEF SendFlag, At, TypeInv, FlagRequests
  <2> QED
    BY <1>1, <2>1, <2>2, <2>3 DEF Sent, Same, Of
<1>2. ASSUME NEW c \in Client, SendFlag(c), ~Sent(c) PROVE UNCHANGED contract
  <2>1. ~Fault
    <3>1. faults = 0
      BY NoFailure
    <3> QED
      BY <3>1 DEF Fault
  <2> QED
    BY <1>1, <1>2, <2>1 DEF SendFlag
<1>3. (\E c \in Client : SendFlag(c)) \/ UNCHANGED contract
  BY ZenonT(60) DEF Next, RequestStep, NonceTaken, NonceCreate, AccountFind, AccountSave, AccountInsert,
         LoginNonce, LoginWallet, Answer, GenerateToken, ReadWallet, SaveFlag,
         RequestFails, GetNonce, LogIn, RegisterOrApprove, Refresh, LogOut, Tick, Crash, vars
<1> QED
  BY <1>2, <1>3

\* Two wallets cannot both be the first, and a wallet has one user and one network.
LEMMA OneFirst ==
    ASSUME TypeInv, NEW u \in User, NEW n \in Network, NEW i \in First(u, n)
    PROVE  /\ i \in DOMAIN wallets /\ wallets[i].user = u /\ wallets[i].network = n
           /\ \A j \in First(u, n) : j = i
<1>1. wallets \in Seq(Wallet)
  BY DEF TypeInv, TypeOK
<1>2. \A j \in First(u, n) : j \in Nat /\ j <= i /\ i <= j
  BY <1>1 DEF First, WalletsOf
<1>3. i \in Nat
  BY <1>2
<1> QED
  BY <1>2, <1>3 DEF First, WalletsOf

LEMMA Owned ==
    ASSUME TypeInv, NEW c \in Client
    PROVE  Of(c) \in User /\ req[c].network \in Network /\ Of(c) = req[c].user
  BY RequestFields DEF TypeInv, TypeOK, Of

LEMMA FlagStep == TypeInv /\ FlagInv /\ [Next]_vars => FlagInv'
<1> SUFFICES ASSUME TypeInv, FlagInv, [Next]_vars, faults' = 0, crashes' = 0
             PROVE  (HoldsFirst /\ HeldHasWallet /\ OneOfUser /\ SavesHeld /\ FlagsFollow)'
  BY DEF FlagInv
<1>i. HoldsFirst /\ HeldHasWallet /\ OneOfUser /\ SavesHeld /\ FlagsFollow
  BY NoFailure DEF FlagInv
<1>m. \A d \in Client : FlagMoved(d)
  BY FlagMoves
<1>t. contract \in [User -> [Network -> [Flag -> BOOLEAN]]]
  BY DEF TypeInv, TypeOK
<1>o. \A c \in Client : req[c].user \in User /\ req[c].network \in Network /\ Of(c) = req[c].user
  BY Owned
<1>f. \A u \in User, n \in Network : \A i \in First(u, n) : i \in First(u, n)'
  BY FirstMoves
<1>e. \A u \in User, n \in Network, f \in Flag : \A d \in Client :
         Sent(d) => contract'[u][n][f] = IF u = req[d].user /\ n = req[d].network /\ f = req[d].op
                                         THEN req[d].on ELSE contract[u][n][f]
  BY <1>t, <1>o DEF Sent
<1>c. ASSUME NEW u \in User, NEW n \in Network, NEW f \in Flag
      PROVE  \/ contract'[u][n][f] = contract[u][n][f]
             \/ \E d \in Client : /\ Sent(d) /\ req[d].user = u /\ req[d].network = n /\ req[d].op = f
                                  /\ contract'[u][n][f] = req[d].on
  BY <1>e, ContractChanges
<1>1. HoldsFirst'
  <2> SUFFICES ASSUME NEW c \in Client, req'[c].op \in Flag, req'[c].pc \in {"send", "flag"},
                      NEW u \in User, NEW n \in Network, req'[c].user = u, req'[c].network = n
               PROVE  req'[c].wallet \in First(u, n)'
    BY DEF HoldsFirst
  <2>1. CASE req'[c] = req[c]
    BY <1>i, <1>f, <2>1 DEF HoldsFirst
  <2>2. CASE Loaded(c)
    BY <1>f, <2>2 DEF Loaded
  <2>3. CASE Sent(c)
    BY <1>i, <1>f, <2>3 DEF HoldsFirst, Sent, Same
  <2> QED
    BY <1>m, <2>1, <2>2, <2>3 DEF FlagMoved, Begun
<1>2. HeldHasWallet'
  <2> SUFFICES ASSUME NEW u \in User, NEW n \in Network, NEW f \in Flag, contract'[u][n][f]
               PROVE  First(u, n)' # {}
    BY DEF HeldHasWallet
  <2>1. CASE contract[u][n][f]
    BY <1>i, <1>f, <2>1 DEF HeldHasWallet
  <2>2. CASE ~contract[u][n][f]
    <3>1. PICK d \in Client : Sent(d) /\ req[d].user = u /\ req[d].network = n /\ req[d].op = f
      BY <1>c, <2>2
    <3>2. req[d].wallet \in First(u, n)
      BY <1>i, <1>o, <3>1 DEF HoldsFirst, Sent
    <3> QED
      BY <1>f, <3>2
  <2> QED
    BY <2>1, <2>2
<1>3. OneOfUser'
  <2> SUFFICES ASSUME NEW f \in Flag \ Overlaps, NEW c \in Client, NEW d \in Client,
                      req'[c].op = f, req'[d].op = f, req'[c].user = req'[d].user
               PROVE  c = d
    BY DEF OneOfUser, Of
  <2>1. ASSUME NEW a \in Client, NEW b \in Client, Begun(a), a # b,
               req'[a].op = f, req'[b].op = f, req'[a].user = req'[b].user
        PROVE  FALSE
    BY <1>o, <2>1 DEF Begun
  <2>2. CASE Begun(c) \/ Begun(d)
    BY <2>1, <2>2
  <2>3. CASE ~Begun(c) /\ ~Begun(d)
    <3>1. req[c].op = f /\ req[c].user = req'[c].user
      BY <1>m, <2>3 DEF FlagMoved, Same, Loaded, Sent
    <3>2. req[d].op = f /\ req[d].user = req'[d].user
      BY <1>m, <2>3 DEF FlagMoved, Same, Loaded, Sent
    <3> QED
      BY <1>i, <1>o, <3>1, <3>2 DEF OneOfUser
  <2> QED
    BY <2>2, <2>3
<1>4. SavesHeld'
  <2> SUFFICES ASSUME NEW f \in Flag \ Overlaps, NEW c \in Client, NEW u \in User, NEW n \in Network,
                      Saving(c, u, n, f)'
               PROVE  req'[c].on = contract'[u][n][f]
    BY DEF SavesHeld
  <2>0. /\ req'[c].op = f /\ req'[c].pc = "flag" /\ req'[c].user = u /\ req'[c].network = n
        /\ f \in Flag
    BY DEF Saving, At, Of
  <2>1. CASE req'[c] = req[c]
    <3>1. Saving(c, u, n, f) /\ req[c].on = contract[u][n][f]
      BY <1>i, <1>o, <2>0, <2>1 DEF SavesHeld, Saving, At, Of, Flag
    <3>2. ASSUME NEW d \in Client, Sent(d), req[d].user = u, req[d].network = n, req[d].op = f
          PROVE  FALSE
      <4>1. c = d
        BY <1>i, <1>o, <2>0, <2>1, <3>2 DEF OneOfUser
      <4> QED
        BY <2>0, <2>1, <3>2, <4>1 DEF Sent
    <3> QED
      BY <1>c, <2>0, <2>1, <3>1, <3>2
  <2>2. CASE Sent(c)
    <3>1. req[c].op = f /\ req[c].user = u /\ req[c].network = n /\ req'[c].on = req[c].on
      BY <2>0, <2>2 DEF Sent, Same
    <3>2. contract'[u][n][f] = req[c].on
      BY <1>e, <2>0, <2>2, <3>1
    <3> QED
      BY <3>1, <3>2
  <2> QED
    BY <1>m, <2>0, <2>1, <2>2 DEF FlagMoved, Begun, Loaded
<1>5. FlagsFollow'
  <2> SUFFICES ASSUME NEW f \in Flag \ Overlaps, NEW u \in User, NEW n \in Network,
                      \A c \in Client : ~Saving(c, u, n, f)'
               PROVE  \A i \in First(u, n)' : wallets'[i][f] = contract'[u][n][f]
    BY DEF FlagsFollow, Follows
  <2>0. f \in Flag
    OBVIOUS
  <2>1. \A d \in Client : Sent(d) => ~(req[d].user = u /\ req[d].network = n /\ req[d].op = f)
    BY <2>0 DEF Sent, Same, Saving, At, Of, Flag
  <2>2. contract'[u][n][f] = contract[u][n][f]
    BY <1>c, <2>0, <2>1
  <2>3. CASE \E c \in Client : Saving(c, u, n, f)
    <3>1. PICK c \in Client : Saving(c, u, n, f)
      BY <2>3
    <3>2. /\ req[c].op = f /\ req[c].pc = "flag" /\ req[c].user = u /\ req[c].network = n
          /\ At(c, "flag")
      BY <3>1 DEF Saving, At, Of
    <3>3. SaveFlag(c)
      <4>1. req'[c] # req[c]
        BY <3>1 DEF Saving, At, Of
      <4> QED
        BY <1>m, <3>2, <4>1 DEF FlagMoved, Loaded, Sent
    <3>4. req[c].wallet \in First(u, n) /\ req[c].on = contract[u][n][f]
      BY <1>i, <1>o, <2>0, <3>1, <3>2 DEF HoldsFirst, SavesHeld
    <3>5. wallets'[req[c].wallet][f] = contract'[u][n][f]
      <4>1. req[c].wallet \in DOMAIN wallets
        BY <3>4, OneFirst
      <4> QED
        BY <2>0, <2>2, <3>2, <3>3, <3>4, <4>1, FlagSaved
    <3>6. ASSUME NEW i \in First(u, n)' PROVE i = req[c].wallet
      <4>1. i \in First(u, n)
        BY <3>4, FirstMoves
      <4> QED
        BY <3>4, <4>1, OneFirst
    <3> QED
      BY <3>5, <3>6
  <2>4. CASE \A i \in First(u, n) : wallets[i][f] = contract[u][n][f]
    <3> SUFFICES ASSUME NEW i \in First(u, n)' PROVE wallets'[i][f] = contract[u][n][f]
      BY <2>2
    <3>1. CASE First(u, n) = {} /\ \A g \in Flag : wallets'[i][g] = FALSE
      <4>1. contract[u][n][f] = FALSE
        BY <1>i, <1>t, <2>0, <3>1 DEF HeldHasWallet
      <4> QED
        BY <2>0, <3>1, <4>1
    <3>2. CASE i \in First(u, n)
      <4>0. i \in DOMAIN wallets /\ wallets[i].user = u /\ wallets[i].network = n
        BY <3>2, OneFirst
      <4>1. CASE UNCHANGED wallets
        BY <2>4, <3>2, <4>1
      <4>2. ASSUME NEW c \in Client, AccountInsert(c) PROVE wallets'[i][f] = contract[u][n][f]
        <5>1. wallets \in Seq(Wallet) /\ wallets' = Append(wallets, NewWallet(c))
          BY <4>2 DEF TypeInv, TypeOK, AccountInsert, Inserted
        <5> QED
          BY <2>4, <3>2, <4>0, <5>1
      <4>3. ASSUME NEW c \in Client, SaveFlag(c) PROVE wallets'[i][f] = contract[u][n][f]
        <5>1. wallets'[i][f] = IF i = req[c].wallet /\ f = req[c].op THEN req[c].on ELSE wallets[i][f]
          BY <2>0, <4>0, <4>3, FlagSaved
        <5>2. ASSUME i = req[c].wallet, f = req[c].op PROVE req[c].on = contract[u][n][f]
          <6>1. At(c, "flag") /\ req[c].pc = "flag"
            BY <4>3 DEF SaveFlag, At
          <6>2. i \in First(req[c].user, req[c].network)
            BY <1>i, <1>o, <2>0, <5>2, <6>1 DEF HoldsFirst
          <6>3. req[c].user = u /\ req[c].network = n
            BY <1>o, <4>0, <6>2, OneFirst
          <6> QED
            BY <1>i, <1>o, <5>2, <6>1, <6>3 DEF SavesHeld, Saving
        <5> QED
          BY <2>4, <3>2, <5>1, <5>2
      <4> QED
        BY <4>1, <4>2, <4>3, WalletsChange
    <3> QED
      BY <3>1, <3>2, FirstMoves
  <2> QED
    BY <1>i, <2>3, <2>4 DEF FlagsFollow, Follows
<1> QED
  BY <1>1, <1>2, <1>3, <1>4, <1>5

\* While nothing fails, isRegistered and isApproved of a user's wallet say what the contract
\* holds unless a request of that flag is under way, however many requests of the other flag
\* load and save the same document: wallet.save() writes only the path that changed.
THEOREM FlagsFollowContractHolds == Spec => []FlagsFollowContract
<1>1. Init => FlagInv
  <2> SUFFICES ASSUME Init PROVE FlagInv
    OBVIOUS
  <2>1. \A c \in Client : req[c].op = "idle"
    BY NoReqTyped DEF Init
  <2>2. \A u \in User, n \in Network : First(u, n) = {}
    BY DEF Init, First, WalletsOf
  <2>3. \A u \in User, n \in Network, f \in Flag : contract[u][n][f] = FALSE
    BY DEF Init
  <2> QED
    BY <2>1, <2>2, <2>3 DEF FlagInv, HoldsFirst, HeldHasWallet, OneOfUser, SavesHeld, FlagsFollow,
       Follows, Saving, At, Flag
<1>2. FlagInv => FlagsFollowContract
  BY DEF FlagInv, FlagsFollow, Follows, Saving, FlagsFollowContract
<1> QED
  BY <1>1, <1>2, FlagStep, TypeInvHolds, PTL DEF Spec

-----------------------------------------------------------------------------
(* Sessions *)

\* Which positions the requests have.
Places ==
    \A c \in Client :
       LET r == req[c] IN
       /\ r.op # "idle" /\ r.pc \in {"find", "save", "insert"} => r.op = "login"
       /\ r.op = "login" => r.pc \in {"find", "save", "insert", "all"}
       /\ r.op # "idle" /\ r.pc = "all" => r.op \in {"login", "refresh"}

\* A request that stands for a session whose token is not stored yet.
InWay(r, u) ==
    /\ r.user = u
    /\ \/ r.op = "login" /\ r.pc # "all"
       \/ r.op # "idle" /\ r.pc = "all" /\ "refresh" \in r.todo
Refreshes(u) == {t \in Token : t.user = u /\ t.type = "refresh"}
Sessions(u) == Stored(u) + Cardinality(UnderWay(u)) + logouts[u]

SessionInv ==
    /\ Places
    /\ \A u \in User : IsFiniteSet(UnderWay(u))
    /\ SessionsCounted

LEMMA UnderWayIs == \A u : UnderWay(u) = {c \in Client : InWay(req[c], u)}
  BY DEF UnderWay, InWay, Of, At

\* What is stored of a user is finite: one token a second.
LEMMA RefreshesFinite == \A u \in User : IsFiniteSet(Refreshes(u)) /\ Refreshes(u) \subseteq Token
<1> SUFFICES ASSUME NEW u \in User PROVE IsFiniteSet(Refreshes(u))
  BY DEF Refreshes
<1> DEFINE f == [t \in Refreshes(u) |-> t.second]
<1>1. \A t \in Refreshes(u) : t.second \in 0..MaxClock
  BY DEF Refreshes, Token
<1>2. \A s, t \in Refreshes(u) : s.second = t.second => s = t
  BY DEF Refreshes, Token
<1>3. f \in Injection(Refreshes(u), 0..MaxClock)
  BY <1>1, <1>2 DEF Injection, IsInjective
<1>4. IsFiniteSet(0..MaxClock)
  BY FS_Interval, AccountsAssumption
<1> QED
  BY <1>3, <1>4, FS_Injection

LEMMA StoredIs == \A u : Stored(u) = Sum(tokens, Refreshes(u))
  BY DEF Stored, Sum, Refreshes

LEMMA StoredNat == TypeInv => \A u \in User : Stored(u) \in Nat
<1> SUFFICES ASSUME TypeInv, NEW u \in User PROVE Sum(tokens, Refreshes(u)) \in Nat
  BY StoredIs
<1>1. \A x \in Refreshes(u) : tokens[x] \in Nat
  BY RefreshesFinite DEF TypeInv, TypeOK
<1> QED
  BY <1>1, RefreshesFinite, SumNat

LEMMA StoredMoves ==
    ASSUME TypeInv, TypeInv', NEW t \in Token, NEW v, tokens' = [tokens EXCEPT ![t] = v],
           NEW u \in User
    PROVE  Stored(u)' = Stored(u) + IF t.user = u /\ t.type = "refresh" THEN v - tokens[t] ELSE 0
<1>0. tokens \in [Token -> Nat] /\ tokens' \in [Token -> Nat]
  BY DEF TypeInv, TypeOK
<1>1. IsFiniteSet(Refreshes(u)) /\ Refreshes(u) \subseteq Token
  BY RefreshesFinite
<1>2. IntOn(tokens, Refreshes(u)) /\ IntOn(tokens', Refreshes(u))
  BY <1>0, <1>1 DEF IntOn
<1>3. tokens'[t] = v /\ \A x \in Refreshes(u) \ {t} : tokens'[x] = tokens[x]
  BY <1>0, <1>1
<1>4. Stored(u) = Sum(tokens, Refreshes(u)) /\ Stored(u)' = Sum(tokens', Refreshes(u))
  BY DEF Stored, Sum, Refreshes, FoldFunctionOnSet, MapThenFoldSet
<1>5. Sum(tokens', Refreshes(u)) =
         Sum(tokens, Refreshes(u)) + IF t \in Refreshes(u) THEN tokens'[t] - tokens[t] ELSE 0
  <2> DEFINE f == tokens
             h == tokens'
             S == Refreshes(u)
  <2>1. IsFiniteSet(S) /\ IntOn(f, S) /\ IntOn(h, S) /\ \A x \in S \ {t} : h[x] = f[x]
    BY <1>1, <1>2, <1>3
  <2> HIDE DEF f, h, S
  <2>2. Sum(h, S) = Sum(f, S) + IF t \in S THEN h[t] - f[t] ELSE 0
    BY <2>1, SumChange
  <2> QED
    BY <2>2 DEF f, h, S
<1>6. t \in Refreshes(u) <=> t.user = u /\ t.type = "refresh"
  BY DEF Refreshes
<1> QED
  BY <1>3, <1>4, <1>5, <1>6

LEMMA StoredStays ==
    ASSUME UNCHANGED tokens, NEW u PROVE Stored(u)' = Stored(u)
  BY DEF Stored, FoldFunctionOnSet, MapThenFoldSet

\* One request changes: the sessions under way change by that request.
LEMMA WayMoves ==
    ASSUME TypeInv, NEW c \in Client, NEW r, req' = [req EXCEPT ![c] = r],
           NEW u, IsFiniteSet(UnderWay(u))
    PROVE  /\ IsFiniteSet(UnderWay(u)')
           /\ Cardinality(UnderWay(u)) \in Nat /\ Cardinality(UnderWay(u)') \in Nat
           /\ Cardinality(UnderWay(u)') = Cardinality(UnderWay(u))
                + (IF InWay(r, u) THEN 1 ELSE 0) - (IF InWay(req[c], u) THEN 1 ELSE 0)
<1> DEFINE A == UnderWay(u)
           B == UnderWay(u)'
<1>1. \A d \in Client : req'[d] = IF d = c THEN r ELSE req[d]
  BY OnlyOne
<1>2. A = {d \in Client : InWay(req[d], u)}
  BY UnderWayIs
<1>3. B = {d \in Client : InWay(req'[d], u)}
  BY DEF UnderWay, InWay, Of, At
<1> HIDE DEF A, B
<1>4. CASE InWay(r, u) /\ ~InWay(req[c], u)
  <2>1. B = A \cup {c} /\ c \notin A
    BY <1>1, <1>2, <1>3, <1>4
  <2>2. IsFiniteSet(A)
    BY DEF A
  <2>3. IsFiniteSet(B) /\ Cardinality(B) = Cardinality(A) + 1 /\ Cardinality(A) \in Nat
    BY <2>1, <2>2, FS_AddElement, FS_CardinalityType
  <2> QED
    BY <1>4, <2>3 DEF A, B
<1>5. CASE ~InWay(r, u) /\ InWay(req[c], u)
  <2>1. B = A \ {c} /\ c \in A
    BY <1>1, <1>2, <1>3, <1>5
  <2>2. IsFiniteSet(A)
    BY DEF A
  <2>3. /\ IsFiniteSet(B) /\ Cardinality(B) = Cardinality(A) - 1
        /\ Cardinality(A) \in Nat /\ Cardinality(B) \in Nat
    BY <2>1, <2>2, FS_RemoveElement, FS_CardinalityType
  <2> QED
    BY <1>5, <2>3 DEF A, B
<1>6. CASE InWay(r, u) <=> InWay(req[c], u)
  <2>1. B = A
    BY <1>1, <1>2, <1>3, <1>6
  <2>2. Cardinality(A) \in Nat
    BY FS_CardinalityType DEF A
  <2> QED
    BY <1>6, <2>1, <2>2 DEF A, B
<1> QED
  BY <1>4, <1>5, <1>6

Place(r) ==
    /\ r.op # "idle" /\ r.pc \in {"find", "save", "insert"} => r.op = "login"
    /\ r.op = "login" => r.pc \in {"find", "save", "insert", "all"}
    /\ r.op # "idle" /\ r.pc = "all" => r.op \in {"login", "refresh"}
Quiet == faults = 0 /\ crashes = 0

LEMMA PlacesMove ==
    ASSUME TypeInv, Places, NEW c \in Client, NEW r, req' = [req EXCEPT ![c] = r], Place(r)
    PROVE  Places'
<1>1. \A d \in Client : req'[d] = IF d = c THEN r ELSE req[d]
  BY OnlyOne
<1> QED
  BY <1>1 DEF Places, Place

LEMMA Counts ==
    ASSUME TypeInv, SessionInv, NEW u \in User
    PROVE  /\ Stored(u) \in Nat /\ Cardinality(UnderWay(u)) \in Nat
           /\ logouts[u] \in Nat /\ logins[u] \in Nat
           /\ Sessions(u) = Stored(u) + Cardinality(UnderWay(u)) + logouts[u]
           /\ Sessions(u) <= logins[u]
           /\ Quiet => Sessions(u) = logins[u]
<1>1. Stored(u) \in Nat
  BY StoredNat
<1>2. Cardinality(UnderWay(u)) \in Nat
  BY FS_CardinalityType DEF SessionInv
<1>3. logouts[u] \in Nat /\ logins[u] \in Nat
  BY AccountsAssumption DEF TypeInv, TypeOK
<1> QED
  BY <1>1, <1>2, <1>3 DEF Sessions, SessionInv, SessionsCounted, Quiet

\* The sessions of each user after a step of one request, from what the step stores, removes
\* and begins.
Balanced(c, r, u, stored, out, in) ==
    LET way == (IF InWay(r, u) THEN 1 ELSE 0) - (IF InWay(req[c], u) THEN 1 ELSE 0) IN
    /\ stored \in Int /\ out \in Int /\ in \in Int
    /\ Stored(u)' = Stored(u) + stored
    /\ logouts'[u] = logouts[u] + out /\ logins'[u] = logins[u] + in
    /\ stored + way + out <= in
    /\ Quiet' => Quiet /\ stored + way + out = in

LEMMA SessionsMove ==
    ASSUME TypeInv, SessionInv, NEW c \in Client, NEW r, req' = [req EXCEPT ![c] = r], Place(r),
           \A u \in User : \E stored, out, in \in Int : Balanced(c, r, u, stored, out, in)
    PROVE  SessionInv'
<1>1. Places'
  BY PlacesMove DEF SessionInv
<1>2. ASSUME NEW u \in User
      PROVE  /\ IsFiniteSet(UnderWay(u)')
             /\ Sessions(u)' <= logins'[u]
             /\ Quiet' => Sessions(u)' = logins'[u]
  <2>1. PICK stored, out, in \in Int : Balanced(c, r, u, stored, out, in)
    OBVIOUS
  <2> DEFINE a == Stored(u)
             b == Cardinality(UnderWay(u))
             b2 == Cardinality(UnderWay(u)')
             way == (IF InWay(r, u) THEN 1 ELSE 0) - (IF InWay(req[c], u) THEN 1 ELSE 0)
  <2>2. /\ a \in Nat /\ b \in Nat /\ logouts[u] \in Nat /\ logins[u] \in Nat
        /\ a + b + logouts[u] <= logins[u]
        /\ Quiet => a + b + logouts[u] = logins[u]
    BY Counts
  <2>3. IsFiniteSet(UnderWay(u)') /\ b2 = b + way
    <3>1. IsFiniteSet(UnderWay(u))
      BY DEF SessionInv
    <3> QED
      BY <3>1, WayMoves, <2>2
  <2>4. /\ Stored(u)' = a + stored /\ logouts'[u] = logouts[u] + out /\ logins'[u] = logins[u] + in
        /\ stored + way + out <= in
        /\ Quiet' => Quiet /\ stored + way + out = in
    BY <2>1 DEF Balanced
  <2>5. Sessions(u)' = Stored(u)' + b2 + logouts'[u]
    BY DEF Sessions
  <2>6. way \in Int
    OBVIOUS
  <2> HIDE DEF a, b, b2, way
  <2>7. Sessions(u)' = (a + stored) + (b + way) + (logouts[u] + out)
    BY <2>3, <2>4, <2>5
  <2>8. Sessions(u)' <= logins'[u]
    BY <2>2, <2>4, <2>6, <2>7
  <2>9. Quiet' => Sessions(u)' = logins'[u]
    BY <2>2, <2>4, <2>6, <2>7
  <2> QED
    BY <2>3, <2>8, <2>9
<1> QED
  BY <1>1, <1>2 DEF SessionInv, SessionsCounted, Sessions, Quiet

\* A step that stores, removes and begins nothing.
LEMMA SessionsStay ==
    ASSUME TypeInv, SessionInv, NEW c \in Client, NEW r, req' = [req EXCEPT ![c] = r], Place(r),
           UNCHANGED <<tokens, logins, logouts>>, Quiet' => Quiet,
           \A u \in User : /\ InWay(r, u) => InWay(req[c], u)
                           /\ Quiet' => (InWay(req[c], u) => InWay(r, u))
    PROVE  SessionInv'
<1>1. ASSUME NEW u \in User PROVE Balanced(c, r, u, 0, 0, 0)
  <2>1. Stored(u) \in Nat /\ logouts[u] \in Nat /\ logins[u] \in Nat
    BY Counts
  <2>2. Stored(u)' = Stored(u)
    BY StoredStays
  <2> QED
    BY <2>1, <2>2 DEF Balanced
<1>2. \A u \in User : \E stored, out, in \in Int : Balanced(c, r, u, stored, out, in)
  BY <1>1
<1> QED
  BY <1>2, SessionsMove

\* ... while no request is touched.
LEMMA SessionsSame ==
    ASSUME TypeInv, SessionInv, UNCHANGED <<tokens, logins, logouts, req, faults, crashes>>
    PROVE  SessionInv'
<1>1. Places'
  BY DEF SessionInv, Places
<1>2. ASSUME NEW u \in User PROVE UnderWay(u)' = UnderWay(u) /\ Stored(u)' = Stored(u)
  BY StoredStays DEF UnderWay, Of, At
<1> QED
  BY <1>1, <1>2 DEF SessionInv, SessionsCounted

LEMMA NoReqPlace == Place(NoReq) /\ \A u : ~InWay(NoReq, u)
  BY NoReqTyped DEF Place, InWay

LEMMA EndedStay ==
    ASSUME TypeInv, SessionInv, NEW c \in Client, Ends(c),
           UNCHANGED <<tokens, logins, logouts>>, Quiet' => Quiet,
           Quiet' => \A u \in User : ~InWay(req[c], u)
    PROVE  SessionInv'
  BY NoReqPlace, SessionsStay DEF Ends

\* The next position of the same request.
LEMMA PlaceStays ==
    ASSUME TypeInv, SessionInv, NEW c \in Client, NEW r, req' = [req EXCEPT ![c] = r],
           Same(req[c], r), Place(r), UNCHANGED <<tokens, logins, logouts>>, Quiet' => Quiet,
           \/ r.op = "login" /\ r.pc # "all" /\ req[c].pc # "all"
           \/ r.op = "login" /\ req[c].pc # "all" /\ r.pc = "all" /\ "refresh" \in r.todo
           \/ r.pc = "all" /\ req[c].pc = "all" /\ ("refresh" \in r.todo <=> "refresh" \in req[c].todo)
           \/ r.op # "login" /\ r.pc # "all" /\ req[c].pc # "all"
    PROVE  SessionInv'
<1>1. r.op = req[c].op /\ r.user = req[c].user
  BY DEF Same
<1>2. ASSUME NEW u \in User PROVE InWay(r, u) <=> InWay(req[c], u)
  <2>1. CASE r.op = "login" /\ req[c].pc # "all" /\ (r.pc # "all" \/ "refresh" \in r.todo)
    BY <1>1, <2>1 DEF InWay
  <2>2. CASE r.pc = "all" /\ req[c].pc = "all" /\ ("refresh" \in r.todo <=> "refresh" \in req[c].todo)
    BY <1>1, <2>2 DEF InWay
  <2>3. CASE r.op # "login" /\ r.pc # "all" /\ req[c].pc # "all"
    BY <1>1, <2>3 DEF InWay
  <2> QED
    BY <2>1, <2>2, <2>3
<1> QED
  BY <1>2, SessionsStay

LEMMA SessionLogin ==
    ASSUME TypeInv, TypeInv', SessionInv, NEW c \in Client,
           \/ NonceTaken(c) \/ NonceCreate(c)
           \/ AccountFind(c) \/ AccountSave(c) \/ AccountInsert(c)
           \/ LoginNonce(c) \/ LoginWallet(c) \/ Answer(c)
           \/ ReadWallet(c) \/ SendFlag(c) \/ SaveFlag(c)
    PROVE  SessionInv'
<1>0. req \in [Client -> Request] /\ req[c] \in Request /\ minted + 1 \in Nat /\ wallets \in Seq(Wallet)
  BY DEF TypeInv, TypeOK
<1>f. req[c] \in Request
  BY <1>0
<1>u. UNCHANGED <<tokens, logins, logouts>>
  BY DEF NonceTaken, NonceCreate, AccountFind, AccountSave, AccountInsert, LoginNonce, LoginWallet,
         Answer, ReadWallet, SendFlag, SaveFlag, history
<1>q. Quiet' => Quiet
  <2>1. faults \in Nat /\ crashes \in Nat
    BY AccountsAssumption DEF TypeInv, TypeOK
  <2>2. faults' \in {faults, faults + 1} /\ crashes' = crashes
    BY DEF NonceTaken, NonceCreate, AccountFind, AccountSave, AccountInsert, LoginNonce, LoginWallet,
           Answer, ReadWallet, SendFlag, SaveFlag, bounded, Fault
  <2> QED
    BY <2>1, <2>2 DEF Quiet
<1>p. Place(req[c])
  BY DEF SessionInv, Places, Place
<1>1. CASE NonceTaken(c) \/ NonceCreate(c)
  <2>1. req[c].op # "login" /\ req[c].op # "idle" /\ req[c].pc \in {"taken", "create"}
    BY <1>1, <1>p DEF NonceTaken, NonceCreate, At, Place
  <2>2. CASE Ends(c)
    BY <1>u, <1>q, <2>1, <2>2, EndedStay DEF InWay
  <2>3. CASE Goto(c, "create")
    <3> DEFINE r == [req[c] EXCEPT !.pc = "create"]
    <3>1. Same(req[c], r) /\ r.pc = "create" /\ req' = [req EXCEPT ![c] = r]
      BY <1>f, <2>3, ToPc DEF Goto
    <3> HIDE DEF r
    <3>2. Place(r)
      BY <2>1, <3>1 DEF Place, Same
    <3> QED
      BY <1>u, <1>q, <2>1, <3>1, <3>2, PlaceStays DEF Same
  <2> QED
    BY <1>1, <2>2, <2>3 DEF NonceTaken, NonceCreate
<1>a. ASSUME req[c].op = "login", req[c].pc \in {"find", "insert"},
             req' = [req EXCEPT ![c].pc = "all", ![c].todo = Branch]
      PROVE  SessionInv'
  <2> DEFINE r == [req[c] EXCEPT !.pc = "all", !.todo = Branch]
  <2>1. Same(req[c], r) /\ r.pc = "all" /\ r.todo = Branch
    BY <1>f, ToAll
  <2>2. req' = [req EXCEPT ![c] = r]
    BY <1>0, <1>a
  <2> HIDE DEF r
  <2>3. Place(r) /\ r.op = "login" /\ "refresh" \in r.todo
    BY <1>a, <2>1 DEF Place, Same, Branch
  <2> QED
    BY <1>u, <1>q, <1>a, <2>1, <2>2, <2>3, PlaceStays
<1>2. CASE AccountFind(c)
  <2>0. req[c].op = "login" /\ req[c].pc = "find"
    BY <1>2, <1>p DEF AccountFind, At, Place
  <2>1. CASE req' = [req EXCEPT ![c].pc = "save", ![c].wallet = minted + 1]
    <3> DEFINE r == [req[c] EXCEPT !.pc = "save", !.wallet = minted + 1]
    <3>1. Same(req[c], r) /\ r.pc = "save"
      BY <1>0, <1>f, ToSave
    <3>2. req' = [req EXCEPT ![c] = r]
      BY <1>0, <2>1
    <3> HIDE DEF r
    <3>3. Place(r) /\ r.op = "login"
      BY <2>0, <3>1 DEF Place, Same
    <3> QED
      BY <1>u, <1>q, <2>0, <3>1, <3>2, <3>3, PlaceStays
  <2> QED
    BY <1>2, <1>a, <2>0, <2>1 DEF AccountFind
<1>3. CASE AccountSave(c)
  <2>0. req[c].op = "login" /\ req[c].pc = "save"
    BY <1>3, <1>p DEF AccountSave, At, Place
  <2> DEFINE r == [req[c] EXCEPT !.pc = "insert"]
  <2>1. Same(req[c], r) /\ r.pc = "insert" /\ req' = [req EXCEPT ![c] = r]
    BY <1>f, <1>3, ToPc DEF AccountSave, Goto
  <2> HIDE DEF r
  <2>2. Place(r) /\ r.op = "login"
    BY <2>0, <2>1 DEF Place, Same
  <2> QED
    BY <1>u, <1>q, <2>0, <2>1, <2>2, PlaceStays
<1>4. CASE AccountInsert(c)
  <2>0. req[c].op = "login" /\ req[c].pc = "insert"
    BY <1>4, <1>p DEF AccountInsert, At, Place
  <2> QED
    BY <1>4, <1>a, <2>0 DEF AccountInsert
<1>5. CASE LoginNonce(c)
  <2> DEFINE r == [req[c] EXCEPT !.todo = req[c].todo \ {"nonce"}]
  <2>1. req[c].pc = "all" /\ req[c].op # "idle" /\ req[c].todo \ {"nonce"} \in SUBSET Branch
    BY <1>f, <1>5, RequestFields DEF LoginNonce, At
  <2>2. Same(req[c], r) /\ r.pc = "all" /\ r.todo = req[c].todo \ {"nonce"}
    BY <1>f, <2>1, ToTodo
  <2>3. req' = [req EXCEPT ![c] = r]
    BY <1>0, <1>5 DEF LoginNonce
  <2> HIDE DEF r
  <2>4. Place(r)
    BY <1>p, <2>1, <2>2 DEF Place, Same
  <2>5. r.op = req[c].op /\ ("refresh" \in r.todo <=> "refresh" \in req[c].todo)
    BY <2>2 DEF Same
  <2> QED
    BY <1>u, <1>q, <2>1, <2>2, <2>3, <2>4, <2>5, PlaceStays
<1>6. CASE LoginWallet(c)
  <2> DEFINE r == Branched(req[c], req[c].todo \ {"wallet"},
                            req[c].ok /\ First(Of(c), req[c].network) # {})
  <2>1. req[c].pc = "all" /\ req[c].op # "idle" /\ req[c].todo \ {"wallet"} \in SUBSET Branch
    BY <1>f, <1>6, RequestFields DEF LoginWallet, At
  <2>2. \A ok \in BOOLEAN :
           LET q == Branched(req[c], req[c].todo \ {"wallet"}, ok)
           IN  Same(req[c], q) /\ q.pc = req[c].pc /\ q.todo = req[c].todo \ {"wallet"}
    BY <1>f, <2>1, ToOk
  <2>3. (req[c].ok /\ First(Of(c), req[c].network) # {}) \in BOOLEAN
    OBVIOUS
  <2>4. Same(req[c], r) /\ r.pc = "all" /\ r.todo = req[c].todo \ {"wallet"}
    BY <2>1, <2>2, <2>3
  <2>5. req' = [req EXCEPT ![c] = r]
    BY <1>0, <1>6 DEF LoginWallet, Branched
  <2> HIDE DEF r
  <2>6. Place(r)
    BY <1>p, <2>1, <2>4 DEF Place, Same
  <2>7. r.op = req[c].op /\ ("refresh" \in r.todo <=> "refresh" \in req[c].todo)
    BY <2>4 DEF Same
  <2> QED
    BY <1>u, <1>q, <2>1, <2>4, <2>5, <2>6, <2>7, PlaceStays
<1>7. CASE Answer(c)
  <2>1. \A u \in User : ~InWay(req[c], u)
    BY <1>7 DEF Answer, At, InWay
  <2> QED
    BY <1>u, <1>q, <1>7, <2>1, EndedStay DEF Answer
<1>8. CASE ReadWallet(c) \/ SendFlag(c) \/ SaveFlag(c)
  <2>0. /\ req[c].op # "idle" /\ req[c].pc \in {"wallet", "send", "flag"} /\ req[c].op \in Flag
        /\ \A u \in User : ~InWay(req[c], u)
    BY <1>8 DEF ReadWallet, SendFlag, SaveFlag, At, TypeInv, FlagRequests, InWay, Flag
  <2>1. CASE Ends(c)
    BY <1>u, <1>q, <2>0, <2>1, EndedStay
  <2>2. ASSUME NEW r, Same(req[c], r), r.pc \in {"send", "flag"}, req' = [req EXCEPT ![c] = r]
        PROVE  SessionInv'
    <3>1. Place(r) /\ r.op \in Flag /\ r.op # "login"
      BY <2>0, <2>2 DEF Place, Same, Flag
    <3>2. \A u \in User : ~InWay(r, u)
      BY <3>1, <2>2 DEF InWay
    <3> QED
      BY <1>u, <1>q, <2>0, <2>2, <3>1, <3>2, SessionsStay
  <2>3. CASE Goto(c, "flag")
    <3>1. /\ Same(req[c], [req[c] EXCEPT !.pc = "flag"]) /\ [req[c] EXCEPT !.pc = "flag"].pc = "flag"
          /\ req' = [req EXCEPT ![c] = [req[c] EXCEPT !.pc = "flag"]]
      BY <1>f, <2>3, ToPc DEF Goto
    <3> QED
      BY <2>2, <3>1
  <2>4. ASSUME NEW i \in First(Of(c), req[c].network),
               req' = [req EXCEPT ![c].pc = "send", ![c].wallet = i,
                                  ![c].other = wallets[i][OtherFlag(req[c].op)]]
        PROVE  SessionInv'
    <3>1. i \in DOMAIN wallets /\ i \in Nat /\ wallets[i] \in Wallet
      BY <1>0 DEF First, WalletsOf
    <3>2. OtherFlag(req[c].op) \in Flag
      BY <2>0 DEF OtherFlag, Flag
    <3>3. wallets[i][OtherFlag(req[c].op)] \in BOOLEAN
      BY <3>1, <3>2 DEF Wallet, Flag
    <3>4. LET q == Found(req[c], i, wallets[i][OtherFlag(req[c].op)])
          IN  Same(req[c], q) /\ q.pc = "send"
      BY <1>f, <3>1, <3>3, ToSend
    <3>5. req' = [req EXCEPT ![c] = Found(req[c], i, wallets[i][OtherFlag(req[c].op)])]
      BY <1>0, <2>4 DEF Found
    <3> QED
      BY <2>2, <3>4, <3>5
  <2> QED
    BY <1>8, <2>1, <2>3, <2>4 DEF ReadWallet, SendFlag, SaveFlag
<1> QED
  BY <1>1, <1>2, <1>3, <1>4, <1>5, <1>6, <1>7, <1>8

\* A token is stored: the request no longer stands for the session, the token does.
LEMMA SessionToken ==
    ASSUME TypeInv, TypeInv', SessionInv, NEW c \in Client, NEW type \in {"access", "refresh"},
           GenerateToken(c, type)
    PROVE  SessionInv'
<1> DEFINE r == [req[c] EXCEPT !.todo = req[c].todo \ {type}]
           t == [user |-> Of(c), type |-> type, second |-> clock]
           v == IF type = "access" THEN 1 ELSE tokens[t] + 1
<1>0. /\ req \in [Client -> Request] /\ req[c] \in Request /\ tokens \in [Token -> Nat]
      /\ clock \in 0..MaxClock
  BY DEF TypeInv, TypeOK
<1>1. /\ req[c].pc = "all" /\ req[c].op # "idle" /\ type \in req[c].todo
      /\ req[c].todo \ {type} \in SUBSET Branch
  BY <1>0, RequestFields DEF GenerateToken, At
<1>2. Same(req[c], r) /\ r.pc = "all" /\ r.todo = req[c].todo \ {type}
  BY <1>0, <1>1, ToTodo
<1>3. req' = [req EXCEPT ![c] = r]
  BY <1>0 DEF GenerateToken
<1>4. t \in Token /\ t.user = req[c].user /\ t.type = type /\ tokens' = [tokens EXCEPT ![t] = v]
  <2>1. req[c].user \in User
    BY <1>0, RequestFields
  <2> QED
    BY <1>0, <2>1 DEF GenerateToken, Token, Of
<1>5. tokens[t] \in Nat /\ v \in Int /\ (type = "refresh" => v - tokens[t] = 1)
  BY <1>0, <1>4
<1>6. UNCHANGED <<logins, logouts, faults, crashes>>
  BY DEF GenerateToken, history, bounded
<1> HIDE DEF r, t, v
<1>7. Place(r) /\ r.op = req[c].op /\ r.user = req[c].user
  BY <1>1, <1>2 DEF SessionInv, Places, Place, Same
<1>8. ASSUME NEW u \in User PROVE \E stored, out, in \in Int : Balanced(c, r, u, stored, out, in)
  <2> DEFINE stored == IF t.user = u /\ t.type = "refresh" THEN v - tokens[t] ELSE 0
  <2>1. stored \in Int /\ Stored(u)' = Stored(u) + stored
    <3>1. Stored(u)' = Stored(u) + stored
      BY <1>4, StoredMoves
    <3>2. stored \in Int
      BY <1>5
    <3> QED
      BY <3>1, <3>2
  <2>2. logouts[u] \in Nat /\ logins[u] \in Nat
    BY Counts
  <2>3. stored = (IF InWay(req[c], u) THEN 1 ELSE 0) - (IF InWay(r, u) THEN 1 ELSE 0)
    <3>1. InWay(req[c], u) <=> req[c].user = u /\ "refresh" \in req[c].todo
      BY <1>1 DEF InWay
    <3>2. InWay(r, u) <=> req[c].user = u /\ "refresh" \in req[c].todo \ {type}
      BY <1>1, <1>2, <1>7 DEF InWay
    <3>3. CASE type = "refresh"
      BY <1>1, <1>4, <1>5, <3>1, <3>2, <3>3
    <3>4. CASE type # "refresh"
      BY <1>4, <3>1, <3>2, <3>4
    <3> QED
      BY <3>3, <3>4
  <2> HIDE DEF stored
  <2>4. Balanced(c, r, u, stored, 0, 0)
    BY <1>6, <2>1, <2>2, <2>3 DEF Balanced, Quiet
  <2> QED
    BY <2>1, <2>4
<1> QED
  BY <1>3, <1>7, <1>8, SessionsMove

\* A request that begins: a login counts as one session and stands for it; a refresh takes the
\* token it stands for out of the collection.
LEMMA SessionStart ==
    ASSUME TypeInv, TypeInv', SessionInv, NEW c \in Client,
           \/ \E u \in User : \/ GetNonce(c, u)
                              \/ \E n \in Network :
                                    \/ LogIn(c, u, n)
                                    \/ \E op \in Flag, on \in BOOLEAN : RegisterOrApprove(c, op, u, n, on)
           \/ \E t \in Token : Refresh(c, t)
    PROVE  SessionInv'
<1>0. req \in [Client -> Request] /\ tokens \in [Token -> Nat] /\ users \in [User -> UserDoc]
  BY DEF TypeInv, TypeOK
<1>i. ASSUME NEW r, Starts(c, r)
      PROVE  req' = [req EXCEPT ![c] = r] /\ \A u : ~InWay(req[c], u)
  BY <1>i, NoReqPlace DEF Starts
<1>s. ASSUME NEW r, Starts(c, r), Place(r), \A u \in User : ~InWay(r, u),
             UNCHANGED <<tokens, logins, logouts, faults, crashes>>
      PROVE  SessionInv'
  BY <1>i, <1>s, SessionsStay DEF Quiet
<1>1. ASSUME NEW u \in User, GetNonce(c, u) PROVE SessionInv'
  <2> DEFINE r == [NoReq EXCEPT !.op = "nonce", !.user = u, !.pc = "taken"]
  <2>1. r.op = "nonce" /\ r.pc = "taken"
    BY NewNonce
  <2>2. Starts(c, r) /\ UNCHANGED <<tokens, logins, logouts, faults, crashes>>
    BY <1>1 DEF GetNonce, history, bounded
  <2> HIDE DEF r
  <2> QED
    BY <2>1, <2>2, <1>s DEF Place, InWay
<1>2. ASSUME NEW u \in User, NEW n \in Network, NEW op \in Flag, NEW on \in BOOLEAN,
             RegisterOrApprove(c, op, u, n, on)
      PROVE  SessionInv'
  <2>1. Asks(op, u, n, on).op = op /\ Asks(op, u, n, on).pc = "wallet"
    BY NewFlag
  <2>2. Starts(c, Asks(op, u, n, on)) /\ UNCHANGED <<tokens, logins, logouts, faults, crashes>>
    BY <1>2 DEF RegisterOrApprove, Asks, history, bounded
  <2>3. op # "login"
    BY DEF Flag
  <2> QED
    BY <2>1, <2>2, <2>3, <1>s DEF Place, InWay
<1>3. ASSUME NEW u \in User, NEW n \in Network, LogIn(c, u, n) PROVE SessionInv'
  <2> DEFINE r == Login(u, n, users[u].nonce)
  <2>1. users[u].nonce \in Nat
    BY <1>0 DEF UserDoc
  <2>2. r.op = "login" /\ r.user = u /\ r.pc = "find"
    BY <2>1, NewLogin
  <2>3. /\ Starts(c, r) /\ UNCHANGED <<tokens, logouts, faults, crashes>>
        /\ logins' = [logins EXCEPT ![u] = logins[u] + 1]
    BY <1>3 DEF LogIn, Login, bounded
  <2> HIDE DEF r
  <2>4. ASSUME NEW w \in User PROVE Balanced(c, r, w, 0, 0, IF w = u THEN 1 ELSE 0)
    <3>1. Stored(w) \in Nat /\ Stored(w)' = Stored(w)
      BY <2>3, Counts, StoredStays
    <3>2. logouts'[w] = logouts[w] /\ logouts[w] \in Nat /\ logins[w] \in Nat
      BY <2>3, Counts
    <3>3. logins'[w] = logins[w] + IF w = u THEN 1 ELSE 0
      BY <2>3, <3>2 DEF TypeInv, TypeOK
    <3>4. ~InWay(req[c], w) /\ (InWay(r, w) <=> w = u)
      BY <1>i, <2>2, <2>3 DEF InWay
    <3> QED
      BY <2>3, <3>1, <3>2, <3>3, <3>4 DEF Balanced, Quiet
  <2>5. \A w \in User : \E stored, out, in \in Int : Balanced(c, r, w, stored, out, in)
    BY <2>4
  <2>6. Place(r)
    BY <2>2 DEF Place
  <2> QED
    BY <1>i, <2>3, <2>5, <2>6, SessionsMove
<1>4. ASSUME NEW t \in Token, Refresh(c, t) PROVE SessionInv'
  <2> DEFINE r == [NoReq EXCEPT !.op = "refresh", !.user = t.user, !.pc = "all",
                                !.todo = {"access", "refresh"}]
             v == tokens[t] - 1
  <2>0. t.user \in User
    BY DEF Token
  <2>1. r.op = "refresh" /\ r.user = t.user /\ r.pc = "all"
    BY <2>0, NewRefresh
  <2>2. "refresh" \in r.todo
    BY DEF NoReq
  <2>3. /\ Starts(c, r) /\ UNCHANGED <<logins, logouts, faults, crashes>> /\ t.type = "refresh"
        /\ tokens' = [tokens EXCEPT ![t] = v]
    BY <1>4 DEF Refresh, FoundAndRemoved, history, bounded
  <2>4. tokens[t] \in Nat /\ v - tokens[t] = -1
    BY <1>0
  <2> HIDE DEF r, v
  <2>5. ASSUME NEW w \in User PROVE Balanced(c, r, w, IF t.user = w THEN -1 ELSE 0, 0, 0)
    <3>1. Stored(w) \in Nat /\ Stored(w)' = Stored(w) + IF t.user = w THEN -1 ELSE 0
      BY <2>3, <2>4, Counts, StoredMoves
    <3>2. logouts[w] \in Nat /\ logins[w] \in Nat /\ UNCHANGED <<logins, logouts>>
      BY <2>3, Counts
    <3>3. ~InWay(req[c], w) /\ (InWay(r, w) <=> t.user = w)
      BY <1>i, <2>1, <2>2, <2>3 DEF InWay
    <3> QED
      BY <2>3, <3>1, <3>2, <3>3 DEF Balanced, Quiet
  <2>6. \A w \in User : \E stored, out, in \in Int : Balanced(c, r, w, stored, out, in)
    BY <2>5
  <2>7. Place(r)
    BY <2>1 DEF Place
  <2> QED
    BY <1>i, <2>3, <2>6, <2>7, SessionsMove
<1> QED
  BY <1>1, <1>2, <1>3, <1>4

\* A logout takes the token and is counted.
LEMMA SessionLogOut ==
    ASSUME TypeInv, TypeInv', SessionInv, NEW t \in Token, LogOut(t)
    PROVE  SessionInv'
<1>0. tokens \in [Token -> Nat] /\ logouts \in [User -> Nat] /\ t.user \in User /\ tokens[t] \in Nat
  BY DEF TypeInv, TypeOK, Token
<1>1. /\ t.type = "refresh" /\ tokens' = [tokens EXCEPT ![t] = tokens[t] - 1]
      /\ logouts' = [logouts EXCEPT ![t.user] = logouts[t.user] + 1]
      /\ UNCHANGED <<req, logins, faults, crashes>>
  BY DEF LogOut, FoundAndRemoved, bounded
<1>2. Places' /\ \A u \in User : UnderWay(u)' = UnderWay(u)
  BY <1>1 DEF SessionInv, Places, UnderWay, Of, At
<1>3. ASSUME NEW u \in User PROVE Sessions(u)' = Sessions(u)
  <2>1. Stored(u)' = Stored(u) + IF t.user = u THEN (tokens[t] - 1) - tokens[t] ELSE 0
    BY <1>1, StoredMoves
  <2>2. logouts'[u] = logouts[u] + IF t.user = u THEN 1 ELSE 0
    BY <1>0, <1>1
  <2>3. Stored(u) \in Nat /\ Cardinality(UnderWay(u)) \in Nat /\ logouts[u] \in Nat
    BY Counts
  <2>4. Cardinality(UnderWay(u)') = Cardinality(UnderWay(u))
    BY <1>2
  <2>5. Sessions(u)' = Stored(u)' + Cardinality(UnderWay(u)') + logouts'[u]
    BY DEF Sessions
  <2> QED
    BY <1>0, <2>1, <2>2, <2>3, <2>4, <2>5 DEF Sessions
<1>4. ASSUME NEW u \in User
      PROVE  IsFiniteSet(UnderWay(u)') /\ Sessions(u)' <= logins'[u] /\ (Quiet' => Sessions(u)' = logins'[u])
  BY <1>1, <1>2, <1>3, Counts DEF SessionInv, Quiet
<1> QED
  BY <1>2, <1>4 DEF SessionInv, SessionsCounted, Sessions, Quiet

\* What ends without its token is a session less than logins, and a failure or a crash.
LEMMA SessionFails ==
    ASSUME TypeInv, TypeInv', SessionInv, Crash \/ \E c \in Client : RequestFails(c)
    PROVE  SessionInv'
<1>0. /\ req \in [Client -> Request] /\ faults \in Nat /\ crashes \in Nat
      /\ UNCHANGED <<tokens, logins, logouts>>
  <2>1. req \in [Client -> Request] /\ faults \in Nat /\ crashes \in Nat
    BY AccountsAssumption DEF TypeInv, TypeOK
  <2>2. UNCHANGED <<tokens, logins, logouts>>
    BY DEF Crash, RequestFails, history
  <2> QED
    BY <2>1, <2>2
<1>1. ASSUME NEW c \in Client, RequestFails(c) PROVE SessionInv'
  <2>0. req[c] \in Request /\ ~Quiet'
    BY <1>0, <1>1 DEF RequestFails, Fault, Quiet
  <2>1. CASE Ends(c)
    BY <1>0, <2>0, <2>1, EndedStay
  <2>2. CASE \E b \in {"nonce", "wallet", "refresh"} \cap req[c].todo :
               /\ At(c, "all")
               /\ req' = [req EXCEPT ![c].ok = FALSE,
                          ![c].todo = @ \ IF b = "refresh" THEN {"access", "refresh"} ELSE {b}]
    <3>1. PICK b : /\ At(c, "all")
                   /\ req' = [req EXCEPT ![c].ok = FALSE,
                             ![c].todo = @ \ IF b = "refresh" THEN {"access", "refresh"} ELSE {b}]
      BY <2>2
    <3> DEFINE todo == req[c].todo \ IF b = "refresh" THEN {"access", "refresh"} ELSE {b}
               r == Branched(req[c], todo, FALSE)
    <3>2. req[c] \in Request /\ todo \in SUBSET Branch /\ req[c].pc = "all" /\ req[c].op # "idle"
      BY <2>0, <3>1, RequestFields DEF At
    <3>3. req' = [req EXCEPT ![c] = r]
      BY <1>0, <3>1, <3>2 DEF Branched, Request
    <3>4. Same(req[c], r) /\ r.pc = "all" /\ r.todo = todo
      BY <3>2, ToOk
    <3>5. todo \subseteq req[c].todo
      OBVIOUS
    <3> HIDE DEF r, todo
    <3>6. Place(r)
      BY <3>2, <3>4 DEF SessionInv, Places, Place, Same
    <3>7. \A u \in User : InWay(r, u) => InWay(req[c], u)
      BY <3>2, <3>4, <3>5 DEF InWay, Same
    <3> QED
      BY <1>0, <2>0, <3>3, <3>6, <3>7, SessionsStay
  <2> QED
    BY <1>1, <2>1, <2>2 DEF RequestFails
<1>2. CASE Crash
  <2>1. ~Quiet' /\ \A c \in Client : req'[c] = NoReq
    BY <1>0, <1>2 DEF Crash, Quiet
  <2>2. Places'
    BY <2>1, NoReqPlace DEF Places, Place
  <2>3. \A u \in User : UnderWay(u)' = {}
    BY <2>1, NoReqTyped DEF UnderWay, Of, At
  <2>4. ASSUME NEW u \in User PROVE IsFiniteSet(UnderWay(u)') /\ Sessions(u)' <= logins'[u]
    <3>1. /\ Stored(u) \in Nat /\ Cardinality(UnderWay(u)) \in Nat /\ logouts[u] \in Nat
          /\ logins[u] \in Nat
          /\ Stored(u) + Cardinality(UnderWay(u)) + logouts[u] <= logins[u]
      BY Counts
    <3>2. Stored(u)' = Stored(u)
      BY <1>0, StoredStays
    <3>3. IsFiniteSet(UnderWay(u)') /\ Cardinality(UnderWay(u)') = 0
      BY <2>3, FS_EmptySet
    <3>4. Sessions(u)' = Stored(u)' + Cardinality(UnderWay(u)') + logouts'[u]
      BY DEF Sessions
    <3> QED
      BY <1>0, <3>1, <3>2, <3>3, <3>4
  <2> QED
    BY <2>1, <2>2, <2>4 DEF SessionInv, SessionsCounted, Sessions, Quiet
<1> QED
  BY <1>1, <1>2

LEMMA SessionStep == TypeInv /\ TypeInv' /\ SessionInv /\ [Next]_vars => SessionInv'
<1> SUFFICES ASSUME TypeInv, TypeInv', SessionInv, [Next]_vars PROVE SessionInv'
  OBVIOUS
<1>1. CASE Tick \/ UNCHANGED vars
  BY <1>1, SessionsSame DEF Tick, vars, history, bounded
<1> QED
  BY <1>1, SessionLogin, SessionToken, SessionStart, SessionLogOut, SessionFails
     DEF Next, RequestStep

\* Sessions are neither made nor lost by refreshing: however logins, refreshes and logouts of
\* a user interleave, each login stands for one refresh token that is stored, about to be, or
\* was removed by a logout; a failure or a crash only loses some.
THEOREM SessionsCountedHolds == Spec => []SessionsCounted
<1>1. Init => SessionInv
  <2> SUFFICES ASSUME Init PROVE SessionInv
    OBVIOUS
  <2>1. \A c \in Client : req[c] = NoReq
    BY DEF Init
  <2>2. Places
    BY <2>1, NoReqPlace DEF Places, Place
  <2>3. ASSUME NEW u \in User
        PROVE  IsFiniteSet(UnderWay(u)) /\ Cardinality(UnderWay(u)) = 0 /\ Stored(u) = 0
               /\ logouts[u] = 0 /\ logins[u] = 0
    <3>1. UnderWay(u) = {}
      BY <2>1, NoReqTyped DEF UnderWay, Of, At
    <3>2. \A t \in Refreshes(u) : tokens[t] = 0
      BY RefreshesFinite DEF Init
    <3>3. Stored(u) = 0
      BY <3>2, RefreshesFinite, SumZeros, StoredIs
    <3> QED
      BY <3>1, <3>3, FS_EmptySet DEF Init
  <2> QED
    BY <2>2, <2>3 DEF SessionInv, SessionsCounted
<1>2. SessionInv => SessionsCounted
  BY DEF SessionInv
<1> QED
  BY <1>1, <1>2, SessionStep, TypeInvHolds, PTL DEF Spec
=============================================================================
