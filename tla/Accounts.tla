------------------------------ MODULE Accounts ------------------------------
(***************************************************************************)
(* Users, their wallets and their tokens: AuthService (getNonce, logIn,    *)
(* register, approve, refreshToken, logOut) with what it calls in          *)
(* UsersService and TokensService.                                         *)
(*                                                                         *)
(* Several requests run at once, a user's own included; an action is the   *)
(* code between two awaits.  A nonce (a uuid) is abstracted to a number    *)
(* that is new each time, a wallet to the number of its key.  A token is   *)
(* the string signed for a user, a type and a second: two tokens of one    *)
(* second are equal, and stored twice.  A request that is refused at its   *)
(* first read changes nothing and is no action.                            *)
(***************************************************************************)
EXTENDS Integers, Sequences, FiniteSets, Functions

CONSTANTS
    User,        \* the addresses
    Network,     \* the networks users log in to
    Client,      \* the requests that may be under way at once
    Ops,         \* the requests that are sent
    Overlaps,    \* the requests of which one user may send two at once
    AccessLife,  \* seconds an access token lives
    MaxClock,    \* bound on the clock
    MaxLogins,   \* bound on the logins of a user
    MaxFaults    \* bound on the failures and the crashes of the process together

AllOps == {"nonce", "login", "refresh", "logout", "register", "approve"}

ASSUME AccountsAssumption ==
    /\ User # {} /\ Network # {}
    /\ Ops \subseteq AllOps
    /\ Overlaps \subseteq AllOps
    /\ AccessLife \in Nat \ {0}
    /\ MaxClock \in Nat /\ MaxLogins \in Nat
    /\ MaxFaults \in Nat

VARIABLES
    users,     \* the users collection
    wallets,   \* the wallets collection, in the order of insertion
    tokens,    \* the tokens collection: how often a token is stored (1: an access token is
               \* never removed, so its copies are not counted)
    contract,  \* what the contracts hold of a user: registered, approved
    req,       \* the requests under way
    clock,     \* seconds
    minted,    \* keys generated so far
    logins,    \* logins of a user whose signature was accepted
    logouts,   \* logouts of a user that removed a token
    answered,  \* nonces of a user whose login was answered
    faults,    \* failures so far
    crashes    \* crashes so far

history == <<logins, logouts, answered>>
bounded == <<faults, crashes>>
vars == <<users, wallets, tokens, contract, req, clock, minted, history, bounded>>

Flag    == {"register", "approve"}
Token   == [user: User, type: {"access", "refresh"}, second: 0..MaxClock]
Wallet  == [user: User, network: Network, key: Nat, register: BOOLEAN, approve: BOOLEAN]
UserDoc == [exists: BOOLEAN, oneCT: Nat, nonce: Nat]
Branch  == {"nonce", "wallet", "access", "refresh"}
\* wallet: the key a login generated, or the document register or approve read; on: what
\* they ask for; other: the other flag they read; todo: the branches of Promise.all.
Request == [op: AllOps \cup {"idle"}, user: User, network: Network,
            pc: {"taken", "create", "find", "save", "insert", "all", "wallet", "send", "flag"},
            nonce: Nat, wallet: Nat, on: BOOLEAN, other: BOOLEAN,
            todo: SUBSET Branch, ok: BOOLEAN]

NoUser == [exists |-> FALSE, oneCT |-> 0, nonce |-> 0]   \* key 0: no mnemonic, no oneCT
NoReq  == [op |-> "idle", user |-> CHOOSE u \in User : TRUE,
           network |-> CHOOSE n \in Network : TRUE, pc |-> "find", nonce |-> 0, wallet |-> 0,
           on |-> FALSE, other |-> FALSE, todo |-> {}, ok |-> TRUE]

Of(c) == req[c].user
At(c, pc) == req[c].op # "idle" /\ req[c].pc = pc
Goto(c, pc) == req' = [req EXCEPT ![c].pc = pc]
Ends(c) == req' = [req EXCEPT ![c] = NoReq]

\* The request r begins.
Starts(c, r) ==
    /\ r.op \in Ops
    /\ req[c] = NoReq
    /\ r.op \notin Overlaps => \A d \in Client : req[d].op = r.op => Of(d) # r.user
    /\ req' = [req EXCEPT ![c] = r]

\* findWalletByNetworkAndId: the first wallet of a user on a network, if there is one.
WalletsOf(u, n) == {i \in DOMAIN wallets : wallets[i].user = u /\ wallets[i].network = n}
First(u, n) == {i \in WalletsOf(u, n) : \A j \in WalletsOf(u, n) : i <= j}

Fault == faults + crashes < MaxFaults /\ faults' = faults + 1 /\ UNCHANGED crashes

Init ==
    /\ users = [u \in User |-> NoUser]
    /\ wallets = <<>>
    /\ tokens = [t \in Token |-> 0]
    /\ contract = [u \in User |-> [n \in Network |-> [f \in Flag |-> FALSE]]]
    /\ req = [c \in Client |-> NoReq]
    /\ clock = 0
    /\ minted = 0
    /\ logins = [u \in User |-> 0]
    /\ logouts = [u \in User |-> 0]
    /\ answered = [u \in User |-> {}]
    /\ faults = 0
    /\ crashes = 0

-----------------------------------------------------------------------------
(* getNonce: findOrCreateUserByAddress *)

GetNonce(c, u) ==
    /\ ~users[u].exists
    /\ Starts(c, [NoReq EXCEPT !.op = "nonce", !.user = u, !.pc = "taken"])
    /\ UNCHANGED <<users, wallets, tokens, contract, clock, minted, history, bounded>>

\* create asks again whether the address is taken, ...
NonceTaken(c) ==
    /\ At(c, "taken")
    /\ IF users[Of(c)].exists THEN Ends(c) ELSE Goto(c, "create")
    /\ UNCHANGED <<users, wallets, tokens, contract, clock, minted, history, bounded>>

\* ... and the unique index refuses a second document.
NonceCreate(c) ==
    /\ At(c, "create")
    /\ users' = [users EXCEPT ![Of(c)].exists = TRUE]
    /\ Ends(c)
    /\ UNCHANGED <<wallets, tokens, contract, clock, minted, history, bounded>>

-----------------------------------------------------------------------------
(* logIn *)

\* The user is read, and the signature is of the nonce that was read.
LogIn(c, u, n) ==
    /\ users[u].exists
    /\ logins[u] < MaxLogins
    /\ Starts(c, [NoReq EXCEPT !.op = "login", !.user = u, !.network = n, !.pc = "find",
                               !.nonce = users[u].nonce])
    /\ logins' = [logins EXCEPT ![u] = @ + 1]
    /\ UNCHANGED <<users, wallets, tokens, contract, clock, minted, logouts, answered, bounded>>

\* createOrUpdateAccount: a user without mnemonic gets a new wallet, ...
AccountFind(c) ==
    /\ At(c, "find")
    /\ IF users[Of(c)].oneCT # 0
       THEN /\ req' = [req EXCEPT ![c].pc = "all", ![c].todo = Branch]
            /\ UNCHANGED minted
       ELSE /\ req' = [req EXCEPT ![c].pc = "save", ![c].wallet = minted + 1]
            /\ minted' = minted + 1
    /\ UNCHANGED <<users, wallets, tokens, contract, clock, history, bounded>>

\* ... user.save() writes the changed paths whatever another login has written, ...
AccountSave(c) ==
    /\ At(c, "save")
    /\ users' = [users EXCEPT ![Of(c)].oneCT = req[c].wallet]
    /\ Goto(c, "insert")
    /\ UNCHANGED <<wallets, tokens, contract, clock, minted, history, bounded>>

\* ... and the wallet follows.
NewWallet(c) == [user |-> Of(c), network |-> req[c].network, key |-> req[c].wallet,
                 register |-> FALSE, approve |-> FALSE]
InsertedOnce(c) ==
    IF First(Of(c), req[c].network) # {} THEN wallets ELSE Append(wallets, NewWallet(c))
Inserted(c) == Append(wallets, NewWallet(c))
AccountInsert(c) ==
    /\ At(c, "insert")
    /\ wallets' = Inserted(c)
    /\ req' = [req EXCEPT ![c].pc = "all", ![c].todo = Branch]
    /\ UNCHANGED <<users, tokens, contract, clock, minted, history, bounded>>

\* Promise.all: the new nonce, the wallet, and the two tokens one after the other.
KeptNonce(c) == users[Of(c)].nonce
FreshNonce(c) == users[Of(c)].nonce + 1
LoginNonce(c) ==
    /\ At(c, "all") /\ "nonce" \in req[c].todo
    /\ users' = [users EXCEPT ![Of(c)].nonce = FreshNonce(c)]
    /\ req' = [req EXCEPT ![c].todo = @ \ {"nonce"}]
    /\ UNCHANGED <<wallets, tokens, contract, clock, minted, history, bounded>>

\* Without a wallet on this network the login fails, but the other branches go on.
LoginWallet(c) ==
    /\ At(c, "all") /\ "wallet" \in req[c].todo
    /\ req' = [req EXCEPT ![c].todo = @ \ {"wallet"},
                          ![c].ok = @ /\ First(Of(c), req[c].network) # {}]
    /\ UNCHANGED <<users, wallets, tokens, contract, clock, minted, history, bounded>>

\* generateAuthTokens, of a login or a refresh: a token is signed and saved.
GenerateToken(c, type) ==
    /\ At(c, "all") /\ type \in req[c].todo
    /\ type = "refresh" => "access" \notin req[c].todo
    /\ tokens' = [tokens EXCEPT ![[user |-> Of(c), type |-> type, second |-> clock]] =
                   IF type = "access" THEN 1 ELSE @ + 1]
    /\ req' = [req EXCEPT ![c].todo = @ \ {type}]
    /\ UNCHANGED <<users, wallets, contract, clock, minted, history, bounded>>

Answer(c) ==
    /\ At(c, "all") /\ req[c].todo = {}
    /\ answered' = IF req[c].op = "login" /\ req[c].ok
                   THEN [answered EXCEPT ![Of(c)] = @ \cup {req[c].nonce}] ELSE answered
    /\ Ends(c)
    /\ UNCHANGED <<users, wallets, tokens, contract, clock, minted, logins, logouts, bounded>>

-----------------------------------------------------------------------------
(* refreshToken, logOut *)

\* findAndRemoveRefreshToken: one of the documents with the string is found and removed
\* at once.
RemovedUnfound(t) == tokens' = [tokens EXCEPT ![t] = @ - 1]
FoundOnly(t) == tokens[t] > 0 /\ UNCHANGED tokens
FoundAndRemoved(t) == tokens[t] > 0 /\ tokens' = [tokens EXCEPT ![t] = @ - 1]

Refresh(c, t) ==
    /\ t.type = "refresh"
    /\ FoundAndRemoved(t)
    /\ Starts(c, [NoReq EXCEPT !.op = "refresh", !.user = t.user, !.pc = "all",
                               !.todo = {"access", "refresh"}])
    /\ UNCHANGED <<users, wallets, contract, clock, minted, history, bounded>>

LogOut(t) ==
    /\ "logout" \in Ops
    /\ t.type = "refresh"
    /\ FoundAndRemoved(t)
    /\ logouts' = [logouts EXCEPT ![t.user] = @ + 1]
    /\ UNCHANGED <<users, wallets, contract, req, clock, minted, logins, answered, bounded>>

-----------------------------------------------------------------------------
(* register, approve: op is also the flag of the wallet it is about *)

\* JwtStrategy.validate: an access token that is stored and did not expire.
Authorized(u) ==
    \E t \in Token : /\ t.user = u /\ t.type = "access"
                     /\ tokens[t] > 0 /\ clock < t.second + AccessLife

RegisterOrApprove(c, op, u, n, on) ==
    /\ Authorized(u)
    /\ Starts(c, [NoReq EXCEPT !.op = op, !.user = u, !.network = n, !.pc = "wallet", !.on = on])
    /\ UNCHANGED <<users, wallets, tokens, contract, clock, minted, history, bounded>>

\* The wallet is read; one that has the flag already, or has no wallet, is refused.
OtherFlag(op) == CHOOSE f \in Flag : f # op
ReadWallet(c) ==
    LET first == First(Of(c), req[c].network)
    IN  /\ At(c, "wallet")
        /\ IF \E i \in first : wallets[i][req[c].op] # req[c].on
           THEN \E i \in first :
                   req' = [req EXCEPT ![c].pc = "send", ![c].wallet = i,
                                      ![c].other = wallets[i][OtherFlag(req[c].op)]]
           ELSE Ends(c)
        /\ UNCHANGED <<users, wallets, tokens, contract, clock, minted, history, bounded>>

\* The contract call: refused when the gas is estimated, or sent.  What was sent is executed.
SendFlag(c) ==
    /\ At(c, "send")
    /\ \/ /\ contract' = [contract EXCEPT ![Of(c)][req[c].network][req[c].op] = req[c].on]
          /\ Goto(c, "flag") /\ UNCHANGED bounded
       \/ /\ contract' = [contract EXCEPT ![Of(c)][req[c].network][req[c].op] = req[c].on]
          /\ Ends(c) /\ Fault
       \/ Ends(c) /\ UNCHANGED <<contract, bounded>>
    /\ UNCHANGED <<users, wallets, tokens, clock, minted, history>>

\* wallet.save() writes the paths that changed since the wallet was read.
SavedWhole(w, r) == [w EXCEPT ![r.op] = r.on, ![OtherFlag(r.op)] = r.other]
Saved(w, r) == [w EXCEPT ![r.op] = r.on]
SaveFlag(c) ==
    /\ At(c, "flag")
    /\ wallets' = [wallets EXCEPT ![req[c].wallet] = Saved(@, req[c])]
    /\ Ends(c)
    /\ UNCHANGED <<users, tokens, contract, clock, minted, history, bounded>>

-----------------------------------------------------------------------------
\* An await of a request fails: the request ends, except that Promise.all leaves its other
\* branches running (the tokens are one branch).
RequestFails(c) ==
    /\ req[c].op # "idle"
    /\ \/ ~At(c, "all") /\ Ends(c)
       \/ At(c, "all") /\ \E b \in {"nonce", "wallet", "refresh"} \cap req[c].todo :
             req' = [req EXCEPT ![c].ok = FALSE,
                        ![c].todo = @ \ IF b = "refresh" THEN {"access", "refresh"} ELSE {b}]
    /\ Fault
    /\ UNCHANGED <<users, wallets, tokens, contract, clock, minted, history>>

Tick ==
    /\ clock < MaxClock
    /\ clock' = clock + 1
    /\ UNCHANGED <<users, wallets, tokens, contract, req, minted, history, bounded>>

Crash ==
    /\ faults + crashes < MaxFaults
    /\ crashes' = crashes + 1
    /\ req' = [c \in Client |-> NoReq]
    /\ UNCHANGED <<users, wallets, tokens, contract, clock, minted, history, faults>>

RequestStep(c) ==
    \/ NonceTaken(c) \/ NonceCreate(c)
    \/ AccountFind(c) \/ AccountSave(c) \/ AccountInsert(c)
    \/ LoginNonce(c) \/ LoginWallet(c) \/ Answer(c)
    \/ \E type \in {"access", "refresh"} : GenerateToken(c, type)
    \/ ReadWallet(c) \/ SendFlag(c) \/ SaveFlag(c)

Next ==
    \/ \E c \in Client :
          \/ RequestStep(c) \/ RequestFails(c)
          \/ \E u \in User :
                \/ GetNonce(c, u)
                \/ \E n \in Network :
                      \/ LogIn(c, u, n)
                      \/ \E op \in Flag, on \in BOOLEAN : RegisterOrApprove(c, op, u, n, on)
          \/ \E t \in Token : Refresh(c, t)
    \/ \E t \in Token : LogOut(t)
    \/ Tick \/ Crash

Spec == Init /\ [][Next]_vars

-----------------------------------------------------------------------------
TypeOK ==
    /\ users \in [User -> UserDoc]
    /\ wallets \in Seq(Wallet)
    /\ tokens \in [Token -> Nat]
    /\ contract \in [User -> [Network -> [Flag -> BOOLEAN]]]
    /\ req \in [Client -> Request]
    /\ clock \in 0..MaxClock
    /\ minted \in Nat
    /\ logins \in [User -> 0..MaxLogins]
    /\ logouts \in [User -> Nat]
    /\ answered \in [User -> SUBSET Nat]
    /\ faults \in 0..MaxFaults
    /\ crashes \in 0..MaxFaults

\* The oneCT of a user, which register gives to the contract, is the address of one of the
\* user's wallets, or of the one a login is about to insert, although two first logins at
\* once each make a wallet and overwrite the oneCT of the other.  A failure or a crash
\* between the two writes leaves a user without it for ever.
OneCTHasWallet ==
    faults = 0 /\ crashes = 0 =>
       \A u \in User : users[u].oneCT # 0 =>
          \/ \E i \in DOMAIN wallets : wallets[i].user = u /\ wallets[i].key = users[u].oneCT
          \/ \E c \in Client : At(c, "insert") /\ Of(c) = u /\ req[c].wallet = users[u].oneCT

\* A nonce whose login was answered never comes back, whatever logins of the same user
\* write theirs later: updateNonce prevents the use of a signature another time.
NonceNotReused == \A u \in User : users[u].nonce \notin answered[u]

\* Sessions are neither made nor lost by refreshing: each login stands for one refresh token
\* that is stored, or about to be, or was removed by a logout.  Equal tokens of one second
\* are two documents, of which a refresh takes one.
Stored(u) == FoldFunctionOnSet(+, 0, tokens, {t \in Token : t.user = u /\ t.type = "refresh"})
UnderWay(u) == {c \in Client : /\ Of(c) = u
                               /\ \/ req[c].op = "login" /\ req[c].pc # "all"
                                  \/ At(c, "all") /\ "refresh" \in req[c].todo}
SessionsCounted ==
    \A u \in User :
       LET sessions == Stored(u) + Cardinality(UnderWay(u)) + logouts[u]
       IN  /\ sessions <= logins[u]
           /\ faults = 0 /\ crashes = 0 => sessions = logins[u]

\* isRegistered and isApproved say what the contracts hold, although both requests load and
\* save the same document, as long as a user sends one register and one approve at a time.
FlagsFollowContract ==
    faults = 0 /\ crashes = 0 =>
       \A f \in Flag \ Overlaps, u \in User, n \in Network :
          \/ \E c \in Client : req[c].op = f /\ Of(c) = u
          \/ \A i \in First(u, n) : wallets[i][f] = contract[u][n][f]
=============================================================================
