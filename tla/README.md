# ETHORA_BE: a TLA+ verification project

ETHORA_BE is the back end of a binary-options exchange. Users create trades over
HTTP; jobs of one Node process sign and submit them to a router contract, close
them when they expire, and read the chain's events back into MongoDB. This
directory models the parts of it whose correctness depends on order: requests,
cron jobs, writes nobody awaits, answers that get lost, restarts and events that
are read twice.

`src/` below is the repository; source paths are given from its `src/modules`.

## The system

One process, one event loop. A function runs without interruption from one
`await` to the next, so every `await` is a point where any other function may
run, and a call that is not awaited (`bulkWrite` in the jobs,
`openTradeContract`) goes on by itself. What is in memory is lost when the
process dies; an unhandled rejection of an un-awaited write kills it.

| component | state | operations | hard part | what makes it correct |
|---|---|---|---|---|
| Opening of trades: `trades/trades.service.ts`, `_jobs/trades/job-trade.service.ts` | collection `trades`; arrays `queuesMarket`, `queuesLimitOrder`, `listActives` | createTrade, updateTrade, cancelTrade; jobs cancelTrade, processTradeMarket, processTradeLimit, openTradeContract; loaders | un-awaited writes without a state filter, retries after a lost answer, reload after a crash | no object in two transactions; retries bounded; OPENED only what the chain opened; a QUEUED trade resolves |
| Closing of trades: same files | `listActives`, `queueCloseAnytime`, `call_close` | closeTrade; jobs excuteOptions, closeTradesAnyTime; the two contract calls; loadActiveTrades, retryTX | objects pushed again by FailUnlock, option id set only if the object is in the list, dropped batches | an OPENED trade with attempts left is in a list; it is closed by one call at a time |
| Router events: `_jobs/sync-event` | `contracts.blocknumber_synced`, `histories` | cron start, excuteSync, getEvents, handleEvents | swallowed errors move the cursor, blocks read again, heads that go back | every event applied, none after a newer one |
| Block logs: `_jobs/sync-block` | `blocks.blocknumber_synced`, `histories_block`, window size | cron start, handleBlock, getLogs, handleLogs | the running flag does not exclude, half-written passes, the cursor of the other job | every close applied once |
| History: `history/` | two collections of handled events | find, save | the stored key and the key that is looked up differ | an event found after it was saved |
| Auth and wallets: `auth/`, `users/` | users, wallets, tokens; the registration and approval a contract holds | getNonce, logIn, register, approve, refreshToken, logOut | check-then-create, reuse of a nonce or a token, two requests that save one document | a nonce logs in once; the oneCT has a wallet; sessions are neither made nor lost |
| Admission and prices: `createTrade`, `_shared/services/socket-price.service.ts` | `pairPrice`, `currentMaxOI`, the dates and strikes of trades | push of feed updates, the checks of a request, price matching of the jobs | requests that overlap between a check and its insertion; a strike overwritten by the price that met it | trades a second apart, interest bounded, an order submitted near its strike |
| Chain access: `_shared/services/ethers.service.ts` | current RPC, gas | switchRPC, block time, gas cron | I/O | - |
| Reading side: `leaderboard/`, `stats/`, `users/` getStats | none of its own: rows of a subgraph | reports, day and week ids | order of the rows, days that begin at different times, rows that change meanwhile | totals are sums, a row is shown once, days that are over do not change |

Interactions: a request and the jobs share the arrays of `JobTradeService`; both
and the router job share the `trades` collection, mostly through updates whose
filter does not name the state; the router job also edits `listActives`; the
block job reads no further than the router job's cursor.

## Modules

| module | models |
|---|---|
| `TradeLedger` | abstract: how the records of trades follow the contract, with the two theorems every implementation inherits |
| `OpenTrade` | the opening of trades, with the part of the router job that records it |
| `OpenTradeProofs` | its type correctness, the theorems about what the collection records and about its calls, objects and retry counters, and that it implements `TradeLedger` |
| `EventSync` | the two jobs that read the chain, with their cursors, windows, passes and failures |
| `EventSyncProofs` | its type correctness, that neither cursor leaves an event behind, that it implements `TradeLedger` and that a closing finds its trade |
| `CloseTrade` | the closing of trades, with the part of the router job that brings them back |
| `CloseTradeProofs` | its type correctness, and that it implements `TradeLedger`; the attempts to close a trade: they know their option, there are never two at a time, and there is one until the retries are used up |
| `Orders` | which trades are accepted and at which price they are submitted |
| `OrdersProofs` | its type correctness, the dates of a user's trades, the open interest, the price of a limit order |
| `Accounts` | users, wallets, nonces and tokens |
| `AccountsProofs` | its type correctness, nonces, wallets, flags and sessions |
| `Calendar` | the day and week arithmetic of `common/utils/date.ts`, as operators |
| `Reports` | what `getStats` computes from rows, as operators |
| `Statistics` | time and rows that go on, over `Reports` and `Calendar` |
| `StatisticsProofs` | what each loop of the reports computes, and from it the invariants of `Statistics`; the days and weeks that the offsets of the tournaments name |
| `DataFacts` | what the proofs say about data: induction, sums, maxima, ranks, loops over a sequence, rising sequences, division |
| `MCOpenTrade`, `MCEventSync`, `MCCloseTrade`, `MCOrders`, `MCAccounts`, `MCStatistics` | each for TLC, with its symmetry where there is one |

`OpenTrade`, `EventSync` and `CloseTrade` meet at the collection and the chain.
Each holds the rest of the process as the little it needs of it: `OpenTrade` has
the router job as slices of an event log, `EventSync` has a trade as its recorded
state, `CloseTrade` starts with a trade whose opening has been submitted. What
they promise together is `TradeLedger`, which each of them implements under a
refinement mapping of its own (`Recorded`, `Contract` and `Ledger` at the end of
the module).

### TradeLedger

`recorded` is what the collection says of a trade, `contract` what the router
contract did with it. `May` names the only ways from one recorded state to
another: OPENED only after the contract opened the trade, over a cancellation
too; CLOSED only over OPENED and after the contract closed it; and nothing over
CLOSED. The refinement is where the writes whose filter names no state, the
events that are read again and the two cursors have to agree. `OpenTrade` maps
`opened` to the contract and never closes; `CloseTrade` maps `chain`, and is
checked with events that are read again for ever; `EventSync` maps the events in
the blocks, and is checked with two passes of the block job and a failed write.

### OpenTrade

Correspondence of the state:

| variable | code |
|---|---|
| `db` | documents of `trades`: state, reason of the cancellation, `call_open`, `isLimitOrder`, `limitOrderDuration` |
| `age` | now minus `queuedDate`, in units in which a market order expires after 1 |
| `entry` | the trade objects of the process. `place` is where one is: the continuation that will push it (pending), `queuesMarket` or `queuesLimitOrder` (queue), the arguments of an `openTradeContract` call (call), `listActives` (active) |
| `calls` | calls of `openTradeContract` under way; `sent`: a node has the transaction |
| `incs`, `cancels` | un-awaited `bulkWrite`s: the `$inc` of the jobs, the CANCELLED of the expiry job and of the last failed attempt |
| `req` | an update or cancel request between its awaits |
| `cronSnap` | the documents the expiry job has read |
| `toLoad` | the loaders that have not read |
| `sent`, `opened`, `log` | the chain: submitted and executed openings, the router contract's events |
| `synced`, `scan` | the router job's cursor and the slice it is handling, in events instead of blocks |

An action is the code between two awaits. An array keeps no order: order decides
only which `quantityTxTrade` objects go first. A trade has at most two objects
at a time, because only `createTrade` and a loader create one and a retry copies
it. `RouterHandle` picks any slice that starts at most `Overlap` events behind
the cursor; it applies events it has applied before, as the code does (the
history never matches, see the hazards). `HeadLag` lets an RPC node report an
older head than the cursor. The `isLimitOrder: false` an OpenTrade event writes
is left out: nothing reads the field of a trade that left QUEUED. The closing of
a trade is not part of this module: an object stays in `listActives`.

Properties:

* `OpenedOnChain`: OPENED in the collection means opened by the contract,
  whatever is read again or lost.
* `OpenedUndoneOnlyLate`: an OPENED trade becomes CANCELLED only through the two
  writes whose filter does not name the state (the user's cancel and the one
  after the last attempt). Both can happen in the code; the expiry job and an
  old CancelTrade event never do it, if heads do not go back.
* `OneCallPerObject`: no object in two transactions or in a call and a queue.
* `CallBounds`, `GivenUpOnlyAfterRetries`: how many attempts are made at most and
  at least, over retries, lost increments, crashes and reloads. An attempt
  counts twice in memory and once in the collection, so a trade is attempted
  about half as often as `maximumRetry` says.
* `OnlyQueuedEnter`: no cancelled or opened trade gets an object again.
* `QueuedResolves`, `RetriesEnd`: liveness.
* `CancelOnlyQueued`: what the message of `cancelTrade` promises, and what its
  loop does not do (a finding, below).

### EventSync

| variable | code |
|---|---|
| `chain` | the blocks; a block says at most one thing about the trades |
| `trades` | the recorded state of each trade |
| `routerSynced`, `blockSynced` | `contracts.blocknumber_synced` of the router, `blocks.blocknumber_synced` |
| `history` | `histories_block`, by block |
| `knownHead` | `EthersService.currentBlockNumber`, refreshed by a cron job; the 0 it starts with is `NoHead`, below every cursor |
| `tick` | the cursors the router's cron job has read before it tests `isRunning` |
| `router` | the router job's pass: `getEvents`, `handleEvents`, the cursor's update |
| `isRunning`, `pass` | the block job's flag and its passes; the flag does not exclude a second pass, so there may be one for every element of `Pass` |
| `window` | `HelperService.syncBlock`, divided by 3 after a failure, restored after a success |

The history of the router job is left out: the key it stores and the key it
looks up differ, so it filters nothing. The profit and the status a closing
records are abstracted to CLOSED. The two writes of a block pass are two steps
in either order, and either may fail or be lost in a crash. `Lag` lets a node be
behind the newest block, `SlowReads` lets a cursor read be answered after other
passes. `MinLife` is the number of blocks between the opening of a trade and its
closing: an early close has to wait 60 seconds, about 30 blocks, which is more
than the 10 that are read again.

Properties:

* `NoCloseSkipped`, `NoOpenSkipped`: a cursor that passed an event by more than
  the lag of the nodes means that the event was handled; for the router job,
  whose errors do not stop the cursor, only while nothing failed.
* `CloseFindsTrade`: a closing is marked as handled only together with the
  trade it closes, because the block job stays behind the router job's cursor.
  A failed or lost one of the two writes breaks this in the code, and the
  property excludes it.
* `ClosedStaysClosed`: the OpenTrade events that are read again, whose update
  names no state, never reopen a closed trade. It is checked without
  `SlowReads`: a pass from a stale cursor may reopen one.
* `ClosesRecorded`, `BlocksCatchUp`: liveness. The second needs that the window
  shrinks until an answer fits.

### CloseTrade

| variable | code |
|---|---|
| `db` | documents of `trades`: state, whether `closingTime` is set, `call_close` |
| `age` | 0 in the first 60 seconds of a trade, 2 when its period is over |
| `entry` | the trade objects: in a call of `openTradeContract`, read by `loadActiveTrades`, read by `getAllTradesClosed`, in `listActives` (active), in `queueCloseAnytime` (anytime), in a call. `option`: does it have its option id |
| `calls`, `incs` | calls of the two closing functions; `$inc call_close` writes that have not landed |
| `req` | a closeTrade request between its awaits |
| `chain`, `sent`, `log` | the trades on the chain, closings to be mined, the router contract's events |
| `synced`, `settled`, `scan` | the router job's cursor, how far back it may read again, its pass |

Only the OpenTrade and FailUnlock events matter here; the opening itself
succeeds. `RecordClose` is the block job, which `EventSync` models. `retryTX` is
left out: it asks for CLOSED trades without `tx_close`, and the one write of
CLOSED sets `tx_close`. Two constants name what the code takes for granted and
what the network may do. `Punctual`: the router job records an opening after
`openTrades` was answered and the object is in `listActives`, and within 60
seconds. If it does not, the object never learns its option id, and one such
object makes every `closeAnytime` batch it is in fail. `Reread`: blocks are read
again. `Closers` names the trades whose users may close them early.

Properties:

* `OneAttemptAtATime`: an open trade is in one list or call, or in one
  transaction, or in one FailUnlock event. It excludes rereading and lost
  answers, which do double a trade, and survives every single failure.
* `NoTradeForgotten`: until it was attempted more than half of `maximumRetry`
  times, an open trade is somewhere: no retry, no FailUnlock event and no
  un-awaited increment loses it. A failure may: `closeTradesAnyTime` splices its
  batch away before it looks for a price, and a failed read moves the router
  cursor past a FailUnlock event.
* `EarlyCloseHasOption`: what waits for `closeAnytime` knows its option.
* `OpenedCloses`, `AttemptsEnd`: liveness. The second holds although a FailUnlock
  event may be read again for ever, because `call_close` in the collection counts
  every call; the first survives a crash.

### Orders

The admission of a trade and its price; `OpenTrade` takes both as given.

| variable | code |
|---|---|
| `feed` | `pairPrice` of one pair, the newest price first |
| `maxOI` | `currentMaxOI`, unknown after a start until `syncMaxOI` was answered |
| `trades` | documents: state, `queuedDate`, `strike`, `strikeOld` |
| `req` | a `createTrade` request between its awaits: the date it began, what it has read |
| `queue`, `calls` | the objects in the two queues; those in an `openTrades` call with their price |
| `writes` | un-awaited writes of a strike: the job's price, the user's update |
| `asked`, `loads`, `seen`, `peak`, `unchecked` | history: what users asked for, how often an object was rebuilt from the collection, what a request could know, how much was pending at once |

All trades are of one user, direction, pair and pool and of size 1: the checks
concern only these. Checks of one field of a request are the choice of the
request. The un-awaited write lands at any later time, so an update by the user
and the job's price may overwrite each other.

Properties:

* `OneSecondApart`: what the check for requests that come too quickly gives when
  they overlap: a trade is a second later than every trade that was stored when
  its request looked. Two that overlap may have equal dates.
* `InterestBounded`: how far the open interest may exceed the contract's limit,
  as only OPENED trades count: by what was pending at one time, and by what was
  accepted before the limit was known.
* `SubmittedNearStrike`: a limit order is submitted within its slippage of the
  strike its user signs until its object is rebuilt from the collection, where
  the price that matched has replaced the strike; each restart may add a slippage:
  `WithinSlippages` asks for a path from a strike that was asked for to the price,
  with as many steps as restarts and one more.

### Accounts

| variable | code |
|---|---|
| `users`, `wallets`, `tokens` | the collections; a nonce and a key are numbers, a token the triple its string is signed for, stored as often as a document says it |
| `contract` | the registration and the approval that the contracts hold |
| `req` | a request between its awaits: what it has read, and the branches of `Promise.all` that are open |
| `logins`, `logouts`, `answered` | history |

Requests overlap, `Overlaps` naming those of which one user may send two at once.
An await may fail and the process may crash; a failing branch of `Promise.all`
leaves the others running. Signatures are checked by the choice of the nonce: a
login is for the nonce that was read.

Properties:

* `NonceNotReused`: a nonce whose login was answered never comes back.
* `OneCTHasWallet`: the oneCT of a user has its wallet, or a login is about to
  insert it, although two first logins each make one and overwrite the other's.
  A failure between the two writes breaks it, and is excluded.
* `SessionsCounted`: logins are refresh tokens stored or about to be, plus
  logouts; two tokens of one second have one string and are two documents.
* `FlagsFollowContract`: `isRegistered` and `isApproved` say what the contracts
  hold, although both requests load and save one document, as long as one of each
  is under way at a time.

### Calendar, Reports, Statistics

`Calendar` and `Reports` are operators: one for each function of
`common/utils/date.ts`, `calc...` function and query. `Statistics` adds the time
and the rows of the subgraph (external), one for each day on which something
happened; only today's row still changes. A report takes the table as an
argument, so that the same report can be asked of the table without today's row.
A query answers the newest rows, at most `RowLimit` (the queries ask for 1000)
or, for the pool, which asks for no number, `PoolPage` (the subgraph's default).
What a query, a sort or a filter selects is stated by ranks, and what a loop does
is a fold of its body (`FeeEntry`, `PoolEntry`, ...). `groupBy` is the identity
here: a table has one row for a day. Every invariant ranges over all ranges of
dates that can be asked for, and states the result independently of the loops,
as sums and latest elements of sets of days.

* `TotalsAddUp`: cumulative fields, averages, payout and the scale of the trading
  chart. The average of the volumes is never defined, as the code keeps no
  running total for it.
* `EveryRowShown`: each row on its day, once, except for the last day of a range
  that ends at an earlier time of day than it begins; rows beyond the limit of a
  query show as zeros.
* `PoolFilled`: which day's supply and change a day repeats.
* `PastDaysStable`: what is shown of days that are over does not change, but for
  the rows a new one pushes off a full answer. The report of the pool is where
  this matters: its limit is the smaller one.
* `OffsetsNameDays`: offsets of the tournaments name consecutive days and weeks,
  and the times left end where the ids change. The ids in the statistics of a user
  are today's although the number of the day is passed for the week: the two
  conversions undo each other.

## Runs

| run | instance | why it is enough |
|---|---|---|
| `open_one` | one trade with two objects, batches of two, `MaximumRetry` 2, two units of time, an overlap of one event, one rejection, one crash | every write without a state filter meets every other; the two objects of a trade share a call or retry apart; two retries reach both ends of the counters; a second crash only repeats the first |
| `open_live` | one trade, updates, one crash, fairness, an odd `MaximumRetry` | both roundings of the halved counter are reached, here and in `open_one` |
| `open_cancel` | two limit orders with cancels | the shortest instance with another order in the queue |
| `sync_lag` | one trade, three blocks, nodes one block behind, slow reads, one failure of any kind, one crash | the overlap is exactly what the theorems need; one block less is a counterexample |
| `sync_two` | one trade, two passes of the block job, a failed write | one trade suffices, since passes share nothing but the cursor, the window and the history |
| `sync_live` | one trade, a window of 3 where answers of 2 fit, fairness | the window must shrink once, the failure makes it shrink further |
| `close_single` | one trade, two objects, two FailUnlock events, one failure of any kind | a second object is what the property denies |
| `close_live` | one trade, two objects, lost answers, early closing, a crash, fairness | with `MaximumRetry` 2 a trade that was called once is still loaded after the crash |
| `close_reread` | one trade, two objects, events read again for ever, a crash, fairness | the same |
| `orders` | a limit and a market order, a list of two prices, one update, one failed call, one restart; a slippage of a quarter with prices at both sides of its edge | two requests overlap in every way; the limit of 2 is reached by two trades; one restart is where the strike is lost |
| `accounts` | one user, one network, two requests at once of every kind, two logins, one failure or crash, a token that expires | users and networks share no document; two requests are what an overlap needs; the second login meets what the first left |
| `statistics` | days of two units, weeks of two days, rows on up to four days with amounts 0 to 3, tournaments that begin in the middle of a day, an average over two days, answers of three rows and pages of two | a gap, a zero, a change above the cap and a full answer occur together; ranges begin and end at both times of day |

`TypeOK` of `Statistics` also bounds the totals of the overview, and that of
`Orders` says that an object is in a queue or in a call, not both.

The state space is bounded by the number of trades and by `MaxRejects`
(rejections or FailUnlock events of a trade), `MaxCrashes`, `MaxFaults`,
`MaxFailures`, `MaxDuration` (the clock of OpenTrade), `MaxClock`, `MaxHead`
(blocks), `MaxCopies` (objects of a trade; a third is not read until one is
gone), `MaxPending` (counts and closings of a trade that have not landed when a
further call starts), `MaxUpdates`, `MaxLogins`, `MaxRowDay`, `MaxAmount` and
`Horizon` (rows and time of the reports). Nothing else is bounded. Deadlock is
not checked: when all is resolved and the bounds are used up the model stops, and
so does the system until the next request.

Fairness. `OpenTrade!FairSpec`: time passes, the cron jobs `cancelTrade` and
`processTradeMarket` run (`@nestjs/schedule` starts them for ever and their
running flags are released on every path), a contract call ends (an RPC call
resolves or fails), and the expiry write lands (a write that does not is a
crash). Nothing is assumed of users, prices, the contract or the router job.
`EventSync!FairSpec`: the head is refreshed, the router's cron job starts and its
pass goes on, and so does each pass of the block job; nothing is assumed of the
chain. `CloseTrade!FairSpec`: the clock, the jobs `excuteOptions` and
`closeTradesAnyTime`, the ends of the calls, the increment, the router job, the
loaders, and a chain that mines what was sent; nothing is assumed of users, nor
that an event ever ceases to be read again.

## Findings

`CancelOnlyQueued` is violated: `cancelTrade` sets `isInQueue` for every element
of `queuesLimitOrder` before it compares the queue id, so with any other limit
order waiting it records CANCELLED for a trade whose object is in a call.

## Proofs

Every theorem assumes the types of the constants (`...Assumption` in each module)
and what is said here, and nothing else; they hold for any number of trades,
users, requests, passes, retries, failures and crashes.

* `TypeCorrect` (of `OpenTrade` and of `CloseTrade`), `SyncTypeCorrect` and
  `AccountsTypeCorrect` are inductions with one step per action. The last one
  needs that only register and approve come to where a wallet is saved.
* `OpenedOnChainHolds` and `OpenedUndoneOnlyLateHolds` follow from `RouterInv`:
  an OpenTrade event is the last one of its trade and means that the trade is
  opened; a trade recorded OPENED has such an event, which, if heads do not go
  back, lies behind the cursor; and then the slice being written does not end
  before the cursor. OpenedOnChain alone is not inductive: it says nothing of the
  events still to be written. The second theorem assumes `HeadLag = 0`; with an
  old head a slice may end at the CancelTrade event before the OpenTrade event,
  and the theorem is false. The runs use `HeadLag = 0`; that OPENED follows the
  chain under older heads too is known from the theorem alone.
* `OneCallPerObjectHolds`, `OnlyQueuedEnterHolds`, `GivenUpOnlyAfterRetriesHolds`
  and `CallBoundsHolds` rest on two invariants. `ObjectInv`: the calls are
  disjoint, every object has a document, and a loaded one was read by its loader.
  `CountInv`: an object's `call_open` stays below `maximumRetry` + 2, and is at most
  twice the attempts, which are the count of the document and the increments
  under way. `CallBoundsHolds`
  assumes that no trade is created before the loaders have read (`EarlyCreate =
  FALSE`), which gives a trade one object (`SingleInv`); the weaker bound with
  two objects is model-checked only, in `open_one`.
* `OpenTradeProofs!ImplementsLedgerHolds`: `Untouched` says that nothing is
  known anywhere of a trade without a document; `StepEffect` bounds what a step may do
  to the records; with `RouterInv` each such change is a `May` of the ledger.
* `CloseTradeProofs!ImplementsLedgerHolds`: `Unopened`, nothing refers to a trade
  whose opening is not mined; `ClosedSettled`, a trade recorded CLOSED was closed
  by the contract and its opening lies behind what is read again, so that no pass
  records it once more. The pass under way needs its own bound (`ScanAhead`).
* `EarlyCloseHasOptionHolds` assumes `Punctual`. `OptionInv`: until the opening of
  a trade is recorded it has one object at most (`OneObject`) and no user closes
  it (`NotClosedYet`); the pass that records it tells that object its option
  (`OptionKnown`); and an object that does not know it waits where it cannot be
  closed early (`WhereUnknown`).
* `OneAttemptAtATimeHolds`: `Attempts(t)` counts the objects of a trade that are
  not in a sent transaction, its unmined closings and its unread FailUnlock
  events; every step moves an attempt from one of these places to another, or
  ends it, and none makes one when there was one. That needs `CaughtUp`, a pass
  of the router job begins right behind the cursor unless events are reread, and
  `LoadedOnce`, without a crash nothing is loaded.
* `NoTradeForgottenHolds` turns the argument around. `Held`, an open trade that was
  not attempted often enough has an attempt, is inductive with `CaughtUp` (no
  FailUnlock event is skipped), `Counted` (an object counts at most twice what the
  collection counts, so it is not dropped too early), `OptionInv`, and
  `QueuedPlaces` (what a trade has before its opening is recorded).
* `RecordFollowsChainHolds` and `ClosedForGood` are theorems of `TradeLedger`
  and so hold, through the two refinements, of what implements it.
* `NoCloseSkippedHolds` assumes `BlockOverlap >= Lag + 1`. `BlockInv` relates each
  pass to the cursor: the closings from its start up to where it ends that its
  node has served are in the history when its cursor is written, and what lies
  behind a pass's cursor was handled when the cursor was read, by this pass or
  an earlier one. That holds of a stale cursor too, since the history only
  grows. `HeadInv` and `PassInv` bound the cursors by the head.
* `NoOpenSkippedHolds` assumes `RouterOverlap >= Lag`; `OpenInv` is the same
  argument for the router job, with the recorded state in place of the history,
  while `faults = 0`.
* `ClosedStaysClosedHolds` and `SyncImplementsLedger` assume that the cron's read
  of the cursor is answered before its next pass moves it (`SlowReads = FALSE`) and `MinLife > RouterOverlap + Lag`: the router job reads
  ten blocks again, a node is a few blocks behind, and a trade lives a minute at
  least, which is more blocks than both. The openings are written without looking
  at the state, so nothing in the code itself keeps a closed trade closed. The
  invariant is about how far the cursor fell back at most: `Reached(n)`, the
  cursor, the head it is given and the pass under way are no more than `Lag`
  blocks before n (`CursorKept`); `CloseInv`, what is recorded CLOSED, or is
  about to be, was closed in a block that is reached, while a pass handles
  openings from `RouterOverlap` before the cursor on; and `Lives` puts the opening
  of a closed trade before all of these.
* `CloseFindsTradeHolds` needs `RouterOverlap >= Lag` as well. `FindInv`: a pass of
  the block job reads up to where the openings are recorded (`PassFinds`, from
  `OpenInv`), so it finds the trade of each closing, and writes the history of no
  closing whose bulkWrite was not sent with it (`BeingClosed`).
* `NonceNotReusedHolds`: `NonceInv`, a login holds a nonce that was the user's,
  and one whose own nonce is written holds an older one; nonces only grow.
* `OneCTHasWalletHolds`: the property is inductive, as no wallet is removed
  (`WalletsStay`) and without a failure a request about to insert stays so until it
  has inserted (`InsertStays`).
* `FlagsFollowContractHolds`: `FlagInv` says of the time in which nothing failed
  that a request that is to set a flag holds the first wallet of its user
  (`HoldsFirst`), that a contract holds a flag only of a user with a wallet
  (`HeldHasWallet`), that a user has one request of a flag (`OneOfUser`), and that
  what is to be saved is what the contract holds (`SavesHeld`). The requests of
  the other flag save the same document; that they write only their own path is
  what `FlagMoves` rests on.
* `SessionsCountedHolds`: each step moves one session between the tokens stored,
  the requests under way and the logouts. The tokens are a bag, so what is stored
  is a sum: `DataFacts!SumChange` says what a sum becomes when one value changes.
* `OneSecondApartHolds`: `Knows`, what a request knows of the trades it saw, first
  the latest of their dates, then that its own is later; `HasLatest` gives the
  maximum of a set of dates, from the well-foundedness of the naturals.
* `InterestBoundedHolds`: `InterestInv`, of the trades that were admitted when the
  limit was known at most `Room` are beyond the largest number that was ever
  pending: the request that looked last was pending itself. Its cardinalities
  need that finitely many trades are known at a time (in `Typed`).
* `SubmittedNearStrikeHolds`: `NearInv` for an object that was never rebuilt.
  `HopInv` for one rebuilt n times: the object is n slippages from a strike that
  was asked for, and the price it is submitted at, the record, and every write
  still under way to the record are n + 1, so that it does not matter which of
  these a crash leaves for the restart to load.
* `StatisticsTypeCorrect`, `TotalsAddUpHolds`, `EveryRowShownHolds`, `PoolFilledHolds`
  and `PastDaysStableHolds` assume nothing but the types of the constants: they
  hold for every history of rows, every range of dates, length of a day, row
  limit, page, cap and length of the average. The inductive invariant `IInv` is
  small: the tournaments have begun, and the rows are amounts of days up to
  today, which are finitely many. The work is in the reports, in five layers:
  1. Ranks. `IthRank`: in a finite set of integers each rank is one element.
     `SortReverses`: `SortBy` turns the answer of a query around, so the rows that
     a loop reads rise by day (`NewestSorted`), and are those of `Top(days, n)`.
  2. Loops. `FoldLeft` is recursive, so a proof cannot expand it; `LoopExists` and
     `LoopUnrolled` say once, for any table of steps, that a loop that starts empty
     and appends one entry a row has exactly that entry at each place, as a
     function of the entries before. `FeeLoop` to `FillLoop` apply this to the six loops.
  3. Closed forms. `RunningTotal` and `RunningLatest`: a value that adds each
     row's amount to that of the entry before is the sum over the rows so far, and
     one that is kept unless the row has something better is the latest such.
     `TotalsAre`, `FeesAre`, `TradersAre`, `PoolAre`, ... state the entries of each
     report in this form, as sums and latest elements of sets of days.
  4. Dates. `DatesAre`: the dates are a day apart. `EntryShown`: an entry of a
     report is the row of its day added to zeros, or zeros. `DaysShown` counts the
     dates of a day: none or one.
  5. The invariants, `InvTyped` to `InvPast`, from 3 and 4. For `PastDaysStable`,
     `LoopsAgree`: two loops over sequences with a common beginning agree on it,
     and the rows without today's are the beginning (`YesterdayRead`, `PastPrefix`)
     as long as no older row was pushed off.
* `OffsetsNameDaysHolds` needs of the state only that the tournaments have begun
  (`ClockInv`); the rest is arithmetic of `\div` and `%` with any length of a day
  and a week, stated once (`DivUnique`, `DivMinus`, `NextMultiple`, ...).

Induction over the naturals and over finite sets is used in the form of a set
that is closed (`DataFacts!NatClosure`, `SubsetClosure`): it has 0 and the successor
of what it has, or the empty set and each set that is one element larger. The
library's theorems take an operator, which the provers cannot instantiate. For
the same reason a loop is a function that is applied, not an operator: `Steps`
names a table from what the loop has so far and the row to what it has next.

Only model-checked: liveness and ENABLED (out of the prover's reach:
`QueuedResolves`, `RetriesEnd`, `ClosesRecorded`, `BlocksCatchUp`, `OpenedCloses`,
`AttemptsEnd`), and the weaker bound of `CallBounds` with two objects of a trade.
Every other property of the passing runs is a theorem.

## Not modelled

* The referral tier (`updateUserTier`): a delayed read and one contract call,
  on which nothing else depends.
* What passes a query through or adds up one answer: dashboard, markets, points,
  ranks, `getSummary`, the open interest of the overview; the cache in front of
  the controllers.
* Bootstrap, HTTP layer, validation, configuration, ABIs, the admin's tokens,
  banned users, and operations that no route calls (`deleteUser`, `updateRole`,
  `deleteManyTokens`).
* Signing, encryption and permits: a signature is the nonce it is of.
* Providers, gas and RPC rotation are choices: a call fails, an answer is lost, a
  node lags, an answer is too large. `getBlockTime` is assumed to answer; a
  failure is returned as time 0 and would date an opening 1970.
* The history of router events: the key that is stored ends in a brace more than
  the one that is looked up, so it never matches, and the models apply an event
  that is read again.
* `retryTX`: it asks for CLOSED trades without `tx_close`, which do not exist.

## Plan

Done: the opening, the closing and the two jobs that read the chain, with
`TradeLedger` above them; admission and prices; accounts; the reports and their
calendar.

Next:

1. A pair without a price in `CloseTrade` as a state instead of a failure, to
   say what `excuteOptions` needs in order to go on.
2. `updateUserTier` with the events it is called from.
3. The bound of `CallBounds` for two objects, which needs the two counters of a
   trade related to each other.
