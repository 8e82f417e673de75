# Verification of pump-bot

TLA+ models of the trading bot in `src/`: its pool of RPC connections, the life of
its log subscription, the ingestion of QuickNode's stream, the decoding of
transactions without an event log, the jobs that watch a token, the metrics they
decide on, and the collection of token holders. TLC checks them on small
instances, two of them against abstract specifications of what they promise; TLAPS
proves the main safety properties of all of them for every value of the constants. Paths below are relative to `src/src/`, and `blockchain` stands for
`services/blockchain.service.ts`.

Contents: [the system](#1-the-system) ·
[models and code](#2-models-and-code) · [runs](#3-runs) · [proofs](#4-proofs) ·
[findings](#5-findings) · [what is left out](#6-what-is-left-out) · [plan](#7-plan)

## 1. The system

The bot is one NestJS process. JavaScript runs the code between two `await`s
alone, so nothing is ever preempted, and all concurrency is between *calls that
wait*: HTTP requests, callbacks of the log subscription, timers, jobs of the queue.
What they share are the fields of a few singletons, Redis and MongoDB.

```
 QuickNode --POST /monitoring/stream--> MonitoringController --+
 operator  --POST start, stop, GET status--------------------->|
                                                               v
 web3.js log callbacks ------------------------------> BlockchainService --+--> MongoDB (create_events,
                                                        |         |        |     trade_events, token_holders)
                        select, charge a request        v         |        +--> Redis (monitoring:status)
                                          ConnectionManagerService|
                                                                  v
                                                             Solana RPC nodes
 script --> TokenMonitoringService --> Bull queue (Redis) --> TokenMonitoringProcessor
                     |                                             |
                     +--------> TokenMetricsService <--------------+   (reads MongoDB, Redis, RPC)
```

| Part | State | Operations | Hard because | Correct when |
|---|---|---|---|---|
| Connection pool, `services/connection-manager.service.ts` | per connection `status`, `requestCount`, `lasRequestTime`, its pending cooldown timers; `currentIndex` | `getNextHealthyConnection`, `isNearRateLimit`, `handleRequest`, the timer of `cooldownConnection` | timers overlap; reading resets the rate window; a request is charged to whichever connection is current *after* its await | a selectable connection is below its limit; a cooldown ends; selection throws only when it must, and leaves a bad connection |
| Log subscription, `blockchain` 42-238 | `isMonitoring`, `monitoringSubscription`, `currentConnection`; `monitoring:status` in Redis; callbacks registered with each `Connection` | `startMonitoring`, `stopMonitoring`, `restartMonitoring`, `syncMonitoringState`, the log handler | restart and start call each other; every one awaits between changing memory, Redis and web3.js; the process may die | flag, subscription and Redis agree; nothing subscribes without a cause; stop stops; a restart gets monitoring going again |
| Stream ingestion, `controllers/monitoring.controller.ts`, `guard/quicknode.guard.ts`, `blockchain` 493-617, `services/database.service.ts` | three collections; per batch the transaction and the attempt it is at | one request with concurrent batches, look-up of the token, up to three attempts per transaction, insert, `$inc` | two writes per trade with no transaction around them; retries repeat what was done; nodes lag; requests are delivered again | holders follow trades, duplicates are bounded, no trade without its token, success means done |
| Instruction decoding, `blockchain` 619-727, 801-877 | none of its own; reads the bonding curve while it trades | `decodeInstructionData`, `getBondingCurveStateAtSlot`, `calculateSolAmount` | reads race the chain; wide integers, byte order; a failed read becomes zero reserves | a trade is priced on the curve; nothing is lost without a cause |
| Token monitoring, `services/token-monitoring.service.ts`, `queue/` | repeatable keys and delayed jobs in Redis | `startInitialMonitoring`, both handlers, entry and exit conditions | keys do not name the token; late and overlapping runs; limit and duration expire together | limits are kept, a chain is not cut short, the queue drains |
| Token metrics and prices, `services/token-metrics.service.ts`, `token.service.ts` | the cached `sol_price`; the entry price in the data of a position job | `getSolPrice`, `getTokenMetrics` and what it calls | a dozen awaits, each of which may fail, while the token is traded; a shared cache everybody may write; numbers that become `Infinity` or `null` | a decision is due to the token and not to the time of an answer; a price is not older than it says |
| Token holders, `services/database.service.ts` 14-126 | three collections, one unique index, a document per holder | `setupTimeSeriesCollections` of two instances, `updateTokenHolder`, `getCreatorHolding` | concurrent upserts; updates whose answer is lost and that are repeated; a start that dies between its steps; decimals that are not known | one document per holder, which is the net of the trades; no trade counts more often than it has attempts; the process comes to serve |
| Orders, `blockchain` 341-491 | none | `buyToken`, `sellToken`, which nothing calls | | not modelled |
| Slack, logging, authentication, wiring, IDL | none that anything reads | | | not modelled |

Interactions that matter: every RPC call of `BlockchainService` goes through its one
`currentConnection`, which `updateConnection` replaces under calls in progress;
`QueueModule` has a *second* pool for the same URLs; the log subscription and the
stream write the same collections, with no key in common; both calls that would
start the monitoring of a created token are commented out (`blockchain` 90, 605),
and only `services/test-token-monitoring.ts` makes it.

## 2. Models and code

| Module | Models | Extended by |
|---|---|---|
| `ConnectionPool` | the pool and `updateConnection` | `MCConnectionPool`, `ConnectionPoolProofs`, `ConnectionPoolRate` |
| `ConnectionPoolRate` | the same with a history of the requests in the last window | `MCConnectionPoolRate` |
| `MonitorSession` | what monitoring promises its caller | instantiated by `Monitoring` |
| `Monitoring` | the log subscription | `MCMonitoring`, `MonitoringProofs` |
| `EventLedger` | what ingestion promises of the collections | instantiated by `StreamIngest` |
| `StreamIngest` | `POST /monitoring/stream` | `MCStreamIngest`, `StreamIngestProofs`, `StreamLedgerProofs` |
| `InstructionDecoder` | decoding without an event log | `MCInstructionDecoder`, `InstructionDecoderProofs` |
| `TokenSignals` | the entry and exit conditions as functions of the metrics | `TokenMonitoring`, `TokenMetrics` |
| `TokenMonitoring` | the Bull jobs | `MCTokenMonitoring`, `TokenMonitoringProofs` |
| `SolPrice` | `getSolPrice` and its cache | `TokenMetrics` |
| `TokenMetrics` | `getTokenMetrics` and the three checks that use it | `MCTokenMetrics`, `TokenMetricsProofs` |
| `TokenHolders` | the set-up of the database and the balances of the holders | `MCTokenHolders`, `TokenHoldersProofs` |

The `map` of `PROJECT.json` names the lines each definition stands for. In all of them
an action is the code between two awaits, `pc` (or `at`) names the await a call is
at, and every awaited call may be answered or rejected.

### ConnectionPool

`status`, `requestCount`, `currentIndex`, `current` are the fields of the same name.
`Date.now()` is abstracted to ticks: the code only compares `now - lasRequestTime`
with `REQUEST_WINDOW`, so `sinceRequest` is that difference, saturating there. A
pending `setTimeout` is the time it has left; at zero it *may* fire, so a late event
loop is covered. `Refresh` is the reset of the window by whoever looks at it.
`UpdateConnection` is one turn of `getNextHealthyConnection`'s ring (`IsFirstHealthy`
picks the connection, `Visited` has those whose window it looked at), or its exception.
`HandleRequest` charges the current connection even when it is cooling, as the
code does. `EnsureConnection` is the prologue of the guarded calls.

### Monitoring

A task is one call in progress. `Restart` is `restartMonitoring` up to its await;
`Resubscribe` is the rest, through `updateConnection` and `startMonitoring` to
`onLogs`, which has no await between them when no connection is near its limit. The
recursion *restart → start → monitorProgram → restart* is kept as `depth`: how many
`startMonitoring` frames wait for a nested restart and will each assign `undefined`
(what the inner `monitorProgram` returns) over the id: that is `RestartedInstead`. `subs` are the callbacks
web3.js really holds, so that what the service believes (`monitoringSubscription`)
can be compared with what is true. `JSON.stringify` drops `undefined`, and a missing
key is read back as `undefined`; `Undef` stands for both. `Lost` includes the id 0,
which `!subscriptionId` takes for none. `calls` counts the starts that were asked for and
the logs that were heard, the two things that make a service without failures subscribe.

Abstractions: whether a connection is near its limit or healthy is a choice (module
`ConnectionPool` decides it); what a log handler stores is left to `StreamIngest`; an
unhandled rejection in the log handler ends the process, as in Node.js 15 and later.
`NoneHealthy` leaves out one coincidence, named at its definition.

`MonitorSession` is the same from outside: a session that start opens, stop closes and
log handlers reopen, and that is *deaf* after the process has died, reported as on
with nothing that listens, until somebody stops it. `SessionState` is the refinement
mapping: what Redis and the field report against what web3.js holds, and which call is
at work. `ImplementsSession` says that every step of the service is a step of the
session or none, and that what was begun is completed.

### StreamIngest

A batch works through its transactions: `NextTransaction` (the head of the loop),
`LookUp` (`create_events.findOne`), `Fetch` (`getTransaction` up to the first write),
`Store`, `Count`. `Catch` is the catch block: another attempt, or the batch fails,
after the last attempt or because `updateConnection` throws. A failed write may
have been applied. `stored[b][i]` and `counted[b][i]` count the inserts and the
`$inc`s made for one delivery of one transaction. `Crash` loses the requests in
progress and keeps the database. A second request with the same creation stands for
QuickNode's delivery of what was not answered. `Lagging` are the batches whose
retries may be answered by a node that does not have the transaction *although an
earlier attempt found and stored it*; it covers as well a retry whose fallback
decoding fails.

`EventLedger` knows only deliveries and what was written for them: a document at a time,
trades only of tokens that are known, a balance moved only for a trade that is stored,
and nothing ever removed. `Ledger` instantiates it with a delivery per batch and
position; requests, awaits, retries and crashes disappear, and `ImplementsLedger`
says that what is left is a behaviour of the ledger.

### InstructionDecoder

The chain is part of the model: one bonding curve, one instruction per slot,
`curve[s]` the reserves after slot `s`. `Execute` and its price `SolCost`,
`SolOutput` are the on-chain program, external to the repository (a constant
product, rounded against the trader). `GetBondingCurveStateAtSlot` reads the curve at a node that
has reached any slot not below `minContextSlot`; `ReadFails` is an attempt that
failed, and after `MAX_RETRIES` of them the reserves are zero. `WholeData` is
`new BN(decoded.data)` of the sell case: two little-endian words read as one
big-endian number. A word has two bytes of `BYTE` values, which keeps byte order and
width visible at a size TLC can enumerate; the proofs are for every `BYTE`.

### TokenMonitoring

Bull is external and modelled from how the code uses it: a repeatable job is a key in
`keys` plus at most one job to come in `next`; key and job are identified by process
and interval, *not by the token*, so a second `add` for another token finds both
there. Due jobs go to `wait`. A worker that takes one schedules its successor
(`Repeats`) and runs the handler as far as its first await. Bull gives each of the
two named processors a slot and lets any slot take any job: two workers. The entry and exit
conditions are those of `TokenSignals`. `adds`, `checks`, `ended`, `crowded` are history, read by no action except through
the bound that a token is added once.

### TokenSignals, SolPrice, TokenMetrics

`TokenSignals` has the comparisons of the code in whole units. A quotient is a pair
`n / d`; `d = 0` is the `Infinity` (or `NaN`) that JavaScript goes on with, so a range
test fails and JSON stores it as `null`, which counts as 0 (`StoredPrice`).

`SolPrice` keeps one caller's position in `ask`: the cache, CoinGecko, the write in Redis.
A tick ages the cached price and what is on its way; `MaxTrip` bounds how long an
answer of CoinGecko takes to reach Redis. Everything that fails, a write that
was applied included, gives the caller 243.

In `TokenMetrics` a check is one record: what it is for, the await it is at, what it
has learnt, its verdict. `world` is what the database and the RPC node would answer
now; `Facts` gives them, and `WorldMoves` changes them at any moment, so a check may
see the trades of one world, the curve of a second and the holders of a third.
`Priced` is `getLatestTradePrice` (a trade, or the estimate of
`calculatePriceWithSlippage`, solved for a purchase of 0.1 SOL); `Holders` is the loop
of `getTopHolders` over at most twenty accounts, whose failures are all answered with
zeros. `got` drops what a check has no more use for, which keeps the instance
small. The result of `PositionAdded` is the entry price as the queue stores it, with
the trade and the quote it is from.

### TokenHolders

One token. `init` is the await that the start is at, for each of the two instances of
`DatabaseService` in turn (those of `QueueModule` and of the application);
`found` is the answer of `listCollections`, which the code goes on using after it may have
become stale. `createCollection` of a collection that exists fails and ends the process.
An upsert is MongoDB's: match one document and `$inc` it, or find none and insert, where
the unique index may refuse, and match again. `docs[u]` has the balances of all
documents of a holder, so that the loss of the index shows.

A handler is the log handler, with one attempt, or `processTransaction`, with up to
`MAX_RETRIES`; `left` are those it still has. When an insert or an update is rejected,
made or not (`Rejected`), the trade is started over from its decimals with an attempt
less, or given up: for want of attempts, of a connection, or of a node that has the
transaction. So an `$inc` whose answer was lost is made again. `traded` is what the users
bought and sold, counted when a trade begins and independently of what becomes of it in the
database. `marred` are the users one of whose trades was not counted once, in full:
given up before it was counted, repeated after it was, cut off by a death of the process, or
counted with the 9 decimals that `getTokenDecimals` answers when it fails. Amounts are
in units of the smaller kind.

## 3. Runs

| Run | Module, cfg | Checks | Shows |
|---|---|---|---|
| `pool` | `MCConnectionPool` | `TypeOK`, `ActiveBelowLimit`, `CoolingHasTimer`, `ThrowsOnlyWhenAllCooling`, `RotatesAway`, `CooldownEnds` | however requests, switches, overlapping timers and time interleave, a selectable connection is below its limit, a cooling one comes back, selection throws only when all cool down, and a switch leaves the connection it was asked to leave |
| `pool_rate` | `MCConnectionPoolRate` | `CoolsDownAtRateLimit` (violated) | a connection used below its rate cools down |
| `monitoring` | `MCMonitoring` | `TypeOK`, `FlagMatchesSubscription`, `SavedAgreesAtRest` | with connections that are never near their limit, after any interleaving of two calls, a crash and two failures: the flag is on exactly when a number is tracked, in memory and in Redis; the copies agree at rest |
| `monitoring_calm` | `MCMonitoringCalm` | `OneTrackedSubscription`, `ImplementsSession` | one call at a time leaks no callback: restart and stop remove what start registered; the service implements the session, deaf after a crash until it is stopped |
| `monitoring_live` | `MCMonitoringLive` | `SubscriptionsHaveCauses`, `RestartResumes` | with nested restarts: nothing subscribes more often than something was asked for, heard, or failed; a restart that took the listener away gets monitoring going again |
| `monitoring_stop` | `MCMonitoringStop` | `StopRemovesListener` (violated) | see [findings](#5-findings) |
| `stream` | `MCStreamIngest` | `TypeOK`, `HoldersFollowTrades`, `StoredOncePerAttempt`, `NoOrphanTrade`, `SuccessCountsTrades`, `EveryRequestIsAnswered`, `ImplementsLedger` | with failures, half-failed writes, retries and crashes: holders never ahead of trades, duplicates bounded by attempts, no trade of an unknown token, success means counted, every request answered or lost with the process; together, the ledger |
| `decoder` | `MCInstructionDecoder` | `TypeOK`, `ReservesAtOrAfterTrade`, `PricedOnCurve`, `PurchaseLostForCause`, `DecodingEnds` | a decoded trade is priced on reserves the curve really had at or after it, within one lamport of the program; a purchase is lost only after a failed read or when the curve ran down |
| `decoder_sales` | `MCInstructionDecoderSales` | `SalesAreDecoded` (violated) | every sale is dropped |
| `tokens` | `MCTokenMonitoring` | `TypeOK`, `ChecksWithinLimit`, `CheckedToTheEnd`, `QueueDrains` | late and overlapping runs never exceed the limit; a chain no other ran into is checked to its end; the queue runs empty even if keys cannot be removed |
| `metrics` | `MCTokenMetrics` | `TypeOK`, `NoEntrySignal`, `QuoteFresh`, `UnknownEntryClosesAtOnce`, `ProfitForCause` | however the answers are torn or fail, no token is entered, no cached price is older than its expiration and one trip, a position without an entry price is closed by its first check, and a profit between two traded prices at one quote is a rise |
| `holders` | `MCTokenHolders` | `TypeOK`, `OneDocumentPerHolder`, `HoldingIsNetOfTrades`, `HoldingWithinAttempts`, `StartCompletes` | racing upserts and updates that fail and are repeated leave the net of the trades of every user none of whose trades was marred, and never count one more often than it has attempts; a holder has one document unless a set-up was interrupted before its index; every start that died is made up for by a later one, but for the index |

Every property of a passing run has a mutant in `PROJECT.json`: a plausible slip in
one mapped definition that makes TLC report that property violated.

Distinct states of the passing runs: `pool` 334,069, `monitoring` 7,667,934 (after
symmetry), `monitoring_calm` 2,981, `monitoring_live` 403,607, `stream` 449,241,
`decoder` 152,656, `tokens` 1,290,602, `metrics` 2,174,096, `holders` 1,057,102; each takes
three minutes at most with two workers.

### Bounds, and why they are enough

| Bound | Value | Reason |
|---|---|---|
| connections, limits | 3 connections, limits 2, 6, 3 for 15, 15, 1500 | a limit of 2 is reached without ever being near it, one of 6 is near it one request before (5 > 0.8 · 6), as 15 is near it at 13; two others make the round robin matter |
| ticks | window 2, cooldown 2 | a tick is half a window, so requests fall inside and across windows; the cooldown only has to outlive one other timer |
| `MaxTimers` | 2 | two overlapping timers of one connection are what can go wrong; a third repeats the second |
| `Tasks`, `Conns` (`Monitoring`) | 2, 2 | every conflict found is between two calls and two connections; the calm run has one task by intent |
| `MaxCalls` | 4 (6 when calm, 3 with fairness or to stop) | two calls race, and what they leave behind is met by two more; ids restart from 0 on each connection, so two of them already collide across connections |
| `MaxNear` | 1 in `monitoring_live`, 0 elsewhere | the recursion has one shape; a deeper nest repeats its frame. 0 is a condition of `FlagMatchesSubscription` and of the session; that `SavedAgreesAtRest` does not need it is proved |
| `MaxCrashes`, `MaxFailures` | 1 (2 failures in `monitoring`, 2 crashes when calm) | each property is about recovery from one; `SavedAgreesAtRest` does not promise anything after a failure |
| stream | 2 requests, 4 batches of 2, one mint, `MAX_RETRIES` 2 for 3 | creation and trade in concurrent batches, in one batch, and sent again; two attempts are one retry of a half-done write |
| decoder | 3 slots, `BYTE` 4, amounts {2, 6}, bounds {0, 9}, reserves 4 and 10 | 6 of 10 tokens is more than half of the curve, which is what makes a purchase unpriceable at later reserves; a third instruction trades in between. `MAX_RETRIES` is the code's 3 |
| tokens | 2 tokens, 2 workers, `INTERVAL` 2, `DURATION` 4, four metrics of one price | two runs per chain: the first and the last. The metrics are at the boundaries of the conditions, which decides both ways; one price leaves price moves to `metrics` |
| metrics | 1 check of the token at a time and 1 caller for another, 4 worlds and 1 change per behaviour, 2 prices of SOL, `CACHE_DURATION` 1, `MaxTrip` 1 | the worlds sit at the conditions' boundaries: all but the holders met, a price 45% up, no trades, no curve; an entry price of one world is compared with the next. Two callers are enough to miss the cache together; the theorems are for any number of either |
| holders | 3 handlers, 2 users, 3 trades to choose from, 3 trades, `MAX_RETRIES` 2 for 3, 2 crashes, 2 failures, `SCALE` 1000 | two attempts are one repetition of an update that was made; two upserts race while a third has just inserted; the second crash may interrupt the start that follows the first. `SCALE` is the code's 10^9 / 10^6 |

Symmetry is used for tasks in the safety run `monitoring` only. `CHECK_DEADLOCK FALSE`
is set for the stream, the decoder and the holders: their requests, slots and trades are
finitely many and the system may stop when they are done. Everything else runs for ever.

### Fairness

* `ConnectionPool`: the clock advances, and Node.js runs a timer that is due.
  No request or switch is assumed to happen.
* `Monitoring`: each task's next step is taken: what a call waits for is answered
  or rejected (Redis and web3.js reject on disconnection). No call is assumed to come.
  That the calls come to rest is *not* claimed: start, its catch block, restart and start
  again go on for as long as Redis keeps rejecting (`blockchain` 102), and only `MaxFailures`
  ends that in the model. What is claimed is that each round takes a rejection
  (`SubscriptionsHaveCauses`).
* `StreamIngest`, `InstructionDecoder`: each RPC and database call is answered or
  rejected, never that it succeeds; the chain need not go on.
* `TokenHolders`: MongoDB answers or rejects, and a process that ended is started again,
  as its supervisor does; crashes and failures are finitely many.
* `TokenMonitoring`: time passes, workers take jobs, and each awaited call ends,
  possibly in failure.

All are weak fairness: once a promise has settled, its continuation stays enabled
until the event loop runs it.

## 4. Proofs

`tlapm` proves the following from the `ASSUME`s of each module alone, for any number
of connections, tasks, batches, slots, and any limits.

| Theorem (module) | Says |
|---|---|
| `TypeCorrect`, `SelectableBelowLimit`, `TimerIsPending`, `ThrowMeansAllCooling`, `SwitchRotatesAway` (`ConnectionPoolProofs`) | types; `ActiveBelowLimit`; `CoolingHasTimer`; selection throws only when all cool down; `RotatesAway` |
| `MonitoringTypeCorrect`, `FlagMatches`, `SavedAgrees` (`MonitoringProofs`) | types; `MaxNear = 0 => (Spec => []FlagMatchesSubscription)`; `SavedAgreesAtRest` |
| `OneIsTracked`, `ImplementsSessionSafely` (`MonitoringProofs`) | under `Calm`: `OneTrackedSubscription`; `Spec => Session!Spec`, the safety part of `ImplementsSession` |
| `TypeCorrect`, `ChecksAreLimited`, `ChecksGoToTheEnd` (`TokenMonitoringProofs`) | types; `ChecksWithinLimit`; `CheckedToTheEnd` |
| `TypeCorrect`, `HoldersNeverAhead`, `BoundedDuplicates`, `TradesHaveTheirToken`, `SuccessMeansCounted` (`StreamIngestProofs`) | types and the four safety properties of the ingestion |
| `IngestionImplementsLedger` (`StreamLedgerProofs`) | `Spec => ImplementsLedger`: the ingestion implements the ledger |
| `TypeCorrect`, `ReservesAreCurrent`, `PricesAreOnCurve`, `PurchasesAreDecoded` (`InstructionDecoderProofs`) | types and the three safety properties of the decoder |
| `TypeCorrect`, `HolderIsUnique`, `HoldingIsExact`, `HoldingBounded` (`TokenHoldersProofs`) | types; `OneDocumentPerHolder`; `HoldingIsNetOfTrades`; `HoldingWithinAttempts` |
| `TypeCorrect`, `QuoteStaysFresh`, `NeverEnters`, `UnknownEntryIsClosed`, `ProfitIsForCause`, `EstimateSignalsProfit` (`TokenMetricsProofs`) | types; `QuoteFresh`; `NoEntrySignal`; `UnknownEntryClosesAtOnce`; `ProfitForCause`; an inequality of the estimated price |

With these, every invariant and every action property of a passing run is a theorem, but for
`SubscriptionsHaveCauses`.

The arguments:

* **Pool.** `ActiveBelowLimit /\ CoolingHasTimer` is inductive with `TypeOK`: the one
  step that takes a count to its limit also leaves ACTIVE and starts a timer, every
  other only lowers counts, and a timer that fires clears the count. That selection
  throws only when all cool down follows, since an ACTIVE connection then passes
  both tests. `RotatesAway` needs a second invariant, `Follows`: the index is
  always one past the current connection, so the ring reaches the current one last.
* **Monitoring.** `SavedAgreesAtRest` is about rest, so it has to be strengthened to what
  holds in between: memory and Redis differ only while some task is at
  `subscribed`, after a restart cleared the fields and before it assigns them
  (`Agreement`). `CallsCarry` says what a call carries over its await: an id that is
  a number, and that a rejection it is about to see has been counted. `FlagMatchesSubscription`
  is inductive together with `NothingUndefined`: while no connection is near its limit no call
  waits for a nested restart, so nothing assigns `undefined`.
* **Session.** One call at a time on healthy connections that no other code switches, with
  nothing that fails (`Calm`, the constants of `monitoring_calm`; crashes and the number of
  connections stay free). `CalmInv`
  says for each await of a call what it has done so far to the callbacks and to Redis
  (`CalmCall`), and that between calls the tracked callback is the only one or a crash has
  lost it (`Settled`). From it each action is shown to keep it and to be a step of
  `MonitorSession` or a stutter, both at once (`CalmStep`). Without `Calm` the property is
  false: two calls, or a switch, leave a callback that nothing tracks.
* **Token monitoring.** `ChecksWithinLimit` needs that the checks made, and the runs that
  the job to come and the due ones have left (`Left`), stay together within the limits of the
  jobs added (`RunsWithinLimit`). The sum over the due jobs is not computed: some `f` bounds the
  sum of each prefix of them, and every step changes `f` where it changes the queue. It
  rests on `Shape`: a job to come is filed under its own process, and a handler holds the
  job it runs. `CheckedToTheEnd` needs `OneAfterTheOther`: a process that is not crowded has at
  most one job (`Only`), which stands where the checks so far have brought it (`GoesOn`), and
  its other tokens have had all of their checks or been ended (`IsOver`).
* **Stream.** The count of a half-done attempt is hidden in `pc`: `Attempt` relates
  the await a batch is at to what the current transaction has stored and counted, `Ahead` says that nothing
  was done for later transactions, `NotStarted` that a request not received has no
  batch running, `Cleared` that a batch past its look-up has its token stored.
  `SuccessMeansCounted` adds what a batch has left behind: it goes on from a trade only
  after its holder (`Past`), succeeds only at its end (`AtEnd`), and a request is answered
  with success only when its batches succeeded (`Replied`).
* **Ledger.** Under the invariant every action maps to a step of `EventLedger` or to a
  stutter: `Store` to `StoreEvent`, admitted by `Cleared` and `Attempt`; `Count` to
  `CountTrade`, admitted by `Attempt`; all others write nothing. Two lemmas carry an
  update of `stored[b][i]` over to the function of deliveries.
* **Holders.** A document is inserted only when there is none or the index is missing; the
  index is missing only while the process has not served, when nobody inserts, or after an
  interrupted set-up. So the invariant relates `indexed` to `init`, to the collections
  and to `interrupted`. `HoldingIsExact` and `HoldingBounded` are about what has been done; their
  invariant is about what may still be done. `AddUp`: for a user who is not marred, the documents
  and the trades in hand (`Held`) add up to the trades begun. `Within`: for every user and either
  way, the documents and all the attempts left (`Owed`) stay within `MAX_RETRIES` times the
  trades begun, so that a made update is paid for by the attempt it uses up. `AmountsFit`: what a
  handler is about to add is its trade, or less of it. The sums over documents and over handlers
  are `FoldSeq`'s recursion over subsets; `SumsExist` shows that it has a solution, `SumWithout`
  that any element can be taken first, and `SumMoved` that one element that changes moves
  the sum by as much.
* **Metrics.** The age of a cached price and the time it has left add up to at most
  `CACHE_DURATION + MaxTrip` (`AgesTogether`), which a write starts afresh and a tick keeps.
  `Learnt` says what a check knows at each await: `totalHolders` counts a subset of the at
  most twenty accounts it kept, and `TooFewHolders` that a volume of 3000 dollars asks for 300.
* **Prices.** `PriceInv` follows a price from the transaction to the job and back: at each
  await the price a check keeps is the one of the trade it keeps, in the dollars of the
  quote it keeps (`Known`), and the entry price is the one of the trade the position is of,
  or zero (`PositionIs`). It is stated by cross-multiplication, `p.n * token = sol * s * p.d`, so
  that it needs of `Ratio` only that `gcd` divides both numbers (`GcdDivides`). `ComparesTrades`
  then cancels the quote and both denominators.
* **Decoder.** `Executed` (the curve never runs dry, and the chain only accepts a
  purchase the curve can serve) and `Progress`, with two lemmas of arithmetic: `CeilingOfQuotient`
  (the difference between rounding up and down is 0 or 1) for the price, and
  `WholeDataPastReserves`: the number read from the whole data of an instruction is
  at least a whole word, so it exceeds any reserves. The latter shows that
  *no* sale is ever decoded, for any width of word: `PricedOnCurve` and
  `PurchaseLostForCause` are statements about purchases.

Assumptions on the constants: at least two connections, positive limits and periods;
`Null` and `Undef` no ids; transactions of the declared kinds, at least one attempt;
sources that answer at most twenty largest accounts
and natural numbers; a byte of at least two values, a new curve that is not empty, amounts that are not
zero (the program refuses to trade nothing).

The provers take no induction rule for an arbitrary formula. Where recursion has to be
unfolded (`gcd`, `FoldSeq`), `Euclid` and `SumsExist` first show that its equations have a
solution, and the proof goes by least counterexample: `LeastNatural` and `LeastSubset` follow from
the library's theorem about well-founded relations, whose parameters are sets.

Only model-checked: `SubscriptionsHaveCauses`, and everything under fairness (`CooldownEnds`,
`RestartResumes`, `EveryRequestIsAnswered`, `DecodingEnds`, `QueueDrains`, `StartCompletes`, and
what `ImplementsSession` says beyond `ImplementsSessionSafely`): a proof would need
ENABLED, which is out of the prover's reach.

## 5. Findings

Runs that violate what the repository says of itself:

1. `pool_rate`: `handleRequest` restarts the window at every request
   (`connection-manager.service.ts` 105), so the count grows for as long as no second passes
   idle. `types/connection.types.ts` 23 has `rateLimit: number; // requests per second`.
2. `monitoring_stop`: stop removes the id from the connection that is current, which
   other code may have switched; the listener stays and *Monitoring stopped* is answered.
3. `decoder_sales`: the sell case prices the whole instruction data instead of its
   first argument (`blockchain` 678): every sale that reaches the fallback is dropped
   while its batch reports success.

Seen while modelling, and shown by passing runs or left as comments:

* the recovery in `syncMonitoringState` calls `startMonitoring` with the flag it just
  restored, which returns at once (`blockchain` 183-187, under the comment *Recovery: restart
  monitoring if state was active but lost subscription*). After a restart of the
  process monitoring is reported and does not happen, and start answers false until
  somebody stops: the *deaf* session of `MonitorSession`, which `ImplementsSession` shows
  to be all that ever happens after a crash;
* a log handler that was running when stop succeeded may restart monitoring;
* the entry conditions can never be met (`NoEntrySignal`, `NeverEnters`): they ask for a
  holder per ten dollars of a volume of at least 3000 dollars, and `totalHolders` counts the
  twenty accounts of `getTokenLargestAccounts`, so no position is ever monitored unless
  by hand;
* the estimate that replaces a price when no trade is found adds 30 SOL to reserves that
  already contain them. It is above the profit target over the ratio of the same
  reserves for up to 150 SOL (`EstimateSignalsProfit`), four times it at 30: a position
  entered at a traded price and checked at an estimate reports a profit;
* an entry price that is `Infinity` is stored as `null`, and the first check of such a position
  closes it with a profit or, when the price is `Infinity` again, a percentage of it
  (`UnknownEntryClosesAtOnce`);
* a crash between `createCollection` and `createIndexes` leaves `token_holders` without
  its unique index for good (`interrupted`); a holder may then have several documents;
* a failed look-up of the decimals counts a trade at a thousandth of its amount, for good
  (`DecimalsKnown`);
* an `$inc` whose answer was lost is made again with the transaction, up to three times in
  all (`HoldingWithinAttempts`); the user then stays `marred`;
* overlapping cooldown timers: the first to fire ends a cooldown that a later request
  began, so a cooldown may be much shorter than its period;
* when a connection is near its limit, `monitorProgram` restarts instead of subscribing and
  returns `undefined` (`blockchain` 115), which `startMonitoring` assigns over the id the restart
  has tracked (`RestartedInstead`), although line 24 declares the field `number | null`. From
  then on start is refused, status reports monitoring, and stop finds nothing to remove;
* a stop that read its id before a restart may remove the *new* listener, if the new
  connection gave the same small number (`RestartResumes` excuses stops for this reason);
* GET status answers with `isMonitoring: {}`: the controller does not await it;
* a node that does not have a transaction yet makes the stream pass it over without a retry;
* two tokens monitored at once share one key: the second is dropped or takes over the
  chain, and the removal decided for one ends the checks of the other
  (`CheckedToTheEnd` excuses such chains as `crowded`);
* comments beside comparisons that differ at the boundary: `priceImpact: { $gt: 5 }`
  with *5% or more*, `ageInSeconds <= 300` with *less than 5 minutes*.

## 6. What is left out

* Floating point: rounding errors of the metrics, which are exact ratios here, and
  `calculatePriceImpact`; `sellImpact` is what the query for large sells finds.
* Transactions with several events: the stream path reads only the first
  `Program data:` log, the log path reads all of them; a position of a batch is one event.
* What nothing calls: `calculateTokenAmount`, `getVirtual*Reserves`, `buyToken`, `sellToken`,
  `getTokenHolders`, `__getTopHolders`, `_getTopHolders`.
* Slack, logging, request logging and authentication: nothing reads what they write,
  or they compare a header with a configured value.
* Unbounded recursion: while *every* connection is near its limit, restart nests without an
  await up to the depth of the stack, which `MaxNear` cuts off; and while Redis keeps rejecting,
  start and restart call each other for ever, which `MaxFailures` cuts off.

`PROJECT.json` lists the hazards of the code line by line, with the properties that
would catch each, and the reason where none does yet.

## 7. Plan

1. **`MonitoredPool`**, composing `Monitoring` with `ConnectionPool` by INSTANCE: near and
   healthy become what the pool says instead of a choice, and the part of `Calm` that
   forbids them a condition on the load of the pool.
2. **Safety behind liveness**: what the fair runs only show to end, as bounds that hold in
   every state, as `SubscriptionsHaveCauses` is one: the retries of a read, the attempts of a
   batch.
3. **`SubscriptionsHaveCauses` for every constant**: it needs the calls, failures and deaths that
   each subscription in progress may still use up, summed over tasks as `TokenHoldersProofs` sums
   over handlers.

Abstract specifications are kept free of recursion, invariants are conjunctions of
named parts, and each module with theorems has its proofs in a module of its own.
