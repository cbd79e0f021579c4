# A TLA+ model of the Polymarket trading platform

This directory holds TLA+ specifications of the services in this repository,
TLC configurations that check them on small instances, and TLAPS proofs of their
main safety properties for every value of the constants.  `PROJECT.json` is the
index: which definition models which lines (`map`), which run checks what
(`runs`), how each property can be broken (`mutants`), where the code is exposed
(`hazards`), where it disagrees with its documentation (`findings`), and what is
proved (`theorems`).

    tlc -workers 2 -config MCExecutionEngine_books.cfg MCExecutionEngine
    tlapm ExecutionEngine_proofs.tla

## 1. The system

The platform is a set of processes (docker-compose.yml) that share one Redis and,
for the alpha services, one SQLite file.  Nothing else connects them: prices and
switches are Redis keys, signals are pub/sub messages, orders are HTTP requests to
the exchange (Polymarket's CLOB).  A pub/sub message that nobody receives is lost.
Every service is one event loop; inside a service everything that awaits may be
overtaken by everything else.

| Component | State it keeps | Operations | Talks to |
|---|---|---|---|
| **Ingestion** (`ingestion`, Rust) | its WebSocket, books in Redis (`ob:*`), market pairs | fetch markets, subscribe, apply snapshots and price changes, heartbeat, reconnect | exchange -> Redis |
| **Signal core** (`signal-core`, Rust) | markets it scans | refresh markets, scan every pair, publish `signals:arbitrage` | Redis -> channel |
| **Execution** (`execution`) | `isRunning`, balance baseline, trade counter, cooldown per market, rate limiter | keep-alive loop with kill switch and balance guard; one handler per message: freshness, slippage, sign, submit both legs, record | channel -> exchange, Redis |
| **Settlement** (`settlement`) | `isRunning` | scan for complete boxes, sign a Safe transaction, submit to the relayer, record the merge | Redis -> relayer |
| **BTC 5-minute arbitrage** (`btc-5m`) | daily loss and volume, window in hand, rate limiter | find the window's market, scan the two books, buy both sides, record | exchange, Redis |
| **BTC 5-minute latency** (`btc-5m-latency`) | open price per window, exchange feeds, daily figures, pause | per window: watch feeds and oracle, fire one side, evaluate the outcome | exchange feeds, oracle, exchange, Redis |
| **BTC 5-minute momentum** (`btc-5m-momentum`) | open price per window, daily figures, streak pause, feed connection | per window: evaluate momentum, buy, wait for the outcome, record | Binance, exchange, Redis |
| **Crypto signals** (`crypto-signals`) | recorded windows, cooldowns, feed | loop over markets, publish `signals:alpha:crypto` | Binance, exchange, Redis |
| **Sports signals** (`sports-signals`) | discovered markets, cooldowns | poll scores, publish `signals:alpha:sports`, write SQLite | ESPN, exchange, Redis, SQLite |
| **Alpha executor** (`alpha-executor`) | duplicate filter, positions, exposure, peak capital, vertical sets | one handler per signal: switches, portfolio, limits, size, chunk loop, record | channels -> exchange, Redis, SQLite |
| **Dashboard** (`dashboard`) | session cookies, SSE streams | read keys, toggle the switches | Redis, SQLite |
| **Shared** (`shared`) | - | key names, types, phases, SQL statements | - |

### What is hard

* **Interleaving.**  The subscriber's callback is asynchronous and nothing
  serialises it.  Two signals for one market are two handlers; between reading the
  position and writing it lie several seconds of HTTP requests.  The keep-alive
  loop of the execution service runs beside its handlers.
* **Answers that never come.**  A request is abandoned after ten seconds; the
  exchange may fill it later, or may have filled it before the answer was lost.
* **Half a trade.**  A box is two fill-or-kill orders; a big alpha trade is a
  sequence of chunks.  Recording a trade is several Redis commands; any may fail.
* **Stale reads.**  The switches, the portfolio, the two books of a market are read
  at one time and used at another.
* **Time.**  Freshness limits, cooldowns, five-minute windows, guard intervals.
* **Restarts.**  Containers restart; what is in memory (cooldowns, duplicate
  filters, the balance baseline) is gone, and exchange and Redis go on.

### What makes each component correct

* Execution: what is booked was bought; a market without a book is left alone for
  the cooldown; a lasting drop of the balance stops trading; a switch that is off
  stops trading; both legs or none.
* Alpha executor: a trade is no larger than its caps allow, in chunks or not;
  exposure, positions and database agree with what was bought; exposure and vertical
  caps hold.
* Rate limiter: no more requests per second than the exchange allows.
* Ingestion: the book in Redis is the exchange's after a snapshot; a dead connection
  is noticed; each update is applied once and in order.
* Signal core: a published edge existed; the scan goes on after errors.
* Settlement: a box is merged and recorded once; no transaction of one nonce twice.
* BTC bots: one trade per window; volume and loss limits hold within a day and
  across restarts; the pause ends; the outcome belongs to the window traded.
* Signal generators: cooldown between two signals of a market; a window's open price
  is the price at its start; confidence grows with the move.

## 2. The plan

Modules, in the order they are written.  The order follows the money: first the
services that place orders, then what feeds them, then what settles.

| # | Module | Component | State |
|---|---|---|---|
| 1 | `TradeBook` | abstract: a trade is booked once, for no more than was bought | done |
| 2 | `ExecutionEngine` (+ `_proofs`) | execution | done |
| 3 | `AlphaExecutor` (+ `_proofs`) | alpha executor | done |
| 4 | `BookFeed` | ingestion's WebSocket session and book store | done |
| 5 | `BoxScanner` (+ `_proofs`, for both) | signal core, composed with `BookFeed` | done |
| 6 | `MergeService` (+ `_proofs`) | settlement | done |
| 7 | `BoxBot` (+ `_proofs`) | btc-5m: window loop, two sides in chunks, daily limits, restarts | done |
| 8 | `LatencyBot` (+ `_proofs`) | btc-5m-latency: risk checks, orders, outcome, pauses, limits of day and session | done |
| 9 | `BookWalk`, `MomentumBot` (+ `_proofs`) | btc-5m-momentum: a walk over a book, chunks, live and paper trading, settlement, streak pause | done |
| 10 | `PriceFeed`, `CryptoSignals` (proofs in `AlphaExecutor_proofs`) | the reconnecting feeds of three services; the crypto generator on top of its own | done |
| 11 | `HistoryStore`, `SportsSignals` (+ `_proofs`, for both) | the SQLite history of three services; the sports generator, which writes to it | done |
| - | token bucket of the order clients, fill optimiser of `btc-5m/src/arb-scanner.ts`, signed amounts | pure arithmetic that no other state depends on | not written |
| - | `dashboard` | toggles are steps of every model (`OperatorFlipsSwitch`, `Toggle`); sessions and pages are not modelled | not written |

Theorems worth proving, per module: type correctness, the inductive invariant, the
safety properties it implies, and `Spec => ImplementsX` for each abstract
specification.  No module to be proved about declares a RECURSIVE operator.

## 3. TradeBook: what a trading service promises

`TradeBook.tla` is abstract: per trade, what the exchange has filled (`bought`) and
what the service's books claim (`booked`).  Purchases may go unrecorded; nothing may
be booked twice or for more than was bought.  Both services are shown to implement it
(`ImplementsTradeBook`), by TLC on small instances and by TLAPS for all.

## 4. ExecutionEngine: the box-arbitrage execution service

**Code**: `execution/src/execution-engine.ts`, `submitBatchOrders` of
`execution/src/clob-client.ts`, the shutdown of `execution/src/index.ts`.

**State.**  `loop` is where `start()` and its keep-alive loop stand; `isRunning`,
`initialBalance`, `tradesSinceBalanceCheck`, `failedMarkets` are the class's fields
(`failedMarkets` counts down the ticks that are left, `sinceCheck` up from
`lastBalanceCheck`).  `handler[s]` is where the message handler of signal `s` stands,
`order`/`answer`/`bought` what became of its batch at the exchange, `booked` and
`history` the Redis statistics and list.  `audited` (trades the guard's last balance already
shows) and `startBalance` (the first balance of this life) are history variables for two
properties.

**Actions.**  One action is the code between two awaits.  The loop: `BootSwitchOn/Off`,
`InitializeBalanceTracking`, `Subscribe`, `LoopSwitchOn/Off` (the guard's cheap tests
are in it), `ReadBalance`, `TripSwitch`, `Halt`, `WakeUp`, `Unsubscribe`.  A handler:
`Admit` or `Refuse` (switchless: that is what the code does), `VerifySlippage`,
`SubmitBatchOrders`, `ReplySuccess`/`ReplyFailure`/`RequestFails`, `RecordStats`,
`PushHistory`, `FinishRecord` (the list is trimmed, the result returned, the trade counted), or
`RecordFails` before any of the three.  The environment: `Publish`, `ExchangeHandles` (each leg is
answered on its own, also after the client gave up), `BalanceChanges`,
`OperatorFlipsSwitch`, `Tick`, `Stop`, `Crash`, `Restart`.

**Runs.**

| Run | Instance | Shows |
|---|---|---|
| `execution_books` | 2 signals, 1 market, a guard that may look at any time (1.4 million states) | booked was bought, the guard's trade counter misses no trade whose recording came back, refinement of `TradeBook` |
| `execution_guard` | 1 signal, balances {0,8,9,10} (0: the key is missing), threshold 15 %, check after 1 trade or 1 tick, 1 restart, fairness (120,000 states) | a lasting drop below the balance this life began with halts, in one step or in two; handlers end |

*Bounds.*  The guard knows of handlers only the number of trades they recorded, so one is
enough for where it stands, and two for how they race on that number; no action looks at two
other handlers, so a third repeats them.  From 10, the balance may fall to 9, which passes the
guard, and from there to 8, which is 20 % below 10 but only 11 % below 9: a baseline that
followed the balance would never see it.  One restart reaches a second life with requests of the
first still at the exchange.  Ages and countdowns saturate, so time needs no bound.

*Fairness.*  `WF` of the loop, of every handler and of `Tick`: the event loop runs
whatever is ready, axios's timeout ends every request, timers fire.  `SF` of
`LoopSwitchOn`: reading the switch may fail and is tried again; it is assumed not to
fail for ever.  Nothing is assumed of operator, balance feed, exchange or supervisor.

**Met on the way.**  `ReplyFailure` cools a market down only if the *first* leg's answer says
that its book does not exist (execution-engine.ts:326).  `start()` returns when the switch is
off and nothing calls it again (execution-engine.ts:61): a process that came up with the
switch off never trades, while docs/DEPLOY_RUNBOOK.md:137 has it enabled after deployment.
The handlers look at `isRunning` only (execution-engine.ts:162), so one that is under way when
the switch is turned off (docs/SAFETY.md:33) still places its orders.
A trade whose `ltrim` throws (execution-engine.ts:389) is in the history, and the caller is told
that it failed: the guard's counter leaves it out, and only the guard's timer covers it.
The age of a signal is looked at when it is admitted (execution-engine.ts:277), not when its
order leaves.  Two signals for one market within the age limit both buy.  A restart takes the
balance of the moment as its baseline, so losses over several lives never add up to a drop.

**Proved** (`ExecutionEngine_proofs.tla`), for any finite set of signals, any markets,
ages, cooldowns and thresholds:

* `TypeCorrect`.
* `BookedTradesWereBought`, `HistoryFollowsStats`.  Neither is inductive: that the reply
  was a success says something of the exchange only because the answer a handler
  looks at is the one the exchange gave.  `BookInv` says where a handler stands for
  every stage of its batch; with `DownInv` and the guard's property below it makes `IInv`, which is
  inductive.
* `GuardMissesNoTrade`: `GuardCountsExecutedTrades` for any number of handlers, failed writes
  included.  The property is inductive with one addition, `DownInv`: a process that is down
  does not run, so the restart that starts the counter anew cannot leave a guard that runs
  with it.
* `EngineImplementsTradeBook`.  A batch is bought when both legs are.  A batch whose
  reply did not list a leg is left out of the mapping: the code takes an unlisted
  order for a success (`every()` on a short list), so for such a reply nothing can be
  promised (`BookedWasBought` says so too).

**Only model-checked**: liveness, `HandlersFinish` and `DropHalts`.

**Abstracted.**  Prices, sizes and profit: `VerifySlippage` may pass or fail.  The rate
limiter's wait is time spent in `submit`.  `SubmitBatchOrders` is one request; the
single-order calls of the client have no caller.  A Redis command is applied once or
fails; a client that resends after a reconnect is not modelled.

## 5. AlphaExecutor: the alpha service

**Code**: all of `alpha-executor/src` but the logger and the Kelly formula.

**State.**  Redis: `exposure`, `peak`, `windows`, `position`, `byVertical`; SQLite:
`positionRows`; memory: `isRunning`, `recentSignals` (the duplicate filter) and, per
handler, the portfolio it read (`snap`), the sum it is adding up (`toRead`, `sum`), the
size and what remains of it, the chunk under way.  `order`/`bought` are the exchange's.

**Actions**, in the order of the code: `Publish`, `CheckSwitches`, `ReadPortfolio`,
`Validate`, `CheckPosition`, `ListVertical`/`ReadCost`/`CheckUnrealized` (sports only),
`ListVertical`/`ReadCost`/`CheckVertical`, `DecideSize` (the remaining limits and
`recordSignal()`), `NextChunk`/`SubmitOrder`/`ChunkFilled`/`ChunkFails`/`EndLoop`,
`ShareCount`, `SetPosition`, `AddExposure`, `AddToVertical`, `PersistPosition`,
`ReadPeak`, `SetPeak`, `CountWindow`; `RedisFails` wherever a command may throw outside
a local catch.

**Data.**  Money is counted in units of the share price and rounded down to a unit,
where the code rounds to dollars and then to shares; the limits are compared after
multiplying by 100, so percentages are exact.  Kelly's formula returns *some* size up to
the phase's share of the available capital: the limits must hold whatever it says.  The
balance, the daily loss and the latency bot's volume are written by others and are read
afresh (any member of their sets) whenever they are read.  The two switches
(`TRADING_ENABLED`, `ALPHA_TRADING_ENABLED`) are one variable, their conjunction.

**Runs.**

| Run | Instance | Shows |
|---|---|---|
| `alpha_books` | 2 signals of 1 market, balance 40, 20 reserved, 6 exposed at first, chunks of 2 | per-trade and exposure caps of what is really bought, exposure between what the database shows and what was bought, the exposure cap unless handlers overlapped, refinement of `TradeBook` |

*Bounds.*  The numbers of `alpha_books` make every limit bite: of a balance of 40, 20 are
reserved, the exposure cap leaves 8 - 6 = 2 of room while Kelly may say up to 3 (10 % of
34) and the per-trade cap is 4, so sizes are cut, rejected and bought in one or two
chunks.  Two handlers suffice for the races on filter, position, exposure, peak and
vertical set, since every handler only reads and writes these shared keys.

**Proved** (`AlphaExecutor_proofs.tla`), for any signals, markets, balances, thresholds and
chunk size:

* `BooksAddUp`: `IInv` is invariant.  `ShareInv` accounts for each share: what was filled,
  what is on order and what remains add up to the size; an order that timed out stays
  counted, since the loop then ends for good.  `CapInv` carries the caps from the
  decision to the last chunk: the portfolio a handler read never changes.  `RowInv`
  says that a row is written only after the trade is over.
* `TradesKeepTheirCap`: what is bought for a signal, late fills included, never exceeds the
  per-trade cap.  The key lemma is `AllowedSizeKeepsCaps` about `runAllChecks`: whatever the
  bet, what it lets through keeps both caps, also when the trade is shrunk.
* `CapHolds`: a trade that is counted while the exposure still is what its handler had
  read keeps the exposure within the phase's cap: overlap is the only way to exceed it.
* `ExposureAddsUp`: `ExposureReconciles` for any number of signals.  The sums over signals are
  written as the number of their shares told apart (`SharesIn`), so that the theorems about
  finite sets apply; the property is not inductive, since a handler between INCRBYFLOAT
  and its row is in one sum only: `ExposureInv` counts by where the handlers are.
* `AlphaImplementsTradeBook`.

No liveness is stated: the
chunk loop ends on every answer, and on none (`EndLoop`, the request's timeout).

**Met on the way.**  The vertical cap (`VerticalAllows`, risk-manager.ts:196) is compared with
what is open without the trade itself, so one trade may take its vertical over it.

**Left out.**  `closePosition` and `recordDailyLoss` have no caller in any service; in this
code exposure only grows.  SQLite errors are swallowed by `shared/src/db.ts`, so
`PersistPosition` may silently do nothing.

## 6. BookFeed and BoxScanner: from the exchange's books to a signal

**Code**: `ingestion/src` (`websocket.rs`, `redis_store.rs`, `market_fetcher.rs`,
`main.rs`) and `signal-core/src` (`scanner.rs`, `redis_client.rs`, `main.rs`).

**State of `BookFeed`.**  Redis: `pairs`, and per token the prices of its levels (`zset`)
and their sizes (`sizes`), two keys as in the code.  Memory: `session` (where `run()` and
`connect_and_run()` are), `attempts`, `subscribed`, the two timers, the broadcast channel
(`shutdown`).  The exchange: its `book`s, what is `listed`, and the connection: `link`,
`announced` (the tokens whose snapshot was sent on it) and `wire`, what is under way.

**Actions.**  `Boot`, `GateShutdown/Opens/Waits`, `WakeUp`; `FetchMarkets` or `NothingListed`,
`Register`, `Connect`; then one message at a time (`ApplySnapshot` in one transaction,
`UpdateLevel` and `UpdateSize` as the two commands they are, `IgnoreMessage`,
`RejectMessage`), the timers (`CheckSwitch`, `HeartbeatExpires`), the end of the stream, the
shutdown.  Every way out of a session is `Closes` or `Fails`, as `run()` distinguishes them.
The environment changes books, sends, falls silent, closes, fails, crashes.

**State of `BoxScanner`** (which extends `BookFeed` and runs beside it): the cache
`marketPairs`, what is left of the scan, the market in hand and what has been read of its
two asks.  `calm` is a history variable: since the scanner turned to it, the market in hand
was in sync and unchanged.  The four reads are four actions, between which anything of
the feed may happen.

**Runs.**

| Run | Instance | Shows |
|---|---|---|
| `scanner_signals` | 1 market, 2 prices, 1 change, 1 disturbance, 2 messages under way, 2 attempts to reconnect, box 5, buffer 1, fairness (520,000 states) | Redis is the exchange's book when in sync, calm signals are true, a lasting box is signalled, the feed comes back |
| `feed_silence` | | a counterexample to a sentence of the documentation, see section 13 |

*Bounds.*  One disturbance (`MaxNoise`) ends a session at any of its steps, a level
half-written included, and the next session meets what it left; a change makes a
level disappear or come while its snapshot is under way.  With two
attempts, a session that fails is tried again inside the process after the delay, and a
second failure ends it: both of `run()`'s ways back are taken.  Tokens do not interact in
the feed, and the two of one market are what a box needs.  In `scanner_signals` heartbeat and
check fall due at one time, so that either may come first; in `feed_silence` the check comes first, as it does with the code's 100 ms and 60 s.

*Fairness.*  `WF` of the session's own steps, of its timers and of the restart
(docker-compose.yml: `unless-stopped`); `SF` of reading the switch, fetching and connecting,
which may fail, but not for ever.  Of the scanner, `WF` of its steps: `select!` does not
starve a branch.  Nothing is asked of the exchange.

**Met on the way.**  The shutdown signal can be received once (websocket.rs:193): when a session
has consumed it, the outer loop goes on to wait for the switch or to connect again,
CONTRIBUTING.md:46 notwithstanding.

**Proved** (`BoxScanner_proofs.tla`, both modules), for any markets, prices, sizes,
timers and bounds:

* `FeedInvHolds`, `CacheHolds`.  `CacheIsBook` alone is not inductive: it says nothing while
  messages are under way.  `WireInv` (the last message about a price says what the book is)
  and `StoreInv` (without such a message, Redis says it) are, together with `SessionInv`.
  The lemmas `Pop` and `Push` carry both over a message that leaves or enters the wire;
  every action is an instance of one of them, leaves the data alone, or ends the session.
* `ScannerInvHolds`, `CalmSignalsHold`.  The feed's invariant makes Redis constant as long as
  the market is calm, so the four reads see one book.  `MinIsLeast` (the least price of a
  set exists) comes from the well-foundedness of the natural numbers.

**Only model-checked**: the liveness properties.

**Left out.**  Bids (written the same way, read by nobody here), the metadata of a book,
statistics; `check_sequence`, which has no caller.

## 7. MergeService: boxes back into USDCe

**Code**: `settlement/src` (`merge-service.ts`, `index.ts`).  Chain, Safe and relayer are
external; of them the code relies on three things: a transaction executes only under the
nonce it was signed for, executing it takes the tokens, and what the relayer accepts it
executes, or gives up, later.

**State.**  Redis: the markets with all three ids (`described`), `settlement:stats`
(`merges`, `returned`), settlement's `rows` of the history.  The loop: `pc`, what is left
of the scan, the two balances being read, `boxes`, the market in hand and `signedFor`.
Outside: `balance`, `nonce`, `usdce`, the relayer's `pending` transactions and the
acceptances it has sent.  `logsInfo` is the configuration: whether the logger writes info lines,
as it does by default.  `prompt` and `untold` are history: so far every merge was executed
before the service looked at the chain again, no sale crossed one, and no reply, record or
transaction was lost; and how many submissions lost their answer or their record.

**Actions.**  One per call of the loop: `StartScan`, `LookAt`, `ReadBalance` (two calls in
either order; one that fails says 0), `TakeBox`, `ReadNonce`, then `Accepted`, `Refused` or
`TimedOut` (in which the relayer may have accepted), then the commands of `recordMerge()`,
each of which may fail.  Where info lines are written, `Accepted` ends in the catch instead: see
below.  `Crash` and `Boot` may come anywhere.

**Properties.**  The service keeps no record of what it has submitted: correctness rests on
reading balance and nonce anew.  `BoxesAreMerged`: this is enough never to get stuck.
`NonceInv` (part of `MergeInv`) says why: nothing is signed for a nonce the Safe has not reached.
It is not enough for the statistics, which count acceptances: a scan that overtakes the
relayer submits a box again, and what the relayer accepts again is counted again.
`PromptMergesAreExact` says when they are right, `MergesAreTold` that they are never too low but for
lost answers and records, whatever overlaps; and both say that where info lines are written they
stay empty.

**Run.**  `merge_boxes`: two markets (two boxes of one scan compete for a nonce), holdings of
0 to 2, minimum 1, one trade, one failure at any place, one useless submission the relayer
takes, with and without info lines (1.5 million states).  *Bounds.*  A trade can empty, halve or renew a box; a failure in one turn of the
loop meets an undisturbed next turn.  *Fairness.*  `WF` of the loop (a `while` in one
process, every call of which returns) and of the execution of what is pending; without the
latter nothing could be promised.

**Proved** (`MergeService_proofs.tla`), for any markets, minimum and bounds: `MergeInvHolds`,
`PromptMergesHold`, `MergesTold`.  `PromptInv` strengthens the second: what was accepted, and the
books as they are about to be (`BooksSettle`), the one transaction under way is executable and not
looked at (`UnderWay`), and what the scan has seen is still there (`SeenIsThere`).  `ToldInv`
strengthens the third: what is still pending was told, too, or lost its answer.

**Only model-checked**: `BoxesAreMerged`.

**Met on the way.**  The line that reports a merge (merge-service.ts:199) is given the result, whose
amounts are bigints; logger.ts:16 passes it to `JSON.stringify`, which throws on a bigint; and the
catch (merge-service.ts:212) takes the accepted merge for a failed one.  So at the default level
`recordMerge()` is never reached, `settlement:stats` and the history get nothing, and no error says
why the merge "failed" but that one; with `LOG_LEVEL` above info the merges are recorded.
A market needs `condition_id` to be looked at, which ingestion does not
write (redis_store.rs:400).  `BigInt(minMergeAmount * 1e6)` throws for a minimum that 1e6 does
not make an integer.  The service looks at no kill switch.  The hash it signs is not the
Safe's typed-data hash; the model lets the relayer refuse for that reason too.


## 8. BoxBot: the 5-minute box bot

**Code**: `btc-5m/src/index.ts`, `risk-manager.ts`, `executeDual` and `executeOneSide` of
`trade-executor.ts`; of `market-discovery.ts` and `arb-scanner.ts` that they find something,
nothing or fail.

**State.**  `pc` is where `start()` and `processWindow()` stand.  `stats` and `stored` are the
figures of the day in memory and in Redis, with their date reduced to whether it is
today's.  `left`, `filled`, `result` are the two concurrent calls of `executeOneSide`,
`bought` what the exchange filled of each.  `sec` and `passed` are the clock: ticks into the
window, and whether the window in hand is over.  `ledger` is what was booked on the day,
whatever process booked it; `remembered` turns false when figures are lost, which takes
a failing Redis or a process that ends between a booking and its storing, until midnight.
`clean`, `begun` and `entries` are history too.

**Actions.**  `Boot`, `LoadStats`, `EnsureSwitch`, `InitializeFails`; a window: `Discover` or
`NoMarket`, `Enter`; the scan loop: `CheckGlobal`, `CheckBtc`, `WithinLimits` or
`LimitReached` (which turns the bot's switch off) or `LimitFails`, `ScanFinds` or
`ScanNothing`, `LoopEnds`; the sides, chunk by chunk and interleaved: `OrderFilled`,
`OrderKilled`, `OrderThrows` (the order may be filled all the same); then `BothFail` or
`RecordArbTrade`, `PersistStats`, `Publish` or `PublishFails`, `CloseWindow` or
`RecordSkip`, `WaitForNextWindow`, `WakeUp`.  The environment: `Tick`, `NextWindow` (perhaps
midnight), `Toggle`, `Crash` (a stop by signal is one).

**Runs.**

| Run | Instance | Shows |
|---|---|---|
| `box_windows` | windows of 3 ticks, 2 chunks a side, loss limit 3 at 2 a chunk, 2 partial fills, 1 failing call or crash (230,000 states) | limits of the day; sides told right; the bot comes back every window |
| `box_hedge` | the same | a counterexample to the first sentence of `index.ts`, see section 13 |

*Bounds.*  Two chunks are what it takes for a side to be filled in part.  The limits are
small enough to be reached by losses (one partial fill of two chunks loses 4, the limit is 3) and
by partial fills (two of one chunk, after a box that won), each without the other; without either
check the day passes its bound.
`MaxProfit` ends the offers of a day that went well, or profits would grow without end;
`MaxFailures` counts every call that throws and every crash.  One failure meets every
place where a call may fail; after a second one the figures are forgotten.

*Fairness.*  `WF` of the bot and of the clock: requests end by their timeouts, the container
is restarted (docker-compose.yml:143).

**Met on the way.**  If both sides are refused after some of their chunks were filled,
nothing is booked and the loop buys again (index.ts:204).  Three partial fills end every
window's loop, but only a daily loss turns the switch off, and nothing turns it on again
on the next day.  An order that throws in a side of one chunk counts as refused,
even if it was filled.

**Proved** (`BoxBot_proofs.tla`) for any window, entry times, prices, limits and bounds:
`BoxBotInvHolds`, with `BoxBotInv == TypeInv /\ LimitInv /\ SideInv /\ EntryInv`, inductive.
`LimitInv` is the heart: while nothing was lost, what the bot knows of the day (Redis's
figures before they are loaded, memory's after) equals the ledger through every reset, and
a decision is only under way within the limits, also when midnight passes under it; one
booking then costs at most `MaxTradeLoss`, the dearer side in full (`ProfitBound`).  From it `DailyLimitsAreKept`;
from `SideInv` `SidesAreTold`; from `EntryInv` `OneEntry`.

**Only model-checked**: `WindowsGoOn`.

**Abstracted.**  Sizes are chunks of `maxOrderShares`; the last one's size, which absorbs a rest
below the exchange's minimum, is data.  What is worth buying is any size within the
cap.  Statistics nobody reads back (windows, volume, average edge) are left out.  A dry run
is the behaviour in which every order is filled.

## 9. LatencyBot: the 5-minute latency bot

**Code**: of `btc-5m-latency/src`, `index.ts`, `risk-manager.ts`, `window-tracker.ts`, the live path
of `trade-executor.ts`, and of `latency-signal.ts`, `probability-model.ts` and
`orderbook-checker.ts` what they decide; of `market-discovery.ts`, `exchange-feed.ts` and
`chainlink-oracle.ts` what they may answer.

**State.**  `pc` is where `start()` and `processWindow()` stand.  `stats` and `stored` are the
figures of the day in memory and in Redis (profit, losing streak, and whether their date is
today's), `session` the profit since the process started, `pause` the time left until
`pauseUntil`; `since` and `diverged` are `divergenceStartMs` (-1 when unset) and
`divergenceActive`.  `spent` is what `LatencySignal` counts against the position, which
includes orders that failed; `held` and `volume` are the `WindowTracker`'s, which do not.
`order` and `filled` are `executeSingle()`'s.  `view` says what a look at feeds and oracle
would show: prices near each other, apart, or stale.  Beside that there is the truth:
`bought` and `paid` are what the exchange really sold in this window, whatever process bought it,
`late` the chunks sold to requests that threw, `before` what earlier processes bought in it,
`restarts` how many restarts there were since the first of these chunks, `earned` what the day's
windows really brought.  `remembered` turns false when the bot cannot know of all of that (a chunk
of an order that threw, chunks of a process that ended, a window left without being settled,
figures lost by Redis), until midnight.  A crash forgets only what is in memory (`Forgotten`); the
exchange's account ends when the window is settled, or when the bot turns to the next one
(`TurnToWindow`, `PositionOver`).

**Actions.**  `Boot`, `Connect`, `LoadStats`; a window: `Begin`, `SkipWindow` or `StartWindow`;
the loop: `NoCheck` or, once a second, `CheckDivergence`, `CheckGlobal`, `CheckLatency` and
`Allowed`, `Blocked` (a daily loss turns the bot's switch off) or `BlockFails`; then
`Evaluate`, `Decide` or `NoDecision`; an order, chunk by chunk: `OrderFilled`, `OrderKilled`,
`OrderThrows`, and `RecordFill`; the end: `LoopEnds`, `Close`, `Resolved` or `Unresolved`, `Persist`,
`WaitForNextWindow`, `WakeUp`.  The environment: `SecondPasses`, `Tick`, `NextWindow` (perhaps
midnight), `PricesMove`, `Toggle`, `Crash`.

**Runs.**

| Run | Instance | Shows |
|---|---|---|
| `latency_windows` | windows of 2 ticks, a position of 1 at prices 1 and 2, limits 2 for day and session, a streak of 1 with a pause of 3 ticks, a divergence of any length, 1 failing call or crash, the bot's own switch turned (850,000 states) | real losses of a day and booked losses of a session stay near their limits; nothing is booked better than it was; a full pause after every loss of a streak; one side per window and process; the window's cost is within a position per process, but for the prices' spread and late fills; a halt ends when prices stay together; the windows go on |

*Bounds.*  It takes two losing windows to reach every limit, and a third that would pass it.  A pause
of three ticks is one that would be noticed if it were missing: the window after a trade passes
anyway.  A failure may be an order that throws, filled or not, or a crash with chunks at the exchange, after
which the same window is entered again: behaviours with both sides of a window, with a second position
in it, and with 2 paid for a position of 1 are all in the instance.  `Toggled` leaves out the master
switch, which ends a look or a round as the bot's own does.  Orders of two chunks are left to
the proofs, which hold for all.  A divergence counts at once (`DivergenceTicks` 0): how long it has to
last is not exercised.  `MaxProfit` ends the orders of a day or
session that went well, or profits would grow without end.

*Fairness.*  `WF` of the bot's own steps and of the clock: requests end by their timeouts, the
poll for the outcome after three minutes, the container is restarted
(docker-compose.yml:186).  Nothing is assumed of Gamma: `Resolved` is not among the fair
steps.  `DivergenceEnds` assumes that the bot goes on looking and that prices stay together.

**Met on the way.**  The poll for the outcome begins 15 seconds after the window's end, so the
window after one is always skipped (index.ts:337, :494).  A decision divides what is left of the
position by the best ask (latency-signal.ts:169) and orders at the worst price of the shares found
(:208): with `maxPositionPerWindow` "Max $ per window per side" (types.ts:233) more can be
spent, by the ratio of the two prices at most; `PositionCapHolds` says how much.  A restart ends the
pause, which is in memory only.  It also forgets the window's side and position
(latency-signal.ts:50): a process that comes back within the window may buy the other side and
spend a second position, and what the first one bought is settled by nobody, win or loss;
`OneSidePerWindow` and `PositionCapHolds` say what is left of the two limits.  `initialize()` resets the
profit of an earlier day but not its streak; `checkDailyReset()` resets both.
`divergenceStartMs` is kept over windows in which nobody looks, so that two brief divergences
far apart halt the bot.  The daily loss turns the switch off and nothing turns it on again.  A
chunk that was filled although its request threw is in no book at all.
`getTrendMultiplier()` and `getWindowPosition()` have no caller.

**Proved** (`LatencyBot_proofs.tla`) for any window, prices, position, limits, pause and bounds:
`LatencyBotInvHolds`, with `LatencyBotInv == TypeInv /\ OrderInv /\ WindowInv /\ LimitInv`, inductive.
`OrderInv`: only one side is spent on, and what is spent and the order in hand fit into
`MaxSpent == HighPrice * MaxPosition` (lemma `OrderFits`).  `WindowInv` ties the exchange's
account of the window to the bot's: what this process bought is held, or in the order's hands, or
was never told; what others bought is no more than `MaxSpent * restarts`.  `CrashWindowInv` hands the
one over to the other, with `PositionFits`; `TurnWindowInv` ends the account.  `LimitInv` says that whoever trades found the limits unreached, and that
`earned` is never below what the bot knows.  A result then costs at most `MaxSpent`
(`VolumeFits`) and is booked fairly (`ResultIsFair`).  From it `LossLimitsAreKept`,
`BookingsNeverFlatter` and `StreakPauseIsKept`; from `OrderInv` and `WindowInv`, `OneSide` and
`PositionCapIsKept`.

**Only model-checked**: `WindowsGoOn`, `DivergenceEnds`.

**Abstracted.**  Sizes are chunks of `maxOrderShares`; the probability, Kelly's formula and the walk
over the book are any order of the side(s) allowed that the position left can pay at the best ask,
at any worst price.  Fees are left out, as in the code.  Paper trading, the sockets of the feeds with
their reconnection, and the figures for the dashboard are not modelled.

## 10. BookWalk and MomentumBot: the 5-minute momentum bot

**Code**: of `btc-5m-momentum/src`, `index.ts`, `risk-manager.ts`, `momentum-signal.ts`,
`orderbook-checker.ts`, `executeSingle` and `executeChunked` of `trade-executor.ts` and the
fill of `paper-simulator.ts`; of `market-discovery.ts` that it finds a market or not.
`BookWalk` is pure: `AskLists` (filter and sort a book; levels of one price in any order),
`Liquidity` (walk it up to a price and a number of shares), `Chunks` (split an order).  The last
two are recursive functions.

**State.**  `pc` is where `start()` and `processWindow()` stand.  `stats`, `pause`, `stored` are the
figures of the day in memory, `pauseUntil`, and what Redis holds.  `order`, `chunks`, `filled`,
`cost` are `executeSingle()`'s.  `sec` and `passed` are the clock, as in `BoxBot`.  Beside that there
is the truth: what the exchange sold (`bought`, `paid`, `late` for requests that threw), what the
day's windows really brought (`earned`), and whether the bot could know (`remembered`).

**Actions.**  `Boot`, `Connect` (a process without a first price exits), `LoadStats`; a window: `Begin`,
`RecordWindow`, `NoMarket` or `Discover`, `DecisionPoint` (the sleep until shortly before the
end), `CheckGlobal`, `CheckMomentum`, `Allowed`, `Blocked` or `BlockFails`; `NoSignal` or `Decide`
(the whole of the liquidity check, for any side and book); live `ChunkFilled`, `ChunkKilled`,
`ChunkThrows`, on paper `PaperFill` (the book is fetched once more); `BetPlaced` or `BetMissed`;
`Close`, `RecordTrade` (the bot's price decides what is booked, the oracle's outcome what is
earned), `PersistTrade`, `WaitForNextWindow`, `WakeUp`.  The environment: `Tick`, `NextWindow`
(perhaps midnight), `Toggle`, `Crash`; `stop()` ends the process wherever it is and is a crash.

**Run.**  `momentum_windows`: windows of 2 ticks, both modes, four books (deep, two prices out of
order with an empty level, thin, empty), a loss limit of 6 at bets of up to 10, a streak of one,
2 failures.  The day's real loss stays near its limit, a bet within its cap, chunks add up, one
bet a window.

*Bounds.*  An order of up to five shares has chunks of two and three, the last with the rest
that is too small for one of its own.  Two failures let a request throw in a window, and the
bot crash or misjudge another.  `MaxProfit` ends the bets of a day that went well.  No
liveness is stated: the loop is that of `LatencyBot`, where it is checked.

**Met on the way.**  Settlement takes until five seconds after the end (index.ts:197), when the next
window has begun; the bot then waits for the one after it, so it never bets in two windows in
a row.  A bet may cost more than `maxBetUsdc`, by the ratio of the highest and lowest entry
price at most, since the size is `maxBetUsdc` at the best ask and is paid at the limit.
`getMaxBetUsdc()` has no caller, so the reduced bet it computes after losses is never made;
the test `!directionResult` cannot succeed.

**Proved** (`MomentumBot_proofs.tla`), for any books, prices, limits and lengths, all four properties
of the run and `TypesHold`:

* `OneBet`.  `DecisionInv` says that a bot which has not decided has bet only in lives before
  this one.
* `BetsAreCapped`, `ChunksFitAlways`, `LimitHolds`, from `IInv == BetInv /\ ChunkInv /\ LossInv`.  `BetInv`
  follows the shares and dollars of a bet from the decision to the booking; its step at
  the decision is the arithmetic of `evaluate()` (`ScaledFits`: scaled down to `maxBetUsdc` at the
  best ask, paid at the limit).  `ChunkInv` says that what is still to be sent is the split of
  what is not filled, which a split's tail is (`FirstChunk`).  `LossInv` says that the
  figures of the day flatter nothing, so that a bet is made only before the limit.
* What they rest on is induction over the walk of a book, over the split of an order and
  over a sum.  The library's induction theorems take a predicate as a parameter, which
  the provers cannot instantiate; `SetInduction` states induction about a set of numbers
  (a counterexample set has a least element, `WFMin`), and `AlongRecursion` and `RecursionExists`
  derive from it that a function defined by recursion on n exists and obeys its equation.

**Abstracted.**  Prices and shares count their smallest units; volatility and momentum are any
side; the totals kept for the dashboard and the session report are left out.

## 11. PriceFeed and CryptoSignals: prices of exchanges, and signals from them

**Code**: `exchange-feed.ts` of the latency bot, `binance-feed.ts` of the momentum bot and of
`crypto-signals`, and of the latter `index.ts`, `signal-generator.ts` and `market-scanner.ts`.

**State.**  Per feed: its sockets (`connecting`, `open`, `mute`: open but silent, `closing`, `closed`)
and who awaits each, `newest` (the field `ws`), the number of reconnect `timers`, the heartbeat,
`isConnected`, and whether the last price is fresh.  Sockets that are no longer `newest` are kept:
their handlers still run.  `CryptoSignals`: the prices `seen`, those noted for the window
(`opens`), the round of the loop (`pc`, `todo`, `elapsed`), the signal in hand, and a clock.

**Actions.**  One per callback: `Opens`, `Message`, `PlainCloses`/`TickerCloses`/`CombinedCloses`,
`Heartbeat`, `AttemptTimeout` (the promise's ten seconds), `PlainReconnects` and its siblings;
`Connect`, `FirstPriceTimeout`, `Disconnect` of `main()`.  The exchange: `HangsUp`, `FallsSilent`,
`GoesStale`.  The loop: `Idle`, `Look`, `Discover`, `ReadDirection`, `NoDirection`, `NoEdge`,
`CreateSignal`, `PublishSignal`, `PublishFails`, `RoundEnds`.  `Tick` lets each request take up to a tick.

**Run.**  `crypto_signals`: each of three services (both plain feeds, the ticker, the combined feed
under the signal loop), up to three sockets of a feed, two symbols and two prices, windows of 7
ticks, faults per service.  Signals end with their window; opens are of the window's first tick;
a feed always has a socket or a timer, a plain one exactly one; prices come back, opens too.

*Bounds.*  The third socket is what a promise that failed twice leaves behind.  The tick is a
request's limit, five seconds; with the code's numbers in such ticks the assumptions of the
module hold (`LongTtl` 12 + 6 answers <= `LongLeft` 24; `EntryEnd` 50 + 6 answers + `ShortTtl` 1 <= 61), in the
instance they are tight.  Switches that are off, and Redis errors, are the fault `Idle`.

*Fairness.*  `WF` of callbacks and timers, of the loop and the clock, and of prices: an exchange
that works sends them.  Exchanges stop working only as often as there are faults.

**Met on the way.**  In the two feeds with a promise a failed attempt is scheduled by the close
handler and by the timer that awaits it (binance-feed.ts:192, :245): attempts double while the
exchange is down, and sockets that are replaced stay open.  The late close of an old socket
clears heartbeat and `isConnected` of its successor.  The first promise cannot be kept by a
socket that was opened again, so a service whose first attempt fails exits.  `lastUpdateMs` of the crypto
feed is never read: on a silent feed signals go on with the last direction.  A symbol without
a price when its window is noted is silent all through it; after a start or a switch turned on
in mid-window, the price noted is of that moment.

**Proved** (second part of `AlphaExecutor_proofs.tla`, beside the executor that trades these
signals), for any setups, sockets, faults, symbols, prices and lengths within the
assumptions:

* `OneChain`.  `ChainInv` counts, per feed, its sockets that are not closed and its timers, and
  says that no socket of a plain feed is awaited by a timer, which is what schedules an
  attempt twice in the other feeds.  Then every callback turns a socket into a timer, a timer
  into a socket, or leaves the count.
* `EarlyOpens`.  `EarlyInv`: after a change of window that found the loop at rest, the clock
  waits at the first tick until the loop has looked.
* `SignalsExpire`.  `RoundInv` bounds the time since the round began by the answers it has had, two
  per symbol looked at and one for the markets.  The tick in which an answer is due is
  counted apart (`Late`), which makes the bound inductive.

`SignalsExpire` rests on the module's assumption that the lives leave room for the answers: it
holds for the numbers config.ts has, as computed above, and other settings could break it.

**Only model-checked**: liveness, `PricesComeBack` and `OpensComeBack`.

**Abstracted.**  Backoff delays are any time.  Prices are two, which is up and down.  The
confidence formula only says that there is an edge or none; whether the executor is in time is
its own check.

## 12. HistoryStore and SportsSignals: the history, and signals from scores

**Code**: `shared/src/db.ts` with its callers in three services; `sports-signals/src` but for the
formulas of the two probability models.

**State.**  `HistoryStore`: the `writer` looked at, its process's `handle` on the database (none, ready, or
`bare`: opened, but `initSchema()` failed), whether the tables exist, `rows` per table, the work
`done` and the `call` that is made next.  `SportsSignals` (which extends it): where the loop is, the
leagues left of the round, the scoreboard with its `age`, the markets known per league
(`active`), what was found out about each (`cache`, for good), the market in hand with its numbers
(`quote`), and `yesAsk`, history: the ask of a YES signal for the same market in this scan.

**Actions.**  `Record` is `getDb()` with a statement: the row is `Written`, or `NotWritten` in one of the
ways the code swallows, or there are `NoTables`.  The latency bot's two calls and the alpha
executor's two are synchronous: only the process's end comes between them.  The sports loop:
`Idle`, `ReadSwitches`, `ScanLeague`, `FetchScoreboard`, `Discover`, `EvaluateMarket` or `NoLiveGame`, then
per side `NoSignal` or `CreateSignal`, `Publish` or `PublishFails`, `RecordSignal`; `LeagueDone`,
`RoundEnds`, `Crash`.

**Matching.**  A market's title names two teams.  `MatchTeams` and `MatchNcaaTeams` say which game
fits, by the three relations the code has between a name and a team: `findTeam()` (`Means`), part
of ESPN's name (`PartOf`), beginning alike (`Alike`).  `Team1IsHome` decides which token is the home
team's by the title's first name alone: in the NBA it must be part of ESPN's (`PartOf`), in the NCAA
`matchNcaaTeam()` is content with its school (`SchoolIn`).  A first name is `Clear` if these relations
take it for no team but its own, and if it names a home team as ESPN does; of the second name
nothing is asked.

**Run.**  `sports_signals`: an NBA and an NCAA game with two markets each, two titles with nicknames (in
first and in second place), one with the name of the school and one about another school; a probability of 60, asks of 25 and 50, three times left; the three
writers; 2 faults, 2 signals.  Signals for both sides leave both edges; a signal is for the right
token unless its title's first name is unclear; the history
follows the work; every market of a live game is looked at again and again.

*Bounds.*  At 60 %, both asks are worth a YES signal or a NO signal at some edge and time left,
so that the checks tell them apart.  `StaleAge` 1 has ages that are new, old and too old.  The two
faults are any of: switches, ESPN, a game not live, Gamma, Redis, SQLite, the end of the process.
`MaxRows` bounds signals and rows; latency and alpha then have nothing left to do, which is why
the run does not check for deadlock.

*Fairness.*  `WF` of the round: each request is answered or times out.  The history is a call in it.

**Met on the way.**  A title that begins with a nickname of the home team that only `findTeam()` knows
swaps YES and NO (market-scanner.ts:112).  In the NCAA a name that begins another school's fits that
school's game; and the name of a school is found in the names of others
(ncaa-team-mappings.ts:45): with Northern Illinois at home, a title that begins with Illinois takes
Illinois for the home team and swaps YES and NO.  What is found first is never corrected.  The NBA's signals have no limit for the age of
their scores.  An error at Gamma replaces the markets known by those found before it.  An error
at one signal leaves the league after it to the next round.  A bare connection is kept for the
life of the process, and loses every row unless another service creates the tables; hence
`hadTables` in `HistoryFollows`.

**Proved** (`SportsSignals_proofs.tla`, both modules), for any games, teams, names, probabilities, asks
and bounds: `SportsTypes`, `HistoryIsFollowed`, `EdgesAdd`, `RightSides`, from
`SportsInv == StoreInv /\ PlaceInv /\ QuoteInv /\ KnownInv`.  `StoreInv` restates the history per table
(`RowsFollow`), so that a call is one more row or one more fault (`RecordStep`); `QuoteInv` carries the
edge of the YES signal over to the NO side, which sees the same score; `KnownInv` says that
whatever the cache holds was found by a title that fits its game, and the lemma `ClearSides` that such a
title, if its first name is clear, names the home team where the code thinks it does.

**Only model-checked**: `LiveGamesAreLookedAt`.

**Abstracted.**  Probabilities, prices and edges are in percent, times in minutes; the probability is
any of `Chances`.  ESPN's clock and period are the time left.  `closePosition` and the readers of the
database are not modelled.

## 13. Where code and documentation disagree

Each line is a run that expects a violation; the counterexample is a behaviour of the
code, and the property is the sentence it contradicts.

* `feed_silence` (`SilenceIsNoticed`, ingestion/src/websocket.rs:217).  timeout(heartbeat_timeout, read.next()) is created anew by every turn of the select! loop, and kill_switch_interval ends a turn every 100 ms: the timeout of 60 s never expires and a silent connection is kept for ever. .github/copilot-instructions 2.md:38 says "Heartbeat: Force reconnect after 60s silence".
* `box_hedge` (`GuaranteedProfitIsHedged`, btc-5m/src/trade-executor.ts:273).  When a chunk throws, the catch block reports the side a success if any chunk was filled (the normal path at :259 asks for all of them); with the other side bought in full, processWindow books the guaranteed profit of all shares. btc-5m/src/index.ts:3 says "Buys both UP and DOWN tokens when combined cost < $1.00 for guaranteed profit."

## 14. Assumptions and what is not modelled

* A Redis command takes effect once or throws.  Commands of one connection are answered
  in order.  Redis itself does not lose what it has acknowledged.
* The exchange answers for each order on its own; it may handle a request long after
  the client gave up.  It does not fill an order twice.
* Logging, formatting, metrics and Telegram messages are left out, but for the one log line that
  throws (settlement's, section 7).  So is signing, as
  data: signing may throw where the code's control flow shows it.
* Not modelled: random paper fills and session reports (they change no state the services
  read), SQL statements, deployment files (only the restart policy appears, as
  `Restart`, `Boot`), and what the plan marks "not written": arithmetic without state of its own, and
  the dashboard's pages and sessions, which the services never see.
* Every invariant, action property and refinement that a passing run checks is also proved.
  Liveness is model-checked only: the proof system has no rule for ENABLED.  Recursion is
  proved about where it is over numbers (a book's levels, an order's shares), by
  induction on sets of numbers; a sum over a set of signals is stated as a cardinality.
