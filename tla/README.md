# PulseTrade in TLA+

PulseTrade is a market data demonstrator: a Go server that runs a market per
symbol and streams it to phones over WebSockets, adapting the rate of each
session to the health of its connection, and a Flutter app that keeps an order
book, candles and a watchlist in step with that stream. This directory holds a
TLA+ model of the parts that have to be right when things happen in an awkward
order, the TLC configurations that check it, and TLAPS proofs.

Paths below are relative to the repository's root; `backend` stands for
`pulse_trade_backend/internal` and `app` for `pulse_trade_frontend/lib`.

## 1. The system

### Parts, their state and their operations

| Part | State | Operations | What makes it correct |
|---|---|---|---|
| Engine (`backend/market/engine.go`) | epoch, candles, summary, trade tape, paused flag | Run, applyEvent, Reset, Pause, Resume, Snapshot | one writer at a time; what is captured under the lock is published in that order; a reset is visible as a new epoch |
| Canonical book (`backend/market/book.go`) | levels of both sides, epoch, update id | Install, ApplyTrade, Refresh, Recenter, Window | each mutation is one update id; the published window is the best levels |
| Bus (`backend/market/bus.go`) | subscriptions with bounded mailboxes | Subscribe, Publish, Unsubscribe, Close | no subscriber blocks the engine; a critical event is waited for and its loss reported |
| Candles, summary (`candle.go`, `summary.go`) | open candle per interval, minute buckets | Apply, Roll, 24 h figures | equal to a recomputation from the trades |
| Coalescer (`backend/delivery/coalesce.go`) | newest window, what the client has, its position, dirty flag, candles, trades | OnBookWindow, TakeBookDelta, SnapshotSent, InjectGap, Reset | ranges are contiguous and their levels are the engine's |
| Tier machine (`backend/delivery/tier.go`) | automatic and effective tier, override, four streaks, age of the last report | Observe, OnMissingReports, Force, ClearOverride, Ingest | quick to fall, slow to rise, never stale |
| Session (`backend/delivery/session.go`) | command and outbound channels, sequence numbers, tickers, faults, delivery window counters, close reason | reader, writer and delivery loop | each number once, each goroutine's frames in order; an end names a cause; teardown ends |
| Manager (`backend/delivery/manager.go`) | live sessions, device table | register, unregister, drop, close all | a drained shutdown has recorded the end of each session it closed |
| Metrics store (`backend/metrics/{queue,writer,recorder}.go`) | ring queue, counters, writer state | record, batch, retry, Flush, Close | bounded; drops are counted; nothing accepted is lost in silence |
| Metrics database (`backend/metrics/sqlite`, `query.go`) | SQLite file with a write-ahead log, schema version, ten tables | open and migrate, write a batch, prune, checkpoint, queries | batches are whole or absent after a crash; any file can be opened again; only expired rows go; queries return the rows of their window |
| Providers (`backend/exchange`) | generator, replay cursor, fault decorator | Snapshot, Events | what they feed the engine is well formed |
| Transport (`backend/transport`) | none of their own | REST endpoints, upgrade, debug controls | answers reflect one state of the engine |
| Synchronizer (`app/domain/orderbook/order_book_synchronizer.dart`) | state, epoch, applied id, attempts, buffer | started, snapshot, delta, lost, retry, epoch change | no update is skipped, every gap is repaired within a budget |
| Order book bloc (`app/features/orderbook/order_book_bloc.dart`) | event queue, levels, generation, recovery flag, loads in flight | event handlers, effects | an answer is used only for what it answers |
| Connection bloc, socket client, connectivity, lifecycle | phase, backoff, timers, last welcome | connect, lost, ping, offline, background | one socket at a time; always reconnects when it may |
| Market bloc, candle merger | interval, history, live candle, request generation | select, history, live candle | a late answer never overwrites a newer selection |
| Watchlist, caches, diagnostics, debug console, widgets | items, cache entries, views | load, reorder, evict, render | what is stored survives a restart |

### How they interact

The engine loop mutates its book under a lock, captures the published window
before it lets go, and publishes afterwards. The bus offers the event to each
session's mailbox. A session has three loops: the reader turns client messages
into commands, the delivery loop selects over commands, bus events, the flush
ticker, the 250 ms watchdog, the retune channel and slower tickers, and the
writer takes frames off the outbound channel. HTTP handlers reach into the engine
(Reset, the REST order book) and into sessions (faults, drop) from goroutines of
their own. The app gets frames over the socket, in order, and images over REST,
in no order relative to the frames; both become events of the bloc, which
handles one at a time and starts loads that end later.

### What is hard here

* The engine publishes outside its lock, so resets and snapshots fall between the
  capture of a window and its arrival.
* The snapshot a session sends is the live book, and the diff that follows starts
  from whatever window the coalescer has.
* Mailboxes and outbound queues are bounded; each has its own way to lose something.
* A session's tier is moved by reports, by silence and by hand, and the ticker
  follows through a channel with one slot.
* The app's buffer outlives the connection that filled it; two loads can be in
  flight for one book; a cached image can answer either.
* Close, drop and shutdown race the loops they end.
* Two goroutines number frames before they queue them.
* Candle closes can be lost in the bus and in the session, and pages of history
  race them to the chart.
* Debug controls change engine and provider in several locked steps, beside the
  engine's own.
* A crash or a power failure can fall between any two statements of a migration, a
  batch or a retention pass.

The full list, line by line, is under `hazards` in `PROJECT.json`.

## 2. Modules

| Module | Models | Extends |
|---|---|---|
| `TierMachine` | tier machine, health tracker, the delivery loop's tier cases | |
| `TierMachineProofs` | theorems about it | `TierMachine` |
| `BookDelivery` | engine and book writes, bus mailbox, coalescer, snapshot and delta sending, fault switches | |
| `OrderBookSync` | the app's synchronizer inside its bloc and repository | |
| `MCOrderBookSync` | symmetry, and the drain loop as written in the code | `OrderBookSync` |
| `OrderBookSyncProofs` | theorems about both | `MCOrderBookSync` |
| `BookFeed` | one session and one app joined by socket and REST | `BookDelivery`, instance of `OrderBookSync` |
| `BookProofs` | theorems about it, `BookDelivery` and `BookLevels` | `BookFeed`, `BookLevels` |
| `MetricsStore` | producers, ring, writer goroutine, callers of Flush and Close | instance of `DropOldestQueue` |
| `MetricsStoreProofs` | theorems about it, and that it refines `DropOldestQueue` | `MetricsStore` |
| `MCMetricsStore` | symmetry of the producers | `MetricsStore` |
| `DropOldestQueue` | abstract: what the ring promises | |
| `Session` | a session's handler, reader and writer, the manager, the server's shutdown | |
| `SessionProofs` | theorems about it | `Session` |
| `CandleFeed` | candles from the aggregators over bus, session and REST to the app's chart | |
| `CandleFeedProofs` | theorems about it | `CandleFeed` |
| `Summary24h` | the bucketed 24 h summary, as operators | |
| `MarketEngine` | Run, candles, summary and tape, the debug controls, the provider's pacing | `Summary24h` |
| `MCMarketEngine` | symmetry of the callers | `MarketEngine` |
| `MarketEngineProofs` | theorems about it and about `Summary24h` | `MarketEngine` |
| `BookLevels` | the levels of the canonical book, and the ladder and price of the synthetic market | |
| `MetricsDatabase` | the SQLite repository and its queries, with crashes | |
| `MetricsDatabaseProofs` | theorems about it | `MetricsDatabase` |

### TierMachine

The variables are the fields of `TierMachine` and `HealthTracker`, plus the
retune token, the tier the flush ticker is armed for, and the last transition row
that was persisted. Each action is one case of `Session.deliveryLoop`:
`LatencyReport` is `handleLatencyReport` with `Ingest`, `Observe` and
`onTierChanged`; `WatchdogTick` is `OnMissingReports`; `ForceTier` and
`ClearOverride` are `handleTierOverride`; `Retune` re-arms the ticker. Round trip
times and jitter are numbers on one scale with two thresholds, classified by
`Classify` as the code does. Time is the age of the last report, counted up to
`ReportDegrade`, beyond which the code does not look.

`sinceFall` and `sinceRise` are history variables: reports since the automatic
tier fell and since it rose.

### BookDelivery

A book maps prices to quantities, zero meaning no level; one side stands for
both. `Mutate` is any of `applyTrade`, `applyProviderDelta` and `refreshBook`: new
contents that leave the side non-empty, one more update id, and the window
captured. `Publish` follows after the lock, and the window is lost if the mailbox
is full; because the mailbox also carries candles, trades and statuses, it may be
full whatever number of windows it holds. `Reset` comes from an HTTP handler.

The delivery loop is `HandleWindow` (a bus event), `Subscribe` and `Rebind` (the two
paths of `handleSubscribe`), `FlushGap`, `FlushIdle`, `Flush`, `FlushHold` and
`FlushReversed` (the paths of `flushBook` with each debug fault), `Reconnect` and
`Write`. `SendSnapshot(w)` is `sendSnapshot` with `SnapshotSent`; its two disjuncts
are a frame that was queued and one that timed out, and the code's disregard for
the difference is in the model.

`told` is the book of an ideal client that applies each frame, `truth` the engine's
window that book should equal, `following` says that client has a snapshot and
lost nothing since, and `based` and `coherent` say whether the base of each diff was
the image. They are history and guard nothing.

### OrderBookSync and BookFeed

`OrderBookSync` has the bloc's event queue, `inbox`; what arrives is appended and
one `Handle...` action takes the head. The synchronizer's transition function is
split by outcome: `DeltaOtherEpoch`, `DeltaIgnored`, `DeltaApplied`, `DeltaGap`,
`DeltaBuffered`, `HandleSnapshot` with `Install`, `HandleLost`, `HandleRetry`,
`HandleStarted`. Draining a buffer onto an image is a closed form (`Kept`, `Holes`,
`Drained`, `DrainedLevels`) that `MCOrderBookSync` compares with the loop of
`_drain`, a recursive function over the buffer, in every reachable state and for every image.
`loads` are the calls of `_loadSnapshot` in flight; one ends with a fresh image, the
cached one, or a failure. On its own the module lets the environment send any
image and any range. `BookFeed` replaces that environment by `BookDelivery`: the
socket hands `outbound` over in order, the REST endpoint answers with the whole
book at a moment of its own, and a dropped socket loses what was under way.

### MetricsStore

`buf`, `head` and `count` are `recordQueue`. A producer is in `enqueue`: `Enqueue` looks
at `closed`, `Push` is `recordQueue.push` under its mutex, `NoteDrop` counts the loss
after the mutex is gone; three steps, because two producers and Close can come
between any of them. A record is the number of its push.

`wpc` is the writer goroutine: `Pull`, `PollNone`, `TakeRequest`, `FlushTimer`,
`Housekeep` and `Stop` are the loop of `start`; `DrainBatch`, `DrainMore`, `DrainRest` and
`Answer` are `drain`; `WriteOk`, `WriteFails` and `RetryFails` are `commit`, entered
through `Commit` with the place it returns to; `Finish` and `FinishEnds` are `finish`.
A transaction commits whole or fails, at either attempt. `Flush`, `Close`,
`CloseStop` and `CloseRepo` are the callers, and `Receive`, `GiveUp` and `WriterGone` the
cases `batchWriter.flush` selects over: an answer, an expired context and an
ended writer may all be ready, and Go picks any.

`pushed`, `lost`, `refused`, `persisted`, `failed` and `mark` are history.
`DropOldestQueue` is the queue the ring stands for; the mapping reads the ring from
`head` (`Contents`), and `RingIsFifo` is the abstract specification under it.

### Session

`handler` is the goroutine of `ServeHTTP`: `Register`, `Start` (`Session.Run` stores its
cancel function), the delivery loop, `LoopExit`, `RecordEnd`, `Leave`, `Unregister`. In
the loop, `HandleCommand`, `HandleEvent`, `Flush` and `Tick` put into `todo` what their
handler is going to send; `Send` numbers the next frame (`nextSeq`), and
`EnqueueOk` or `EnqueueFails` ends the bounded wait for the outbound queue. The two
faults of `flushBook` are part of that: `HoldDelta` keeps a numbered delta in `held`, and
`ReleaseHeld` sends it after its successor; `Repeat` sends a delta once more under its
own number. Both make a "late" frame, whose loss the code does not look at. The
reader has the same two steps for its own replies, so numbers and places in the
queue are taken by two goroutines in any order. `ReaderTop` to `ReaderDrop` are
`readLoop`, with `ReadReply` for pings and frames it refuses itself, `ReadCommand`
for those it queues, and `ReadFails` for a socket that failed or timed out. The
writer takes a frame, looks at the context, and writes. `DebugDrop`, `InjectCommand`
and the server's `CloseAll`, `DropListed`, `Await`, `Exit` and `ServeFails` act from
outside. `Drop` leaves a reason at any time but cancels only a session that has
started.

What frames say is in `BookDelivery` and `CandleFeed`; here a frame is its number, its
sender and how a full queue treats it.

### CandleFeed

`ApplyTrade` advances both aggregators and leaves in `pubs` the events the engine
publishes next, a close before the change of the new candle. `Publish` puts one in
the mailbox, `PublishLost` drops it: a changed candle when the mailbox is full, a
closed one after its wait. The session coalesces changes (`HandleChanged`), sends
closes at once (`SendCandleClosed`, `LoseCandleClosed`) and flushes (`FlushCandles`);
a resynchronisation, the book's too, empties the coalescer (`EmptyCoalescer`,
`BookResync`). `Subscribe` switches the session's interval and sends the active candle;
a full command queue drops the message instead (`DropSubscribe`). `Disconnect` takes the
session with all that is under way, `Connect` starts another on 1m and repeats the
subscription the app last made (`spec`). `Reset` empties the aggregators: `history` is
what they hold, `fresh` says that no trade has come since.

The app merges frames (`Receive`, `Merge`, `TooOld`) and asks for history
(`SelectInterval`, `Refresh`). A load gets the server's candles as they are when the
server gets to it (`Serve`), or the page kept on the device (`ServeCached` from `cache`),
whether that page is fresh, or stale and stands in for a failure or an empty answer.
The answer passes the request guard, is merged and resubscribes, or is dropped
(`Answer`); a page of the server replaces the one on the device either way.

`ended`, `missed`, `behind` and `skipped` are history: the value each bucket ended with,
and the ways a close, a change or a subscription can miss the chart. A candle is its interval, its bucket and the last
trade in it, which fixes its figures; the figures are in `MarketEngine`.

### MarketEngine and Summary24h

The engine's goroutine is `StartWarmup`, `WarmupEvent`, `GoLive`, then `TakeEvent`,
`ApplyEvent`, `TakeTick` and `Stop`: it looks at its state when it takes an event and
applies the event under the lock later. `ApplyTrade` feeds the aggregators, the
summary and the tape; the book, which may refuse the trade, is in `BookLevels`. The
provider is `Generate`, `Emit` and `CloseStream`, with the gate that a pause closes. A
caller runs `Pause`, `Resume` or `Reset` in the steps the code locks separately,
`ControlState` and then `ReadStatus` and `SendStatus` for the status it publishes.

`Summary24h` is `summary.go`: minute buckets in a ring, cached figures, and a
recomputation of an extreme only when a bucket that held it expires. `log` keeps the
trades applied since the last reset and is what candles, summary and tape are
compared with. Times and prices are free, as a recording may have them in any order.

### BookLevels

A side is the sequence of its prices, best first. `Trade` is the generator's next
price, clamped to its band, and `ApplyTrade` with `consume`; `Refresh` is `Engine.refreshBook`:
recentre when `needsRecenter` says so, churn, replenish; `Install` puts back the ladder
the provider cached; `ApplyDelta` is what a recording may send. Each ends in `Commit`,
`checkOrdering`, which refuses to advance the update id when the book is crossed but
leaves the levels as they are. `crashed` stands for an index out of range. The code's
clamps at the lowest price are there: a trade that replaces the touch of the bids puts
the new level at 1 when it would fall below (`AtLeastOne`), `Recenter` does the same, and
`Replenished` stops short.

### MetricsDatabase

`wal` is the sequence of committed states since the last checkpoint; the last one is
the database. A crash keeps it, a power failure keeps a prefix
(`synchronous=NORMAL`). `Open`, `Migrate` and `MigrateFails` run the pending
migrations, each in a transaction with the row that records it. The recorders
(`RecordSessionStart`, `RecordLatency`, `RecordSessionEnd`, `RecordCandleClose`) fill a queue that
drops its oldest record; `TakePending`, `WriteBatch` and `WriteFails` are the
transaction with its retry; `StartPrune`, `PruneTable` and `PruneFails` the retention
pass, one DELETE at a time; `Checkpoint` shortens the log. Three tables stand for the
ten: sessions, inserted and updated later; samples, appended; candle closes,
replaced. Timestamps are cut to a millisecond, `Ms` ticks of the clock, when stored
(`Encode`). The queries are operators over the committed state, except `Summary`,
which reads twice. A latency read returns at most `MaxSamples` rows, the oldest of
its window (`Oldest`, `LatencySamples`); the pages of tier transitions keep the newest.

## 3. Runs

| Run | Configuration | Module | Distinct states |
|---|---|---|---|
| `tier` | `TierMachine.cfg` | `TierMachine` | 181 458 |
| `book` | `BookDelivery.cfg` | `BookDelivery` | 1 430 016 |
| `sync` | `OrderBookSync.cfg` | `MCOrderBookSync` | 3 945 801 |
| `sync_liveness` | `SyncLiveness.cfg` | `MCOrderBookSync` | 302 806 |
| `feed` | `BookFeed.cfg` | `BookFeed` | 2 569 827 |
| `metrics` | `MetricsStore.cfg` | `MCMetricsStore` | 1 980 846 |
| `metrics_liveness` | `MetricsLiveness.cfg` | `MetricsStore` | 68 415 |
| `session` | `Session.cfg` | `Session` | 934 642 |
| `candles` | `CandleFeed.cfg` | `CandleFeed` | 2 259 807 |
| `engine` | `MarketEngine.cfg` | `MCMarketEngine` | 2 416 918 |
| `ladder` | `BookLevels.cfg` | `BookLevels` | 1 052 770 |
| `storage` | `MetricsDatabase.cfg` | `MetricsDatabase` | 5 211 548 |

All pass. `SessionQueue.cfg`, which is not among the runs, checks the safety of `Session`
with a queue of two and one more number (8 349 424 states). A configuration names few properties; several are conjunctions of parts
that belong together, each defined and explained on its own in the module:

| Property | Parts |
|---|---|
| `TierSound` | `TypeOK`, `EffectiveTier`, `TimelineIntact` |
| `MovesJustified` | `FallEarned`, `OneStepAtATime`, `RowExplained` |
| `DeliverySound` | `TypeOK`, `PositionKnown` |
| `NothingGoesBack` | `UpdateIdsNeverRewind`, `NeverSentBack` |
| `SyncSound` | `TypeOK`, `BufferOrdered`, `Budget` |
| `WritesSound` | `TypeOK`, `OrderKept`, `RepoOutlivesWriter` |
| `LossVisible` | `NothingVanishes`, `DropsCounted`, `HealthShowsLoss` |
| `NumbersHonest` | `TypeOK`, `NumbersUnique`, `SenderOrder` |
| `EndExplained` | `EndNamesCause`, `PreciseReasonIsLuck` |
| `Teardown` | `SessionEnds`, `ServerExits` |
| `ChartSound` | `TypeOK`, `ChartOrdered`, `WrongCloseExplained` |
| `AtRestCurrent` | `QuietIsCurrent`, `SessionFollows` |
| `ReadModelsExact` | `TypeOK`, `CandlesExact`, `SummaryExact`, `TapeExact` |
| `ControlsAgree` | `PauseFreezes`, `QuietAgrees` |
| `BookSound` | `LevelsTyped`, `SidesSorted`, `NothingRefused`, `DepthKept`, `CrashNeedsDelta` |
| `Durable` | `TypeOK`, `AllOrNothing`, `OpenMeansUnwritten`, `ConflictFree` |
| `ReadsExact` | `WindowExact`, `SummaryCovers`, `PageNewest`, `BucketsPartition` |
| `RetentionExact` | `RowsOnlyExpire`, `CleanPass` |

Definitions marked "Mutant" in the modules are mistakes the code could have made;
with one of them in the place of the definition after it, TLC finds a property
violated. `mutants` in `PROJECT.json` pairs them.

### What the passing runs show

* **tier.** Delivery follows the override or else the automatic tier
  (`EffectiveTier`); a ticker at another tier's rate has a retune on its way
  (`CadenceFollowsTier`); the persisted rows end at the tier in effect and carry
  streaks that justify them (`TimelineIntact`, `RowExplained`); a completed streak is
  acted on at once (`NoOverdueMove`); rises and falls are earned (`RecoveryEarned`,
  `FallEarned`, `OneStepAtATime`). Under fairness a silent client ends at MINIMAL
  and a client that keeps reporting good health at FULL.
* **book.** The coalescer's position is the client's (`PositionKnown`); a range
  carries the window of the update id it ends with, whatever the bus lost and
  whatever crossed a reset (`RangeHonest`); the client's book is exact as long as no
  snapshot left the coalescer with another base (`ExactWhenCoherent`); ids do not
  rewind within an epoch; a client that follows is never sent back.
* **sync.** No update is skipped (`NoSkippedUpdate`); the buffer is ordered and
  within its cap (`BufferOrdered`, `TypeOK`); the recovery budget is spent correctly
  (`Budget`); a book that waits for an image has asked for one (`WaitingIsAsked`).
* **sync_liveness.** Once resubscriptions, retries and epoch changes stop, the book
  leaves `syncing` and `recovering` again and again (`Settles`); the closed form of the
  drain is the loop (`DrainAgrees`).
* **feed.** With REST and socket racing, a live book equals the engine's window at
  the id it reports, with three exceptions that the property names (`LiveExact`),
  and is never ahead of the engine (`NotAhead`). The run has no reset: with one,
  `NotAhead` fails in the way of counterexample 4 below, and section 4 says what is
  left of it.
* **metrics.** Rows are written in the order they were recorded and once each
  (`OrderKept`), so a session's row precedes the samples that refer to it; each
  record pushed is on its way, written, failed or pushed out (`NothingVanishes`); the
  drop counter is exact but for producers about to count (`DropsCounted`); the store
  is degraded exactly when its newest batch failed (`HealthShowsLoss`); Flush keeps
  its promise (`FlushHonest`); the database closes after the last write
  (`RepoOutlivesWriter`); the ring implements the abstract queue (`RingIsFifo`).
* **metrics_liveness.** The timer gets each record settled while the store is open
  (`RecordsSettle`); Close and Flush return though no context runs out
  (`CallersReturn`).

* **session.** No number is used twice, and each goroutine's frames leave in order,
  while those of two may overtake each other; the exceptions are the deltas that a
  fault repeats or reverses, which keep their order among themselves
  (`NumbersHonest`). The recorded end of a
  session names a cause, but the reader's precise one survives only when somebody
  else dropped the session just before (`EndExplained`). No goodbye is ever written to
  a socket (`GoodbyeUnheard`). A shutdown that waited for its sessions has recorded
  their ends before the metrics are flushed (`DrainedMeansRecorded`). A session one of
  whose goroutines ended is removed, and the server exits, whatever the clients do
  (`Teardown`).
* **candles.** The chart has one candle per bucket of one interval. A closed one has
  ended in the engine, and if its value is wrong the close was lost in one of the ways
  the property names, the connection, a reset and a page older than the reset among
  them (`ChartSound`); no page, fresh, late or cached, adds another. A
  finished candle is never rewritten and none goes back (`NoRewrite`); at rest the
  chart ends with the engine's active candle, and the session is on the interval
  shown, with the exceptions the property names (`AtRestCurrent`).
* **engine.** Candles for each interval and limit, the cached 24 h figures and the
  tape equal what a recomputation from the trades gives (`ReadModelsExact`); a pause
  lets at most one event through, and status, state and provider agree when no
  controls overlapped (`ControlsAgree`).
* **ladder.** Both sides stay sorted, but for bids that share the lowest price. As long
  as no provider delta came, the book keeps its depth unless the bids have no room
  below them, refuses a change only once bids share the lowest price, and never
  indexes an empty side (`BookSound`). An accepted refresh leaves a full, uncrossed book
  around the mid, with the same exception (`RefreshRestores`).
* **storage.** After any crash or power failure the file holds whole batches, an end
  that was written closes its session, and no constraint refuses a batch (`Durable`);
  it can always be migrated on (`Openable`); pages and buckets are
  what is stored, and windows and summaries too up to the limit of a latency read,
  which cuts rows off only behind that many older ones (`ReadsExact`); retention takes expired rows, all of them, and no
  others (`RetentionExact`).

### Where code and documentation disagree

Six more configurations, which are not among the runs, end in a counterexample;
`findings` in `PROJECT.json` quotes the sentence each one refutes:

1. `tlc -config BookSubscribe.cfg BookDelivery` violates `ExactAfterSnapshot`: `sendSnapshot`
   sends the live book and takes the coalescer's window as the base of the next
   diff; a level the image has and the window lacks is never deleted.
2. `tlc -config BookReplay.cfg BookDelivery` violates `UpdateIdsNeverRewind`: with the
   replay provider the book starts at epoch 1 and the engine's counter at 0, so the
   first reset repeats epoch 1 with update id 1.
3. `tlc -config SyncCachedRecovery.cfg OrderBookSync` violates `RecoveryAnsweredFresh`: one
   recovery flag serves all loads in flight; the first to end clears it, and a cached
   image can then answer a recovery.
4. `tlc -config BookOldEpoch.cfg BookFeed` violates `OldEpochDiscarded`: a buffer kept
   across a lost connection is drained onto a snapshot of another epoch without a
   look at the epoch of its ranges.
5. `tlc -config MetricsStranded.cfg MetricsStore` violates `NothingStranded`: a producer
   that saw the store open can push after the writer's last look at the ring; the
   record is neither written nor counted.
6. `tlc -config BookFloor.cfg BookLevels` violates `BidsDescend`: trades that exhaust the
   bids move their far end down until several levels are at the lowest price; then
   `checkOrdering` refuses each trade that leaves two of them there.

A seventh is shown by a property that holds: `GoodbyeUnheard` says that the goodbye, which
the comment above it says a client receives, is never written.

More was seen, and the models have it, without a run of its own:

* A watchdog that finds a session at MINIMAL leaves its streaks alone, so a
  recovery streak can span a silence; a client that never reports has age zero and
  stays at FULL.
* The streak counters stop at 16 (`tier.go:317`) while `config.go:285` accepts any
  positive `RecoverStreak`, so a larger one can never be reached.
* The comment at `tier.go:260` says an override is reported as its own reason, but the
  automatic rules overwrite the reason underneath it (`tier.go:206`).
* A live ladder can show a price that no longer exists: from (1), from an overlap of
  a range with the image, or from a REST image deeper than the window. `LiveExact`
  names the three.
* The comment at `order_book_synchronizer.dart:27` calls the error state terminal, but
  an image that arrives late installs from any state (`:317`).
* A second `Close` of the metrics store returns nil, where `recorder.go:441` says it
  observes the result of the first. A `Flush` that races the end of the writer may
  return nil over an answer that says its batch failed (`writer.go:446`).
* The writer does not wait for the ring's signal, so a full batch is noticed at the
  next pass of the loop, and at the latest when the flush timer fires.
* `FlushHonest` needs a ring that one pull can empty: a capacity of at most
  `maxDrainPerBatch`, as by default; the configuration demands only a minimum.

Of a session and the server:

* A shutdown may be recorded as `read_error` or `slow_consumer`: each `Drop` stores its
  reason over the last one, the reader's `Drop` over the reader's own (`session.go:286`).
* A session registered after `CloseAll` copied its list, or dropped before `Run` stored
  the cancel function, is not closed; the process exits over it.
* A listener that fails ends the process without `CloseAll` and without a flush. The
  comment at `main.go:278` gives the order of the shutdown differently from the code.
* A message the reader refuses is counted as a protocol error twice; a critical frame
  whose wait times out is not counted as dropped; nothing calls `Bus.Close`.

Of the candles:

* A refresh while a selection is loading supersedes the load and drops its
  subscribe, so the session stays on the other interval.
* History is loaded before the session is resubscribed, so a bucket that closes in
  between stays on the chart with the wrong close; the same follows when the bus
  gives up on a close, whose loss the engine does not look at.
* A close that falls into a lost connection is not repeated. The reconnect subscribes
  but loads no history, so the next live candle closes the old one with the value it
  had on the screen.
* A reset cuts the active bucket: its close is never published, and the aggregators
  forget their history while the chart keeps its candles. The history endpoint then
  answers with no candle until the next trade.
* A start from a cached page shows candles of an earlier time; those it had as open
  are closed with the value in the cache when a live candle comes.
* A session whose command queue is full drops a subscribe (`session.go:476`) and says
  so to the metrics only; the app does not repeat it.

Of the engine:

* A `Pause` during the warmup is overwritten by LIVE, while the provider stays paused;
  `Resume` sets a stopped engine to LIVE; overlapping controls can leave engine and
  provider disagreeing.
* A trade older than the summary's window evicts a newer bucket. Events taken in the
  PAUSED state are thrown away. A trade the book refuses still moves the last price.

Of the book's levels:

* The warmup applies trades without a refresh. ADAUSDT starts 4 820 ticks above zero, so
  a long warmup takes its far bids to the lowest price. A trade refused there also
  skips candles, summary and tape (`engine.go:273`), which `MarketEngine` does not show.
* A change that is refused keeps its levels under the old update id.
* A book crossed exactly at the mid is never mended by a refresh, and a trade on a
  side of one level panics. Both need provider deltas.

Of the database:

* A session open at a crash keeps its NULL end: it counts as active and is never
  pruned. Candle closes are never pruned.
* `RecordCandleClose` never sets the epoch, so a replayed market replaces rows, where
  the in-memory repository appends; that repository also summarises latency and
  delivery without a window, and excludes rows of the bound's millisecond that SQLite
  includes.
* The comment in `prune.go` speaks of a transaction, but each DELETE commits by
  itself. A latency query that meets its limit of 200 000 rows keeps the oldest, so a
  window or a summary lacks its newest samples.

### Bounds

Bounds sit in the guards and are named constants.

* Tier: streaks 2 and 3 keep the order of 3 and 5; a cap equal to the longer streak
  is the tightest one that leaves it reachable; hold 2 and degrade 3 make room for an
  age below, between and past both; three samples reach each band by either measure.
* Book: two prices and depth 1 make a level leave the window while it stays in the
  book; `MaxId` 2 and `MaxEpoch` 1 give a window from before a reset, one after it
  and one lost; a mailbox of 2 holds an old and a new epoch together; `MaxQueued`
  bounds only the queue no property is about.
* Sync: ids up to 3 make gaps, overlaps and covered ranges; a buffer of 2 is the
  smallest with an inside; one attempt reaches the terminal error from both sides;
  two loads are what it takes for one to answer for the other. Levels do not affect
  control, so `sync` has none and `sync_liveness` has one.
* Feed: the smallest instance in which a REST image falls between two ranges.
* Metrics: two producers can be about to count a drop at once; four records in a ring
  of two wrap it around and push records out while a batch of two is in commit; a
  `MaxDrain` of two makes Flush and `finish` meet their limit; a flusher beside the
  closer makes one request wait behind the other. The liveness run has one producer
  and two records, as it is about who waits for whom.
* Session: with an outbound queue of 1 a frame waits while another is in the writer's
  hands and two more are numbered, and a full queue is met at each send; one waiting
  command fills its channel; `MaxSeq` 2 stops new work, not the frames begun, so a
  subscribe's two frames, the successor of a held delta and the goodbye still follow.
  `SessionQueue.cfg` has frames of both goroutines in the queue.
* Candles: three trades close the short interval twice and the long one once; one
  place in each queue makes every send meet a full queue; two loads supersede each
  other. `MaxWork` 4 stops three trades with more than one load, or two loads with more
  than two trades. Losses, reconnects and resets are not bounded.
* Engine: a window of two minutes and times 0 to 2 let a bucket expire, be joined late
  and be reused by a trade that is too old; spans of 1 and 2 put two buckets of one
  interval into one of the other; a depth of 1 and a tape of 2 wrap around; two callers
  overlap; three trades reach all of that after a warmup of one.
* Ladder: three levels with two kept make churn both possible and refused; four changes
  of up to 2 in price cross the band, exhaust a side and recentre; an anchor of 9, the
  lowest that admits the first ladder, lets the bids reach the lowest price; deltas on, as the
  properties themselves say when they need them off.
* Storage: three records make a start, a sample and an end; a clock of 3 with two ticks
  to the millisecond has two instants that share one and rows older than each
  retention; one row per DELETE makes a pass take several; one failure and one crash
  fall anywhere; a latency limit of 1 is met by the second sample. A file of an earlier version and an empty one are both initial.

`DrainAgrees` ranges over one price with ids up to 2 and a buffer of up to 2.

### Fairness

`TierMachine`: weak fairness of the watchdog and of the retune case, both cases of a
`select` in a loop that never blocks for ever (outbound sends time out). Nothing is
assumed of the client; a property that needs it to report says so in its premise.
`OrderBookSync`: weak fairness of the bloc's handler, which Dart's event loop runs,
and of the end of each load, which the HTTP timeout bounds. Nothing is assumed of
the socket.
`MetricsStore`: weak fairness of the writer, which waits only in a `select` with a
timer among its cases, of the end of Close and of the receipt of an answer; strong
fairness of the timer and of the cancellation, since Go's `select` picks at random
among the cases that are ready and so cannot pass one over for ever. Nothing is
assumed of the producers, and no context has to expire.

`Session`: weak fairness of each goroutine's own steps, since every send and every
write has a deadline, and of the main goroutine; strong fairness of the delivery
loop's notice of its cancelled context, one case among others of a `select`. Nothing
is assumed of the client: it need not write, read or close.

`CandleFeed`, `MarketEngine`, `BookLevels` and `MetricsDatabase` state safety only.

## 4. Proofs

TLAPS checks the proof modules from nothing:

| Module | Theorems | Lemmas | Obligations | Beyond the module's own assumption |
|---|---|---|---|---|
| `TierMachineProofs` | 9 | 13 | 373 | |
| `OrderBookSyncProofs` | 4 | 35 | 1495 | |
| `BookProofs` | 13 | 108 | 3728 | `BootEpoch = 0`, except for `BookLevels`; for `NotAhead` see below |
| `MetricsStoreProofs` | 4 | 49 | 1889 | `Capacity <= MaxDrain`, for `FlushHonest` only |
| `SessionProofs` | 5 | 26 | 950 | |
| `MetricsDatabaseProofs` | 4 | 89 | 3535 | |
| `CandleFeedProofs` | 4 | 109 | 4462 | |
| `MarketEngineProofs` | 4 | 94 | 3738 | |

Each theorem holds for every value of the constants that the module's assumption
admits: all sizes, capacities, thresholds, sets of prices or callers, and all values
of the bounds that keep TLC's runs finite. The inductive invariants were checked by
TLC before they were proved. Each proof has the same plan: `Init` gives the invariant,
one lemma per action or per part keeps it, and the property follows from it.

### TierMachineProofs

Assumption: `TierAssumption`, which is what `config.Validate` enforces. Theorems for
all thresholds, streaks, caps and ages: `TypeOK`, `EffectiveTier`,
`CadenceFollowsTier`, `TimelineIntact`, `NoOverdueMove` as invariants, `RecoveryEarned` as
an action property, and `MovesJustified`, which has two action properties and an
invariant. `TierSoundCorrect` puts the parts of `TierSound` together.

`NoOverdueMove` is not inductive: nothing in it relates the counters to each other.
`StreakOrder` adds that. The minimal streak is within the bad one and the good
streak within the recovery one; good and bad, and minimal and recovery, are never
both positive; the good streak is no longer than the reports since the last fall,
and neither is the recovery streak at MINIMAL. The last two are what
`RecoveryEarned` needs, and the reason `DropTo` has to reset the streaks. `FallOrder` is
their mirror image for `FallEarned`: the minimal streak, and at FULL the bad one, are no
longer than the reports since the last rise, because a rise ends both.

### BookProofs: the levels

`BookSound` and the action property `RefreshRestores`, for every depth, churn limit, spacing,
band of prices and number of calls, from `LevelsAssumption`. It asks of the prices only
that the first ladder and the generator's band are above zero; however far the trades
then take the bids, the code's clamps are in the model and the theorem covers them.

`SidesSorted` compares neighbours and is not inductive: a deletion makes neighbours of
levels that were none. The proof uses the order of all pairs (`Sorted`), with one
direction for bids and one for asks, so that each operation is treated once: a loop
outwards (`OutwardSide`), a join (`JoinedSide`), a selection by churn (`ThinnedSide`), a
replacement of the touch (`ReplacedSide`), and the insertion, deletion and trim of a delta
(`AppliedSide`). The order is strict except at the lowest price, which bids may share. The
invariant, `LevelsInv`, adds that prices are positive, that the ladder a reset installs is
whole (`BootInv`), and that until a delta comes the book is whole as well, with bids that
end at 2 or lower if they are short, so that a change is refused only when the bids are
not strictly descending (`OwnInv`). TLC checked it on three changes (120 392 states).

### BookProofs: from the engine to the socket

Assumptions: `BookAssumption`, and `BootEpoch = 0`, that is, a provider whose snapshot
carries the epoch the engine starts with. `BookReplay.cfg` shows why the second
one is there. Theorems for all prices, quantities, depths, capacities, faults and
bounds: `TypeOK`, `PositionKnown`, `RangeHonest` and `ExactWhenCoherent` as invariants,
`UpdateIdsNeverRewind` and `NeverSentBack` as action properties; `SoundDelivery` and
`OnlyForward` state the conjunctions the run checks.

The invariant has an engine side and a session side.

* `EpochInStep` and `QueueOrdered`: the book's epoch is the engine's counter, and
  windows on their way are strictly ordered by epoch and id, none from the future.
* `CursorBehind`: the coalescer's position is one the engine has reached.
* `Undelivered`: while the coalescer has something to send, its window is the one
  with its id, and each window of its epoch still on its way is newer. This is why
  taking the larger id and the last window (`OnBookWindow`) cannot disagree: a stale
  window is possible only when the client has everything, and then nothing is sent
  under its name.
* `BaseKnown`: a right base is what the client has. With the lemma `OverlayDiff`,
  that overlaying the difference of two books on the older gives the newer, it
  carries exactness over a delta.

`NeverSentBack` uses `CursorBehind`: a snapshot is the live book, and the client is at
the cursor or before it.

### OrderBookSyncProofs

`SyncSound`, `WaitingIsAsked` and the action property `NoSkippedUpdate`, for every frame the
environment may send, every cap and budget and any number of loads. `WaitingIsAsked` needs
one more part: a recovery that is pending has a load in flight (`PendingLoads`).
Without it the flag could outlive the load that was going to clear it and refuse the
next recovery. `NoSkippedUpdate` rests on the shape of the buffer (`BufferOrdered`: each
range ends past the one before and leaves no hole after it) and on the lemmas about `Drained`, that
the drain takes the ranges in front of the first hole and no others.

`DrainAgrees` is proved for every buffer that the invariant admits and every image. In an
ordered buffer the ranges an image does not supersede are the last ones, and only the first of
them can leave a hole (`KeptFacts`); so after any number of rounds the loop has either
stopped at the image or reached the last range it passed (`Reached`, by induction over
the rounds in set form). The function the loop defines is shown to exist first
(`LoopExists`), since nothing is known of a recursive function until then.

### BookProofs: from the engine to the screen

The composition of server and app. `LiveExact` compares the app's book with a window the
engine had, and the engine keeps no record of those. So the invariant, `FeedInv`, says
that there is one: a function from epoch and update id to windows with which each
window in the mailbox, each frame under way or buffered, each image being loaded or
cached, the coalescer's own book and the app's book agree (`ServerTrue`, `ReceivedTrue`,
`ShownTrue`). A step of the engine extends the function at a stamp not reached before,
every other step leaves it alone. It stands on the invariant of the
delivery path, which says what a range carries.

`LiveIsExact` holds for any number of resets, faults, lost connections and loads.
`NotAhead` does not: a range of an old epoch drained onto a newer image (counterexample
4) advances the app past the engine. It is proved in two forms: while the drain keeps
to one epoch, which is `OldEpochDiscarded`, the sentence the code's comment states and
does not implement (`NeverAhead`), and without a reset (`NeverAheadUnreset`), which is
what the run checks.

### MetricsStoreProofs

The invariant's centre is `LineInv`: the records persisted, in commit, pending and in
the ring are one strictly increasing sequence, and together with the failed and the
lost ones they are exactly the records pushed, none of them in two places. Order,
`NothingVanishes` and the one place of each record are read off it. `OkRing` says which
slots hold records; the lemmas on `Slot`, `Put` and `Taken` are the arithmetic of the
wrapping head, from which the refinement follows: a push is the abstract push, with or
without the loss of the oldest, a pull the abstract pull, every other step a stutter.
The drop counter needs finite sets of producers in the middle of `enqueue` (`CountInv`),
and their finiteness comes from the bound on records, not from an assumption on
`Producers`.

`FlushHonest` adds `FlushInv`: the writer serves one caller; past the last look at the ring
nothing pushed before the call is in it; the last batch takes all that is pending. The
second part is where `Capacity <= MaxDrain` is used.

### SessionProofs

Numbers and places are taken by two goroutines, so the invariant speaks of the frames
in all places at once, both hands, the held delta, the queue and the writer: none has a
number not given out (`Numbered`), and the frames of one sender are in order place by place
(`InOrder`). A late frame may come behind any frame that is not late. That late ones keep
their order needs `HeldBack`: a delta is held back only by the handler, which has no late
frame in hand meanwhile, and it is newer than each late one sent before.
`GoodbyeUnheard` needs `GoodbyeLate`, that a goodbye anywhere means an ended context;
`EndExplained` needs `ReasonKnown`, who may have left which reason; `DrainedMeansRecorded`
needs `Recorded`, which relates the manager's list to the handler's place.

### MetricsDatabaseProofs

`Openable`, `Durable`, `ReadsExact` and the action property `RetentionExact`, for any number of
sessions, candles, records, failures, crashes and power failures.

A power failure may take the file back to any state in the log, so the invariant is
about each of them, not about the newest: each row was issued, each end was issued for
its session, each batch is whole or absent, the schema is that of its version (`WalInv`,
over `RowsTrue`, `EndsTrue`, `Whole` and `Versioned`). What waits in memory is newer than
everything in any of these states (`NewerInv`); that is why an end never meets a row it
cannot belong to and why no insert conflicts. `BatchesInv` says that a batch is the one
in commit or that no part of it waits, which is what keeps a retried batch whole.
`CleanPass` needs `CleanInv`: once a pass has come to the sessions, no expired sample is
left; rows written in between are younger than its limit. `ReadsExact` needs an order of
rows that is total (`RowOrder`) and the division of timestamps into buckets; that a row
the limit leaves out has `MaxSamples` older ones before it, all of them returned, is a
count of the rows in front of it. The property
ranges over pages of one and two rows and over the finest bucket, in the proof as in the
run.

### CandleFeedProofs

`ChartSound` and `AtRestCurrent` as invariants and `NoRewrite` as an action property, for
every capacity of mailbox and queue and any number of trades, loads, losses, resets,
reconnects and changes of interval, from `FeedAssumption` alone. The inductive invariant `IInv` follows a candle on
its way:

* `EngineOK`: the buckets that ended are in order of time and then comes the active
  one, which carries the number of the last trade. `HistoryOK`: what the aggregators
  hold after a reset is in order and part of that.
* `FlowOK`: what is under way is a candle of the engine, not newer than the engine's
  own (`Bounded`), and a close is final (`Final`). `FlowOrder` is the order of the three
  queues and the coalescer taken together: changes of an interval never overtake each
  other, and a close that follows a candle of a later bucket has been missed already.
  The coalescer makes this part necessary: it holds a change back while a close passes.
* `AppOK`: a page, under way or on the device, is in order and holds candles the engine
  had, the closed ones final (`PageOK`); the guard stands for the load of the interval
  shown; and somebody still has to tell the session the selected interval, or it knows
  it and the next session will be told (`Follows`).
* `ChartOK`: each candle of the chart is one the engine had, and a bucket that has ended
  is missed, shown as closed or on its way (`Settled`). `WrongCloseExplained` is not
  inductive without `Settled` and `FlowOrder`: when a later candle closes the last one on
  the chart, they say that the right close was shown before or is missed.
* `Current`: the active candle is on its way, held by the coalescer or the last of the
  chart, unless a named loss put the interval behind.

The merge of a frame and of a page is treated once, as a sequence with one candle added
or replaced, and the parts are carried over it. TLC checked `IInv` before the proof on
three trades with one load (4 610 922 states) and two trades with two (2 811 773).

### MarketEngineProofs

`ControlsAgree` and `ReadModelsExact`, from `WindowAssumption` and `EngineAssumption`, for
every size of window, ring, tape and buffer, every set of spans, times and prices, and
any number of handlers, trades and controls. The two have an invariant each.

`ControlInv`: no event is applied in the PAUSED state but one that was checked before
(`PauseInv`); a handler publishes exactly when it holds a status; and while no two
controls overlapped, nothing was called before the loop (`Untouched`), Run's own status is
sent with every handler idle (`RunPublishes`), and at most one handler is between its
steps, where state and provider are what its next step expects (`OneControl`).

`DataInv` is what each read model is of the trades applied, by induction over the trades:
only `ApplyEvent` and `Reset` change it.

* `TapeInv`: the tape's ring holds the newest trades, with the place of its head.
* `CandleInv`: the closed ring holds the newest buckets in order, each with the OHLC of
  exactly the trades that were in time for it, and the active candle is the newest.
* `SummaryInv`: there is a set of places in the log that the summary holds (`Holds`). Each
  of its trades is in the slot of its minute and no other, so a slot has one minute, and
  the totals, the cached high, low and open and the number of buckets are those of
  the set. It is exactly the window unless a trade came too late.

The set need not be the window for the figures to be consistent, and that is what makes
the proof go through the middle of `advance`: `ExpireHolds` says that one expiry takes one
slot's trades out of the set, with whichever extremes it recomputes; `PassedHolds` that the
loop over the minutes takes the older ones, no others; `FreedHolds` and `AbsorbedHolds` do the
same for a slot taken over by another minute and for the trade itself. The window's
length matters in the arithmetic of slots: two minutes of one window never share a slot
(`SlotApart`). The reference volume is a recursive function over finite sets of places,
which is shown to exist by an induction in set form (`Induct`).

TLC checked `ControlInv` on the instance of the run, and `DataInv` with its set of places
found by enumeration on a window of three minutes, four trades and five times (171 950
states).

### What is only model-checked

Liveness under fairness: `SilenceEndsMinimal`, `GoodHealthRecovers`, `Settles`,
`RecordsSettle`, `CallersReturn`, `Teardown`. The prover does not reach it.

Every other property of the runs is a theorem, under the assumptions of the table above.

## 5. Not modelled

* The app's connection bloc and socket client: backoff, pings, offline, background.
  The models of the app take a lost and a restored connection as given, with the
  subscription that is repeated after it. The order book's own subscribe
  (`order_book_bloc.dart:183`: 1m, and no candles), which the app sends when a market
  starts and means the chart's to follow (`market_page.dart:84`), is not among those of
  `CandleFeed`.
* A restart of the server between two connections of the app.
* The watchlist and the cache files, their age limits included; diagnostics and the debug
  console, which show what other parts decided.
* The batch of trades in the coalescer; the delivery window counters, which the writer
  and the delivery loop share without a lock (`session.go:546`).
* The in-memory repository and the writer of `sqlite/writer.go`, which the server does
  not use; the provider's fault decorator, which the server never installs.
* Several subscriptions of one bus, device counts in the manager.
* Configuration, logging and counters, JSON, decimals, routing, rendering: no property
  depends on them.

`components` in `PROJECT.json` gives the reason for each.

## 6. Plan

Models to come: the connection bloc with its socket client and reconnect policy, and
over it the liveness of a stale book; a monotone feed as an abstract specification
of `BookFeed`; a hysteresis automaton above `TierMachine`.

## 7. Running

    tlc -config TierMachine.cfg TierMachine
    tlc -config OrderBookSync.cfg MCOrderBookSync
    tlapm BookProofs.tla

`PROJECT.json` lists each run with its module, the mutants that show each property
can fail, and the source lines behind each definition.
