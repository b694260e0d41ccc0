# flowdepth: a TLA+ verification project

flowdepth is a desktop charting application (Rust, Iced) for crypto markets.  It
keeps live order books and trades from exchange websockets, fills its charts with
history downloaded over REST, keeps what it downloaded in a persistent cache,
repairs what it missed while a connection was down, and derives order-flow signals
from the live streams.  This directory holds TLA+ modules for the parts of it that
are hard to test, the TLC configurations that check them, and proofs that TLAPS
checks.

Paths below are relative to the repository.  `PROJECT.json` maps every definition
to the lines it models, lists the hazards of the code with the properties that
watch them, and gives for each property a mutant of the model that breaks it.

## 1. Inventory

| Component | Source | State | Operations | Status |
|---|---|---|---|---|
| Fetch-request registry | `src/connector/fetcher.rs` (`RequestHandler`) | `requests`, `generation_id`, `empty_trade_fetches` | add, complete, fail, supersede, clean up, mark empty | modelled |
| Candle chart, trade history | `src/chart/kline.rs`, worker in `fetcher.rs`, handlers in `src/screen/dashboard.rs` | `fetching_trades`, `covered_trade_ranges`, candles; worker; UI queue | chart tick, reset, clear cache; pages, completion, error; the four message handlers | trade path modelled |
| Persistent market cache | `src/connector/persistent_cache.rs`, worker in `fetcher.rs` | redb tables: one blob per bucket of trades, one coverage blob per dataset | read, store, invalidate, clear, recreate | trade dataset modelled |
| Connectivity service | `src/market_service.rs` | expected and connected streams, phase, start of the outage | sync, connected, disconnected, tick | modelled |
| Trade backfill | `src/screen/dashboard.rs`, `src/chart.rs` | noted gaps, reservations, worker handles, live candles | note, plan, batch, finish, fail, expire, tick, clear | trade path modelled |
| Binance depth adapter | `exchange/src/adapter/hub/binance/stream.rs`, `exchange/src/depth.rs` | sync state, snapshot channel, pending diffs, book, gap flag | connect, text, snapshot result, replay, live diff, disconnect | modelled, without event-channel loss |
| Websocket session | `exchange/src/adapter/ws.rs` | I/O task, frames, heartbeat, back-off, trade buffer, event channel | connect, frame, tick, ping, time-out, disconnect, retry | modelled from the connected transport on |
| Iceberg detector and its registry | `data/src/orderflow/iceberg.rs`, `src/connector/iceberg.rs` | quality, reorder buffer, levels, episodes, dedup windows; consumers, time of release | ingest, drain, trade, depth, invalidate; sync requirements, collect | modelled on one side, for one market |
| Rate limiters, stream resolution, other venues, aggregation and units, options and gamma exposure, indicator language, news, user interface, layout persistence | see `PROJECT.json` | | | not modelled |

How they interact.  Everything a user sees runs on one UI thread: a chart tick
asks the registry whether a missing range may be fetched, spawns a *worker* task
and keeps an abort handle for it; the worker sends batches and one final message
through the queue of the UI thread; the dashboard hands them to the chart, which
updates its candles, its covered ranges and the registry.  The workers read and
write the persistent cache.  Each live stream is a task of its own: a websocket
session calls an adapter for each text, the adapter emits events into a bounded
channel, and the UI thread hands them to charts, to the iceberg detectors and to
the connectivity service.  When a stream breaks the dashboard notes the newest
trade it saw; when the connectivity service reports the connection as restored,
the dashboard plans repairs of what was missed and starts workers for them.

What is hard here: the messages of a worker outlive the request they belong to
(settings are changed, requests time out, ids are revived); a handle that is
dropped aborts a task at any of its suspension points; three records of what is
loaded (covered ranges, candles, cache) are changed by different operations; the
cache is read in two transactions; breaks, returns, ticks and trades of several
sessions reach the UI in any relative order; a REST snapshot and a stream of
numbered diffs are joined without a common clock; queues are bounded.

What makes each component correct:

* registry: an answer is discarded exactly when its request was superseded; a
  range is downloaded once at a time; back-off is respected; an outcome is final;
  nothing stays pending for ever;
* chart: one worker at a time; only what a worker went through counts as covered;
  what counts as covered is in the candles; the next gap asked for is exactly
  missing; the chart never stays "already fetching";
* cache: coverage claims nothing that is not stored, but for the losses the code
  accepts; a worker's outcome admits what it lacks; the worker ends;
* connectivity: "online" and "offline" are said only when true; a false alarm ends;
* backfill: no missed trade is forgotten without one of the known reasons; nothing is
  downloaded twice at a time while it is reserved; what is reserved is being worked on;
* depth adapter: the book reflects every update up to its id; a subscriber told
  Healthy has built the same book; a resync ends;
* session: a dead connection is noticed in time and replaced, a living one kept; the
  application is told of every break before it sees the trades behind it;
* detector: it holds no stale level; open episodes never span a gap, a reconnect or
  a resync; detection resumes only with a whole book; a refill is quantity that was
  really added.

## 2. Modules

| Module | What it is |
|---|---|
| `RequestHandler` | the registry as a component: its variables, operations and `HandlerSpec` |
| `RequestHandlerProofs` | five properties of the registry, proved |
| `TradeRanges` | pure operators on covered ranges: merging, oldest and newest gap, chunks |
| `TradeRangesProofs` | what they compute, proved; least and greatest elements, for the other proofs |
| `ChartTradeFetch` | the chart, composed of the registry and the ranges, with workers, cache and UI queue |
| `ChartTradeFetchProofs` | all five of its invariants, proved |
| `CacheContract` | abstract specification: what the cache promises those who ask it |
| `MarketCache` | the two tables, their transactions, and the workers that page through the gaps |
| `MarketCacheProofs` | its invariants and that it implements `CacheContract`, proved |
| `Connectivity` | the connection state as a value with its methods as operators |
| `Backfill` | the repair of missed trades: variables and operations |
| `Reconnect` | `Connectivity` and `Backfill` composed with sessions, their events and the UI tick |
| `ReconnectProofs` | all seven of its invariants, proved: the connection state and the repair |
| `Heartbeat` | the heartbeat policies as operators on a heartbeat |
| `WsSession` | session task, I/O task, adapter buffer, event channel |
| `WsSessionProofs` | six of its properties, proved |
| `DepthSync` | the depth adapter of one stream with its exchange, link and snapshot task |
| `DepthSyncProofs` | type correctness and two invariants, proved |
| `IcebergDetector` | the detector of replenished bids, with its two feeds and its reorder buffer |
| `IcebergDetectorProofs` | its type invariant and its three other properties, proved |
| `MC...` | the instances that TLC checks |

`ChartTradeFetch` extends `RequestHandler` and `TradeRanges`; `Reconnect` extends
`Connectivity` and `Backfill`, which extends `TradeRanges`; `WsSession` extends
`Heartbeat`.

### RequestHandler

`requests` maps each id to an entry or to `NoRequest`.  The code stores
timestamps and only compares `now - timestamp` with retentions and `now` with
`retry_at`; an entry therefore carries `age` and `retryIn`.  `Tick` ages all of
them.  Every public operation is an action: `AddRequest(f)` has the four outcomes
of `add_request_with_id` (`AddRejected`, `AddSuppressed`, `AddReactivated`,
`AddQueued`), each including the cleanup that the function starts with;
`CleanupStale`, `MarkCompleted` (also `mark_no_data`, which calls it),
`MarkFailed`, `SupersedeAllPending`, `MarkEmptyTradeRange`.  Where the function
leaves the map as it is, it is a stuttering step.  Ids are never reused
(`issued`).  `HashMap` iteration order is the choice of `id` in `AddReactivated`.

### ChartTradeFetch

One chart tick of `fetch_missing_data` is `ChartTickIdle` (nothing to do, still
with the cleanup and the reset of an abandoned flag), `ChartTickRefused` or
`ChartTickFetch`; the worker's handle is stored before the next UI step.  A worker
is `WorkerStart` (the cache is read and sent first), `WorkerPage` (a page is
stored and sent), and one of `WorkerDone`, `WorkerYield` (interrupted, no progress
or empty page) and `WorkerError`.  Messages are handled in order by
`DiscardData`/`ApplyData` (`distribute_fetched_data` and `insert_raw_trades`),
`CompleteTradeFetch` and `FailTradeFetch`.  `Aborted` is what dropping the handle
does: its worker stops where it is; what it put in the queue is still delivered.
The user's actions are `ResetRequestHandler` and `InvalidateMarketDataCache`.
The persistent cache is a set of points here, read and written atomically; how
far the real one keeps such a promise is the subject of `MarketCache`.

### CacheContract and MarketCache

`CacheContract` knows moments and holds records.  A stretch of time becomes known
only together with a record in it; knowledge is given up as a whole; a reply calls
a moment covered only if it was known when the question was put, and brings every
record then held of it.  It says nothing of buckets, blobs or transactions.

`MarketCache` has the tables.  `coverage` is the set of moments in the merged
intervals of the coverage blob, `present` and `contents` are the bucket blobs,
`damaged` names blobs whose checksum no longer fits.  redb's write transactions
exclude one another and are seen whole or not at all, so `Store` (every bucket of
the range is rewritten with what could be read of it), `Drop` (invalidation,
clear) and `WriteFails` are one step each; `read_trades` uses two read
transactions and is `ReadCoverage` and `ReadBuckets`, with `Invalidate` when a
blob is bad.  A worker coalesces the gaps of the answer, asks for one page after
the other (`Page`: request, store, send, advance; a store that fails is only
logged), and ends by covering the range, on an empty page (`EmptyPage`), without
progress (`NoProgress`) or by an interruption (`Interrupted`); `Stop` is a failed
request or a dropped handle.  `ClearAll`, `Damage` and `Restart` may come between
any two steps.  Three pieces of history: `unbacked`, the trades that coverage
claims without having them, with the three reasons why the code lets that happen
(a page cut inside its last moment; overlap filtered out although the page before
it was not stored or is gone; a bad bucket rewritten unread); `missed`, those a
worker was not given; `torn`, a removal between a worker's two reads.

The refinement: `known` is what a readable coverage claims (`Claimed`), `held`
what the readable buckets hold (`Held`), the clients are the workers (`Stage`,
`KnownTo`, `RepliedTo`).  `Contract` is checked by TLC and proved.

### Connectivity, Backfill and Reconnect

`MarketConnectivity` is a value; `Evaluated` and `Transition` are the state that
`evaluate` leaves and what it returns, `Expecting`, `WithConnected` and
`WithDisconnected` what the public methods do before.  `Backfill` has the
dashboard's variables.  `RecordGaps` notes the newest trade before the first break;
`Execute` takes the noted gaps and plans: panes that miss the same range form a
group (`Groups`), which is cut into `Chunks`; a chunk that overlaps a reserved one
is left out (`Taken`), the others (`Free`) are reserved and chained in one job
(`Queued`, `Chain`); `Planned` does so for one group after the other.
A job brings its chunks in batches (`Deliver`), each ends with `Completed` or
`Failed` and releases its reservation, and the chain goes on.  `HandleCleanup` is
the dashboard tick that drops all handles once nothing is reserved.  Historical
trades of a candle with live trades are discarded (`Kept`).  `OwnFetch` is the
chart's own download of a range.

`Reconnect` adds what drives them: sessions that carry streams (`link`), connect,
break and are replaced without a word when panes ask for other streams
(`Resubscribe`); one ordered `inbox` per session; the handlers `OnConnected`,
`OnDisconnected`, `OnTrades`, `UiTick`, `OnBatch`, `OnCompleted`, `OnFailed`.  A
trade of each moment is the unit: what a chart has is `charts[p].loaded`.  `left`
collects, pane by pane, the moments that are given up for a known reason: the
events that would have told of them were dropped with a replaced session, the gap
was too short or reserved, its repair failed or was aborted, a live candle
discarded them, or nothing live had been seen before the break.  `silent` says
that a replaced session has announced nothing yet.  `lapsed` (history) are the ranges
whose reservation expired before it was released.

### Heartbeat and WsSession

`Heartbeat` has the three policies, `Periodic` (pings at a fixed cadence),
`AfterIdle` (a ping after idleness, which wants an answer in time) and
`ServerDriven`, with `NextDeadline`, `DeadlineAction`, `MarkActivity` and
`PingSent` named after the code's methods.  `WsSession` has the session task
(`mode`: Connecting, Greeting, Up, Leaving, Sleeping; Greeting and Leaving stand before
the notices of a connection's beginning and end, where steps of others come between),
the I/O task (`Read*`, `AtDeadline`, `Breaks`, `GoesSilent`), the unbounded channel
`frames` between them and the bounded `channel` of events, into which `Send` drops
what finds no room.  A buffered adapter collects trades until `OnTick`, `Leave` or
the next connection; the others send at once.  The delay doubles, is jittered and
is reset by data or after the connection was stable.  `view` is what the
application concludes from the events it has taken: whether the stream is up, the
last trade, whether a trade was skipped without a notice (`hole`) or came outside
of a connection (`outside`); `dropped` the kinds of events that were lost.

### DepthSync

The exchange numbers its updates; a diff is `[prev, first, final]` and brings the
updates `prev+1..final`; the book is the set of updates it reflects, so "exact"
has a plain meaning.  `ExchangeUpdate` may lose diffs; `SnapshotReply` may answer
with any snapshot up to the current one, or fail.  `on_text` does not suspend; it
is split at its loop by `pc`: `OnText*` polls the snapshot channel, `Replay*`
replays the queue, the `Live*`, `QueueDiff` and `HandleOtherText` actions treat
the text itself.  `NoDiff` is a text without depth, such as the empty payload
`read_frame` forwards for a ping.  `view` is what a subscriber builds from the
published events and `quality` the last state it was told; both exist for linear
perpetuals only, as in the code.

### IcebergDetector

`detector` is the state `process` works on (quality, levels, episodes, samples,
ids seen), `buffer` and `latest` are the reorder buffer.  An event goes from the
market (`Execute`, `Reprice`) or the depth adapter (`DepthBoundary`,
`DepthUpdate`, `DepthGap`, `DepthConnect`, `DepthDisconnect`, what `DepthSync`
publishes, seen from outside) or the trade adapter (`TradeDisconnect`) into the
queue of its socket; the UI thread takes events from the two queues in any
relative order (`IngestDepth`, `IngestTrade`).  `ingest` is one call in the code;
here it is the buffering, with `Invalidate` for a gap or reconnect and `Overflow`
for a full buffer, followed by one `Drain` per event that is ready; nothing else
happens in between (`~Ready` guards the rest).  `ProcessTrade`, `ProcessBook` and
`ProcessQuality` are functions from detector to detector named after the code's
methods.  Whether an execution is significant against the adaptive threshold is
open: a trade has both outcomes.  `resyncing`, `seenBook`, `seenChange`, an
event's `book`, `added` and `change` and an episode's `base` are history.

The registry decides who gets an event.  Before each one the dashboard's requirements
are synchronised (`SyncRequirements`, in `Ingest` and, for the events of other
markets, in `OtherMarketEvent`): panes may have been told to show markers or not to.
`consumed` is whether the detector has consumers, `releasedAt` when it lost the last
one; a detector without any is left out of the events.  `CollectGarbage` removes it
after the grace period; the detector that a later requirement makes starts in the
state that `CollectGarbage` leaves.  `missed` (history) says that this detector was
left out of a depth event: from then on it may hold stale levels until it is removed
or the depth stream breaks (finding 5), so the other three properties are about
detectors that were not.

## 3. Runs

All runs finish within three minutes on two workers.

| Run | Module / cfg | Checks | Result |
|---|---|---|---|
| `requests` | `MCRequestHandler` | `TypeOK`, `StaleExactlyWhenSuperseded`, `NoDuplicateDownload`, `BackoffHolds`, `SettledIsFinal` | hold |
| `chart` | `MCChartTradeFetch` / `ChartTradeFetch.cfg` | `ChartTypeOK`, `OneWorker`, `OnlyTraversedIsCovered`, `CoveredIsLoaded`, `GapsAreExact`, `FetchingEnds`, `PendingEnds` | hold |
| `chart_superseded` | `ChartSuperseded.cfg` | `SupersededResultIgnored` | violated, finding 1 |
| `chart_cleared` | `ChartCleared.cfg` | `ClearedIsMissing` | violated, finding 2 |
| `cache` | `MCMarketCache` | `TypeOK`, `CoveredHasBucket`, `CoveredIsStored`, `OutcomeIsHonest`, `NeverAsksTwice`, `Contract` | hold |
| `reconnect` | `MCReconnect` | `TypeOK`, `MissedIsRemembered`, `NoDoubleRepair`, `ReservedIsWorkedOn`, `ConnectedIsTrue`, `OverlayIsTrue`, `NoFalseAlarm` | hold |
| `reconnect_flapping` | `ReconnectFlapping.cfg` | `OfflineIsRecovered` | violated, finding 4 |
| `session` | `MCWsSession` | `TypeOK`, `SilenceIsNoticed`, `LivingIsKept`, `BeliefIsTrue`, `NoSilentLoss`, `TradesWhileConnected`, `DeadIsReplaced` | hold |
| `depth` | `MCDepthSync` | `TypeOK`, `BookIsExact`, `HealthyViewIsBook`, `ResyncEnds` | hold |
| `iceberg` | `MCIcebergDetector` | `TypeOK`, `NoStaleLevel`, `NoDetectionWhileResyncing`, `RefillIsReal` | hold |
| `iceberg_partial` | `IcebergPartial.cfg` | `ResumesWithWholeBook` | violated, finding 3 |
| `iceberg_revived` | `IcebergRevived.cfg` | `RetainsVisibleQuantity` | violated, finding 5 |

Bounds and why they suffice.

* `requests`: three ids (two entries in conflict and a third one that retries),
  five ranges: two nested trade ranges, an invalid one, one bubble range with two
  sets of parameters.  The unit of time is the completed retention; `PendingTimeout`,
  `FailedRetention` and the two delays keep the order they have in the code
  (superseded < completed < pending time-out <= failed; no delay exceeds the
  failed retention).  `AgeCap` is one past the longest: older ages cannot be told
  apart.  `MaxAttempts` 2 reaches the saturated delay.  `MaxGeneration` 1 allows
  one reset: an entry compares its generation with the current one only for
  equality.  The proofs do without any of these bounds.
* `chart`: `LastPoint` 3 with chunks of two gives overlapping, touching and
  disjoint chunks, and the deferred live tail; two worker slots are one more than
  ever run; `MaxInbox` 2 holds a batch and the completion behind it.
  The two violation runs use three points, which suffice for a counterexample.
* `cache`: six moments in three buckets, one of them without trades; a moment with
  two trades that a page of two reaches with room for one; a bridge of one, so
  that gaps coalesce; two workers, which can interfere, interchangeable; two faults
  of any kind (`MaxFaults`), since a clear and a bad blob or a failed store are
  needed together for each of the accepted losses.
* `reconnect`: two sessions, one of trades and of a stream that panes may add, one
  of depth, so that sync replaces one session and not the other; two panes on one
  trade stream, one with live candles; five moments (`LastMoment` 4) with chunks of
  two, a grace and an expiry of two, so that an outage can outlast the grace and a
  worker its reservation; two faults of the seven kinds; two events under way per
  session.  `reconnect_flapping` has one pane, six moments with trades at the odd
  ones, chunks of four, no expiry, and nothing fails but connections.
* `session`: three adapters stand for the venues: periodic pings with buffered trades,
  pings after idleness, pings of the server, in units of about fifteen seconds.
  Delays of one and two units (`MaxDelay` is reached after one doubling); an event
  channel of two, which overflows; three trades, so that one can be missed between
  two that are seen; two faults.
* `depth`: five updates in diffs of one or two, so that a snapshot can fall
  before, inside and after a diff; two texts in flight, a queue of two so that it
  overflows.
* `iceberg`: two prices (the touch moves, a second episode would exceed the limit of
  one), three changes of the market, one break of a stream, two changes of the panes'
  wish for markers, the clock at one and at two with a reorder window and a grace of
  one: what came at one is processed once something of two has come, or when the buffer
  overflows, and a detector released at one may be removed at two.  `iceberg_partial`
  adds a third unit and no pane changes its mind.  The better price holds up to two, so that
  an execution can leave part of a level; a buffer of three overflows.  The warm-up
  is one sample of each kind; samples expire after one unit, episodes as soon as they
  are idle for one.  The distance limit never refuses a price here.

`CHECK_DEADLOCK FALSE` in the registry, chart, depth and detector instances: they stop
when the bounds on ids or update numbers are used up.  The system itself has no
final state; `cache`, `reconnect` and `session` check deadlock.

Findings: places where the code does something else than a comment beside it says.

1. `chart_superseded`.  A comment says results of superseded requests are
   recognised as stale; `complete_trade_fetch` does not look, marks the range
   covered and drops the newer worker's handle.
2. `chart_cleared`.  Clearing the cache is documented to rebuild the derived
   history on the next tick; the covered ranges survive it, so nothing is asked
   for.
3. `iceberg_partial`.  A reconnect of the trade socket clears the detector's levels
   too; the depth stream goes on without a boundary, and its next diff makes the
   detector Healthy with only that diff's prices.  The comment at that place relies
   on the depth sequence having stayed coherent, and the detector's document says
   that detection resumes after a snapshot boundary.
4. `reconnect_flapping`.  A stream breaks again, before a new live trade, while the
   first outage is being repaired.  The noted gap begins at the same trade, so its
   chunk overlaps the reserved one and is skipped as a whole; the gap has been
   taken from the notes, and the trades of the second outage are never fetched.
   The doc comment says that the complete offline interval is recovered.
5. `iceberg_revived`.  A detector that no pane wants is left out of the events but
   kept for the grace period.  Wanted again in time it goes on as it was, Healthy and
   with its old levels and episodes, over a hole in its depth sequence.  The detector's
   document says that it retains the visible quantity of each price, and that
   detection resumes only after a boundary and a continuous sequence.

Met while modelling, without a run of their own: the batch that reaches the end of
a range makes the chart drop the handle of a worker that has not yet sent its
completion, so the request stays pending until its time-out (`PendingEnds` covers
that it ends); a depth replay that fails has consumed the diff it failed on, and
the next snapshot may be older (`HealthyViewIsBook` holds all the same); a buffered
trade adapter never counts as having brought data, since its events come out of
`on_tick` and not out of `on_text`, so short connections of trade streams let the
delay grow where those of depth streams reset it (`Brings` in `WsSession`).  Reservations
of repairs are known by stream and bounds only: once one has expired under a slow
worker and the same range was reserved for a second worker, the end of the first
releases what protects the second (`clear_pending_backfill`), and a third may be
started on a range that overlaps it; `pending_backfills` is documented to prevent
duplicate fetches on repeated disconnects (`dashboard.rs:98`).  That
`NoDoubleRepair` must therefore exempt every range that ever expired, and not only
those whose worker is older than the expiry, came out of its proof; the bounds of
`reconnect` are too small to show it.

## 4. Fairness

* Chart: weak fairness of `TimePasses`, `ChartTickIdle` and `Deliver`: the clock
  runs, the UI thread ticks its charts on a timer and serves its queue.  Every
  tick begins with what `ChartTickIdle` does.  Time advances only while the queue
  is empty (`TimePasses`): retentions are seconds and more, messages are handled
  in milliseconds.  Nothing is assumed of workers, which may hang for ever.
* Session: weak fairness of the session task's steps that need no outside help, of
  the I/O task's deadline and of time, since both tasks are scheduled by the
  runtime; of `ReadQuiet`, since a server that is alive answers; strong fairness
  of `ConnectSucceeds`: of infinitely many attempts one succeeds.  Nothing is
  assumed of the application, which may never read its events.  `Tick` does
  not pass a deadline of the I/O task, nor the time in which a server that is
  alive (`talks`) answers; a server may stop being so at any time.
* Depth: `Text` is weakly fair because the session replaces a link that is silent
  for longer than its heartbeat allows (`SilenceIsNoticed`, `DeadIsReplaced`), so a
  link that stays up delivers texts; `Step` because `on_text` does not suspend;
  `SnapshotReply` because the HTTP client has a time-out.
* `MarketCache` and `Reconnect` state no fairness: their properties are safety
  properties.  `NeverAsksTwice` is the part of a worker's termination that
  depends on the code: its place grows with each page within a bounded range.

## 5. Proofs

The theorems hold for every value of the constants that satisfies the modules'
named assumptions, and do without the bounds of section 3.

* `RequestHandlerProofs`.  `TypeOK` and the two invariants are not inductive: that
  a pending request belongs to the current generation needs that no entry is of a
  later one, and that a superseded one is of an *earlier* generation; uniqueness
  of ranges needs that an entry's id was issued, so that a fresh id is absent.
  `HandlerInv` conjoins these facts.  The proof has one lemma per way a map can
  change (ageing, cleanup, superseding, one entry revived, queued, completed or
  failed) and one step per action.  `BackoffRespected` and `SettledFinal` are
  action properties proved from the same invariant; the former needs that
  `retryIn` never exceeds the time left until the failed entry expires.
* `TradeRangesProofs`.  `MarkedSteps`: marking a range adds exactly its steps to
  the covered ones and keeps the ranges apart from each other.  `SelectedGapIs`:
  the gap that is selected is missing from end to end, and none is selected only
  if nothing is missing.
* `ChartTradeFetchProofs`.  `ChartInv` is the type of every variable, the single
  worker whose handle is held, that workers and messages claim only what they
  traversed, and that covered ranges are merged and traversed; it needs the two
  lemmas above.  `CoveredLoaded` is the deepest of them.  Covered and loaded are
  joined only through the queue: a completion may be handled only after the batches
  sent before it, and no batch may be discarded as stale.  `SteadyInv` therefore
  says that what a worker or a message claims is loaded or in a batch ahead of it
  in the queue, and that each such batch is fresh: the running worker's request is
  the youngest pending one, so that the registry cannot forget it before the chart
  stops its worker.  It uses that a back-off is never zero.
* `MarketCacheProofs`.  The inductive invariant is the type, `CoveredHasBucket`,
  `CoveredIsStored` and, for each worker by its phase, what it was told and what it
  has sent up to where it stands.  Pages are chosen by cardinality; the proof
  needs only that a nonempty remainder gives a nonempty page that is closed under
  "older id".  `Implements` maps `Store` to `Learn`, a removal to `Forget`, a bad
  blob to `Lose` or `Forget`, and each read to `Ask`, `Reply` or `Miss`.
* `ReconnectProofs`.  `OverlayTrue` follows from the operators of `Connectivity`
  and the time of the last evaluation; `ConnectedTrue` needs that the streams of an
  event are those of its session; `FalseAlarmEnds` that a wanted stream of an
  announced session is counted as connected or its announcement is the last
  word in its inbox.
  The repair has an invariant of its own, `RepairInv`, built in layers.  `RepairOK` is
  about reservations and workers: each reservation has a worker that is to download
  its range (`Worked`, hence `ReservedWorkedOn`), each range of a worker is reserved or
  has lapsed (`Held`), and only lapsed ranges overlap (`Apart`, hence `RepairedOnce`).
  That the planner keeps it is shown along its recursive functions, group by group
  and chunk by chunk; the order of the groups, any sequence of them, does not matter.
  `BoardInv` bounds the dashboard's moments: a gap is not after the last live trade.
  `NothingForgotten` is what each operation of the dashboard does for
  `MissedRemembered`: a moment that is loaded, given up or being downloaded stays
  so.  The rest is about the queues.  `QueueInv`: the events of a session come in
  the order of their moments, none before the last trade handled.  `ToldInv`: a stream
  that is down has a notice under way behind its last trade, or its gap is noted.
  `WantedInv`: a pane's stream with a noted gap is expected, so that no repair is
  planned before it is back.  `MissedInv`: a missed trade is accounted for, noted, or
  will be noted by an event under way.  Without the order of events the last would not
  be inductive: a trade handled late would move the start of a gap past trades missed.
  TLC checked each of these parts on the instance of `reconnect` before its proof.
  Two assumptions are the proof's: there are finitely many panes (`BackfillAssumption`),
  so that the groups can be put in an order, and the trade stream of a pane is one of
  those asked for from the beginning (`ReconnectAssumption`): the model has panes that
  add streams, none that gives its own up.
* `WsSessionProofs`.  `HeartInv` has, for each policy, what the heartbeat's clock may
  show, and that a server that is alive still has time to answer; it gives
  `SilenceIsNoticed` and `LivingIsKept`.  `TypeInv` adds the types of frames and
  events.  `TruthInv` adds what the application will believe at each point of its
  channel, which gives `BeliefIsTrue` and `TradesWhileConnected`.  `LossInv` sees what
  is on its way from the server to the application as a row of marks (the events in
  the channel, the buffer, the frames): each trade follows the newest one before it
  unless a notice of disconnection is due in between; it gives `NoSilentLoss`.
* `DepthSyncProofs`.  The invariant says that the diffs in the wire, the queue and
  the incoming text are real diffs of the exchange (their final ids bounded by
  it, `prev < first <= final`), that `prevId` is 0 or the last id, that the book is
  `1..lastUpdateId`, and that while `quality` is Healthy the subscriber's set is
  the book and the machine is live or in the step that publishes it.  `ApplyIsExact`
  is the heart: a diff that `Follows` extends an exact book to an exact book.
* `IcebergDetectorProofs`.  `DetectorInv` has the types, the buffer sorted as
  `before` sorts it, and three parts about what is on its way.  `QueueInv`: behind
  each break in the depth queue nothing but breaks and notices comes before the next
  whole book.  `ResyncInv`: from a break that was taken in until that book the detector
  holds nothing, and no update and no Healthy waits in the buffer; it gives
  `NoDetectionWhileResyncing`.  `SyncInv`: the books that wait in buffer and queue are
  in the order of the market (`OrderOK`), name every price that changed between one and
  the next (`LinkOK`), and carry the quantities of their moment (`ValueOK`), while a
  level the detector holds differs from the last depth event it has seen in nothing that
  these books will not bring; it gives `NoStaleLevel`.  The order is the hard part: an
  overflow processes the head of the buffer early, and later books of an older
  millisecond, or of an id already seen, are still to come.  `RefillInv`, kept under
  `DetectorInv`, gives `RefillIsReal`.  It counts trades: between two books on their way,
  and between each and the market, a price has lost at least one unit for each trade on
  its way that lies between them (`Consumed`); and what trades processed since the last
  book took from a level, with what trades still on their way took since, is missing
  in every later book (`PendingAt`).  So the quantity by which a book exceeds what
  executions left was added.  It needs that a trade is on its way once (`Once`), that
  a price an update does not name has not changed (`LinkOK`, `ValueOK`), and that
  nothing is out of order; an event that is, is what `disordered` tells.

Only model-checked: the liveness properties (`FetchingEnds`, `PendingEnds`,
`ResyncEnds`, `DeadIsReplaced`), which need fairness and are out of the prover's
reach.  Every invariant and every action property of a passing run is proved.  The
library's induction theorem cannot be used, since it takes an operator as a parameter;
what the planner's recursive functions return is shown from the set of stages at which
the statement holds, which contains the first and with each stage the next (`Climb`).

## 6. Not modelled, and plan

Abstracted in what is modelled: wording and logging; prices, quantities and the
layout of candles (a range of trades is a set of points); other request kinds of
the candle chart go through the registry alone; the channel between adapter and
consumer is lossless in `DepthSync`, `IcebergDetector` and `Reconnect` (its loss is
the subject of `WsSession`).  In the cache: the other datasets, which share the
code, the retention of option history, and a read transaction that fails.  In the
backfill: candles, which are repaired beside the trades, and the switch of a
layout.  In the session: TLS and proxies, a write that blocks the I/O task and with
it the deadline, and a session without streams.  In the detector: asks, scores, the
publication and retention of markers, the recorder, the deduplication of trades.

A break that is handled while the connection state is Connecting leaves no mark in
it: if the streams return within the grace period, nothing is restored and the
noted gap waits for the next restoration.  `MissedIsRemembered` counts it as
remembered.

Not modelled at all: the rate limiters and the state of the HTTP clients; the
resolution of tickers and streams; the adapters of the other venues, whose
snapshots come over the socket; the aggregation of trades and fixed-point units
(data, without control); options, gamma exposure and maker flow (floating-point
formulas); the indicator language (its inputs are programs); news, drawing, audio,
layout files.  The map therefore covers a small part of the implementation's lines:
most of them draw, parse or compute.

Plan, in order:

1. The composition of `MarketCache` with `ChartTradeFetch` through `CacheContract`.
2. The rate limiters, with waits taken outside of their lock; the venues whose
   snapshots come over the socket.
