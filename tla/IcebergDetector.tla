--------------------------- MODULE IcebergDetector ---------------------------
(***************************************************************************)
(* The detector of replenished bids (BinanceIcebergDetector in             *)
(* data/src/orderflow/iceberg.rs), fed by the two live streams of a linear *)
(* perpetual: raw trades, and the events of the depth adapter (module      *)
(* DepthSync).  The streams come over two sockets; the detector puts their *)
(* events in order by the exchange's clock in a bounded reorder buffer.    *)
(* The registry of detectors (src/connector/iceberg.rs) hands it the       *)
(* events while some pane wants its markers, keeps it for a while when no  *)
(* pane does, and removes it then.                                         *)
(*                                                                         *)
(* Only bids are modelled: asks mirror them, and share the samples and the *)
(* bound on episodes.  A trade is of one unit.  Quantities are small       *)
(* integers; the adaptive thresholds are left open (an execution may or    *)
(* may not be significant).  Scores and the publication of markers are     *)
(* left out, they change nothing else.  Trade ids are fresh, so that their *)
(* deduplication never refuses one; the window of depth ids is longer than *)
(* any run here.  An event is received when the UI thread ingests it, and  *)
(* the local clock agrees with the exchange's.                             *)
(***************************************************************************)
EXTENDS Integers, Sequences, FiniteSets

CONSTANTS
  Prices,          \* bid prices, in ticks
  MaxQty,          \* bound on the quantity bid at each price
  MaxTime,         \* bound on the clock
  MaxChanges,      \* bound on the changes of the market
  MaxBreaks,       \* bound on the breaks of the two streams
  MaxToggles,      \* bound on the changes of the panes' wish for markers
  MaxTradeQueue,   \* bound on the trades on their way to the UI thread
  MaxDepthQueue,   \* bound on the depth events on theirs
  ReorderWindow,   \* reorder_window_ms
  MaxReorder,      \* MAX_REORDER_EVENTS
  Warmup,          \* WARMUP_TRADES and WARMUP_TOUCH_DEPTHS
  MaxSamples,      \* MAX_SAMPLES
  RollingWindow,   \* ROLLING_WINDOW_MS
  MaxDistance,     \* max_distance_from_touch_ticks
  MaxAdverse,      \* maximum_adverse_ticks
  IdleTimeout,     \* episode_idle_timeout_ms
  MaxDuration,     \* episode_max_duration_ms
  MaxEpisodes,     \* MAX_EPISODES
  RefillThreshold, \* least quantity that counts as a refill
  ReleaseGrace,    \* RELEASE_GRACE_MS
  NoLevel,         \* a price without a level
  NoEpisode        \* a price without an episode

ASSUME DetectorAssumption ==
  /\ Prices \subseteq Nat /\ IsFiniteSet(Prices)
  /\ MaxQty \in [Prices -> Nat \ {0}]
  /\ MaxTime \in Nat \ {0} /\ MaxChanges \in Nat /\ MaxBreaks \in Nat
  /\ MaxTradeQueue \in Nat \ {0} /\ MaxDepthQueue \in Nat \ {0}
  /\ ReorderWindow \in Nat \ {0} /\ MaxReorder \in Nat \ {0}
  /\ Warmup \in Nat \ {0} /\ MaxSamples \in Nat /\ MaxSamples >= Warmup
  /\ RollingWindow \in Nat /\ MaxDistance \in Nat /\ MaxAdverse \in Nat
  /\ IdleTimeout \in Nat /\ MaxDuration \in Nat /\ MaxEpisodes \in Nat
  /\ RefillThreshold \in Nat \ {0}
  /\ MaxToggles \in Nat /\ ReleaseGrace \in Nat \ {0}
  /\ NoLevel \notin [visible: Nat, pending: Nat]
  /\ NoEpisode \notin [started: Nat, last: Nat, replenished: Nat, base: Nat]

VARIABLES
  now,           \* the exchange's clock
  market,        \* quantity bid at each price on the exchange
  added,         \* quantity ever added at each price (history)
  changed,       \* prices changed since the last depth update
  changes,       \* number of changes of the market so far
  changedAt,     \* time of the last one
  updateId,      \* id of the last depth update
  breaks,        \* breaks of the streams so far
  feed,          \* the depth adapter: "down", "syncing" or "live"
  depthQueue,    \* its events on their way to the UI thread
  tradeQueue,    \* those of the trade adapter
  detector,      \* quality, levels, episodes, samples, seen: see Detector
  buffer,        \* events waiting in the reorder buffer
  latest,        \* latest_time
  consumed,      \* SharedDetector.consumers > 0: some pane wants markers
  toggles,       \* changes of that so far
  releasedAt,    \* SharedDetector.released_at; 0 is None
  missed,        \* the detector was left out of a depth event (history)
  resyncing,     \* a break of the depth stream is handled, its boundary not
  seenBook,      \* the book of the last depth event processed (history)
  seenChange     \* changes reflected by the trades and depth events
                 \* processed, and whether they came out of order (history)

marketVars == <<now, market, added, changed, changes, changedAt, updateId>>
detectorVars == <<detector, buffer, latest>>
registryVars == <<consumed, toggles, releasedAt, missed>>
historyVars == <<resyncing, seenBook, seenChange>>
insideVars == <<registryVars, detectorVars, historyVars>>
vars == <<marketVars, breaks, feed, depthQueue, tradeQueue, insideVars>>

Qty(p) == 0..MaxQty[p]
Times == 0..MaxTime
Qualities == {"Synchronizing", "Healthy", "Degraded", "Gap"}

Max2(a, b) == IF a > b THEN a ELSE b

-----------------------------------------------------------------------------
(* Events *)

Trade(p, n) ==
  [type |-> "Trade", at |-> now, price |-> p, change |-> n]

(* A depth update: the quantities of some prices, and (history) the whole  *)
(* book and all additions behind it.                                       *)
Book(boundary, id, prices) ==
  [type |-> "Book", at |-> changedAt, boundary |-> boundary, id |-> id,
   prices |-> prices, book |-> market, added |-> added, change |-> changes]

Quality(q) == [type |-> "Quality", at |-> now, quality |-> q]

(* Reconnect and Quality::Gap, which are not put in order.                 *)
Break(q, source) == [type |-> "Break", quality |-> q, source |-> source]

TypeOrder(e) == IF e.type = "Trade" THEN 0 ELSE IF e.type = "Book" THEN 1 ELSE 2

(* buffered_event: an event with its receive time.                         *)
Received(e) == [event |-> e, recv |-> IF e.type = "Quality" THEN e.at ELSE now]

Sequence(e) ==
  IF e.type = "Trade" THEN e.change ELSE IF e.type = "Book" THEN e.id ELSE 0

Key(b) == <<b.event.at, b.recv, TypeOrder(b.event), Sequence(b.event)>>

Less(k, l) ==
  \E i \in 1..4 : k[i] < l[i] /\ \A j \in 1..(i - 1) : k[j] = l[j]

(* buffer_cmp: the buffer is sorted after every event; the sort is stable. *)
Sorted(s, b) ==
  LET k == Cardinality({i \in 1..Len(s) : ~Less(Key(b), Key(s[i]))})
  IN  SubSeq(s, 1, k) \o <<b>> \o SubSeq(s, k + 1, Len(s))

-----------------------------------------------------------------------------
(* The detector as a record and what an event makes of it *)

NoLevels == [p \in Prices |-> NoLevel]
NoEpisodes == [p \in Prices |-> NoEpisode]

Fresh(quality, seen) ==
  [quality |-> quality, levels |-> NoLevels, episodes |-> NoEpisodes,
   trades |-> <<>>, touches |-> <<>>, seen |-> seen]

Visible(d, p) == IF d.levels[p] = NoLevel THEN 0 ELSE d.levels[p].visible

Bids(d) == {p \in Prices : Visible(d, p) > 0}

BestBid(d) == CHOOSE p \in Bids(d) : \A q \in Bids(d) : q <= p

Open(d) == {p \in Prices : d.episodes[p] # NoEpisode}

(* expire_samples: drop the oldest samples while they are too old.         *)
Recent(s, at) ==
  LET young == {i \in 1..Len(s) : at - s[i] <= RollingWindow}
  IN  IF young = {} THEN <<>>
      ELSE SubSeq(s, CHOOSE i \in young : \A j \in young : i <= j, Len(s))

(* Mutant: the oldest sample stays.                                        *)
MutantSampled(s, at) == Append(s, at)

Sampled(s, at) ==
  Append(IF Len(s) = MaxSamples THEN Tail(s) ELSE s, at)

WithTrade(d, at) ==
  [d EXCEPT !.trades = Recent(Sampled(@, at), at), !.touches = Recent(@, at)]

WithTouch(d, at) ==
  IF Bids(d) = {} THEN d
  ELSE [d EXCEPT !.trades = Recent(@, at), !.touches = Recent(Sampled(@, at), at)]

WarmedUp(d) == Len(d.trades) >= Warmup /\ Len(d.touches) >= Warmup

(* invalidate_all                                                          *)
Invalidated(d, quality) == Fresh(quality, d.seen)

(* expire: episodes idle or open for too long end.                         *)
Expired(d, at) ==
  [d EXCEPT !.episodes =
     [p \in Prices |->
        IF p \in Open(d) /\ (\/ at - d.episodes[p].last > IdleTimeout
                             \/ at - d.episodes[p].started > MaxDuration)
        THEN NoEpisode ELSE d.episodes[p]]]

WithinTouch(d, p) ==
  Bids(d) # {} /\ p - BestBid(d) <= MaxDistance /\ BestBid(d) - p <= MaxDistance

(* A trade that counts against the level it hits.                          *)
Hits(d, e, significant) ==
  /\ d.quality = "Healthy" /\ WarmedUp(d)
  /\ Visible(d, e.price) > 0
  /\ WithinTouch(d, e.price)
  /\ significant \/ e.price \in Open(d)

(* `base` is what had been added at the price before (history).            *)
Opened(e) == [started |-> e.at, last |-> e.at, replenished |-> 0,
              base |-> seenChange.added[e.price]]

WithHit(d, e) ==
  LET p == e.price
      h == [d EXCEPT !.levels[p].pending = @ + 1]
  IN  IF p \in Open(d) THEN [h EXCEPT !.episodes[p].last = e.at]
      ELSE IF Cardinality(Open(d)) >= MaxEpisodes THEN h
      ELSE [h EXCEPT !.episodes[p] = Opened(e)]

ProcessTrade(d, e, significant) ==
  LET t == WithTrade(d, e.at)
  IN  IF Hits(t, e, significant) THEN WithHit(t, e) ELSE t

(* Mutant: what the executions left counts as refilled.                    *)
MutantReplenished(level, qty) == qty

(* What a new quantity shows to be refilled.                               *)
Replenished(level, qty) == Max2(qty - Max2(level.visible - level.pending, 0), 0)

LevelBefore(d, p) ==
  IF d.levels[p] = NoLevel THEN [visible |-> 0, pending |-> 0] ELSE d.levels[p]

(* Mutant: a level that is emptied stays as it was.                        *)
MutantLevelAfter(d, e, p) ==
  IF e.book[p] = 0 /\ p \notin Open(d) THEN d.levels[p]
  ELSE [visible |-> e.book[p], pending |-> 0]

LevelAfter(d, e, p) ==
  IF e.book[p] = 0 /\ p \notin Open(d) THEN NoLevel
  ELSE [visible |-> e.book[p], pending |-> 0]

EpisodeAfter(d, e, p) ==
  LET level  == LevelBefore(d, p)
      refill == Replenished(level, e.book[p])
      counts == level.pending > 0 /\ refill >= RefillThreshold
  IN  [d.episodes[p] EXCEPT !.last = e.at,
                            !.replenished = @ + (IF counts THEN refill ELSE 0)]

(* apply_level, for each price of a depth update.                          *)
WithLevels(d, e) ==
  [d EXCEPT
     !.levels = [p \in Prices |-> IF p \in e.prices THEN LevelAfter(d, e, p) ELSE d.levels[p]],
     !.episodes = [p \in Prices |-> IF p \in e.prices /\ p \in Open(d)
                                    THEN EpisodeAfter(d, e, p) ELSE d.episodes[p]]]

(* update_adverse_ticks: an episode whose level the market has left ends.  *)
WithoutAdverse(d) ==
  [d EXCEPT !.episodes =
     [p \in Prices |-> IF Bids(d) # {} /\ p - BestBid(d) > MaxAdverse
                       THEN NoEpisode ELSE @[p]]]

(* process_depth                                                           *)
ProcessBook(d, e) ==
  IF e.id \in d.seen THEN d
  ELSE LET c == IF e.boundary
                THEN [d EXCEPT !.levels = NoLevels, !.episodes = NoEpisodes]
                ELSE d
           l == WithTouch(WithLevels(c, e), e.at)
           q == IF e.boundary \/ d.quality = "Degraded" THEN "Healthy" ELSE d.quality
       IN  [WithoutAdverse(l) EXCEPT !.seen = @ \cup {e.id}, !.quality = q]

ProcessQuality(d, e) ==
  [d EXCEPT !.quality = e.quality,
            !.episodes = IF e.quality = "Healthy" THEN @ ELSE NoEpisodes]

(* process: what the detector may be after e.                              *)
Process(d, e) ==
  LET x == Expired(d, e.at)
  IN  CASE e.type = "Trade"   -> {ProcessTrade(x, e, s) : s \in BOOLEAN}
        [] e.type = "Book"    -> {ProcessBook(x, e)}
        [] e.type = "Quality" -> {ProcessQuality(x, e)}

(* The history after processing e: the last changes that a trade and a     *)
(* depth event brought in, and whether one came after its successor.       *)
Noted(e) ==
  CASE e.type = "Trade" ->
         [seenChange EXCEPT !.trade = Max2(@, e.change),
                            !.disordered = @ \/ e.change <= seenChange.book]
    [] e.type = "Book" ->
         [seenChange EXCEPT !.book = Max2(@, e.change), !.added = e.added,
                            !.disordered = @ \/ e.change < seenChange.trade]
    [] OTHER -> seenChange

NoteProcessed(e) ==
  /\ seenChange' = Noted(e)
  /\ seenBook' = IF e.type = "Book" THEN e.book ELSE seenBook

-----------------------------------------------------------------------------
(* The detector is made while the depth adapter waits for its snapshot.    *)
Init ==
  /\ now = 1 /\ changedAt = 1 /\ changes = 0 /\ updateId = 1
  /\ market = MaxQty /\ added = [p \in Prices |-> 0] /\ changed = {}
  /\ breaks = 0 /\ feed = "syncing" /\ depthQueue = <<>> /\ tradeQueue = <<>>
  /\ detector = Fresh("Synchronizing", {})
  /\ buffer = <<>> /\ latest = 0
  /\ consumed = TRUE /\ toggles = 0 /\ releasedAt = 0 /\ missed = FALSE
  /\ resyncing = TRUE
  /\ seenBook = [p \in Prices |-> 0]
  /\ seenChange = [trade |-> 0, book |-> 0, added |-> [p \in Prices |-> 0],
                   disordered |-> FALSE]

(* The exchange *)

Tick ==
  /\ now < MaxTime /\ now' = now + 1
  /\ UNCHANGED <<market, added, changed, changes, changedAt, updateId, breaks, feed, depthQueue,
                 tradeQueue, insideVars>>

Change(p, qty) ==
  /\ changes < MaxChanges
  /\ market' = [market EXCEPT ![p] = qty]
  /\ added' = [added EXCEPT ![p] = @ + Max2(qty - market[p], 0)]
  /\ changed' = changed \cup {p}
  /\ changes' = changes + 1 /\ changedAt' = now
  /\ UNCHANGED <<now, updateId, breaks, feed, depthQueue, insideVars>>

(* Orders are added or withdrawn, or executed while the trade stream is    *)
(* down.                                                                   *)
Reprice(p, qty) ==
  /\ qty \in {market[p] - 1, market[p] + 1} \cap Qty(p)
  /\ Change(p, qty)
  /\ UNCHANGED tradeQueue

(* A seller hits the best bid.                                             *)
Execute(p) ==
  /\ market[p] > 0 /\ \A q \in Prices : q > p => market[q] = 0
  /\ Len(tradeQueue) < MaxTradeQueue
  /\ Change(p, market[p] - 1)
  /\ tradeQueue' = Append(tradeQueue, Trade(p, changes + 1))

(* The depth adapter, as module DepthSync has it: a boundary comes with    *)
(* Healthy, diffs follow without a hole, and a hole is told as a Gap.      *)

Room(k) == Len(depthQueue) + k <= MaxDepthQueue

DepthConnect ==
  /\ feed = "down" /\ Room(1)
  /\ feed' = "syncing"
  /\ depthQueue' = Append(depthQueue, Quality("Synchronizing"))
  /\ UNCHANGED <<marketVars, breaks, tradeQueue, insideVars>>

(* A boundary has a new id, unless nothing has changed since the last one. *)
DepthBoundary ==
  /\ feed = "syncing" /\ Room(2)
  /\ feed' = "live"
  /\ updateId' = IF changed = {} THEN updateId ELSE updateId + 1
  /\ changed' = {}
  /\ depthQueue' = depthQueue \o
       <<Book(TRUE, updateId', {p \in Prices : market[p] > 0}), Quality("Healthy")>>
  /\ UNCHANGED <<now, market, added, changes, changedAt, breaks, tradeQueue, insideVars>>

DepthUpdate ==
  /\ changed # {}
  /\ updateId' = updateId + 1 /\ changed' = {}
  /\ IF feed = "live"
     THEN Room(1) /\ depthQueue' = Append(depthQueue, Book(FALSE, updateId', changed))
     ELSE UNCHANGED depthQueue
  /\ UNCHANGED <<now, market, added, changes, changedAt, breaks, feed, tradeQueue, insideVars>>

(* A diff was lost: the next one shows the hole, live or in a replay.      *)
DepthGap ==
  /\ breaks < MaxBreaks /\ breaks' = breaks + 1
  /\ feed # "down" /\ changed # {} /\ Room(1)
  /\ feed' = "syncing"
  /\ updateId' = updateId + 1 /\ changed' = {}
  /\ depthQueue' = Append(depthQueue, Break("Gap", "depth"))
  /\ UNCHANGED <<now, market, added, changes, changedAt, tradeQueue, insideVars>>

DepthDisconnect ==
  /\ breaks < MaxBreaks /\ breaks' = breaks + 1
  /\ feed # "down" /\ Room(1)
  /\ feed' = "down"
  /\ depthQueue' = Append(depthQueue, Break("Degraded", "depth"))
  /\ UNCHANGED <<marketVars, tradeQueue, insideVars>>

TradeDisconnect ==
  /\ breaks < MaxBreaks /\ breaks' = breaks + 1
  /\ Len(tradeQueue) < MaxTradeQueue
  /\ tradeQueue' = Append(tradeQueue, Break("Degraded", "trade"))
  /\ UNCHANGED <<marketVars, feed, depthQueue, insideVars>>

-----------------------------------------------------------------------------
(* The registry *)

(* sync_requirements, before every order-flow event of any market: panes   *)
(* may have been told to show markers, or not to.  A requirement without a *)
(* detector makes one, in the state CollectGarbage leaves.                 *)
SyncRequirements ==
  \/ UNCHANGED <<consumed, toggles, releasedAt>>
  \/ /\ toggles < MaxToggles /\ toggles' = toggles + 1
     /\ consumed' = ~consumed
     /\ releasedAt' = IF consumed THEN now ELSE 0

OtherMarketEvent ==
  /\ SyncRequirements
  /\ UNCHANGED <<marketVars, breaks, feed, depthQueue, tradeQueue, missed, detectorVars,
                 historyVars>>

(* collect_garbage, on a tick of the application.                          *)
CollectGarbage ==
  /\ ~consumed /\ releasedAt # 0 /\ now - releasedAt >= ReleaseGrace
  /\ detector' = Fresh("Synchronizing", {}) /\ buffer' = <<>> /\ latest' = 0
  /\ releasedAt' = 0 /\ missed' = FALSE
  /\ UNCHANGED <<marketVars, breaks, feed, depthQueue, tradeQueue, consumed, toggles, historyVars>>

-----------------------------------------------------------------------------
(* ingest *)

Ready == buffer # <<>> /\ Head(buffer).event.at <= latest - ReorderWindow

(* Mutant: what waits in the buffer is kept.                               *)
MutantInvalidate(e) ==
  /\ detector' = Invalidated(detector, e.quality)
  /\ UNCHANGED <<buffer, latest, seenBook, seenChange>>

Invalidate(e) ==
  /\ detector' = Invalidated(detector, e.quality)
  /\ buffer' = <<>>
  /\ UNCHANGED <<latest, seenBook, seenChange>>

Push(e) ==
  /\ Len(buffer) < MaxReorder
  /\ buffer' = Sorted(buffer, Received(e))
  /\ UNCHANGED <<detector, seenBook, seenChange>>

(* A full buffer gives up its oldest event early.                          *)
Overflow(e) ==
  /\ Len(buffer) = MaxReorder
  /\ \E d \in Process(detector, Head(buffer).event) :
       detector' = [d EXCEPT !.quality = "Degraded"]
  /\ buffer' = Sorted(Tail(buffer), Received(e))
  /\ NoteProcessed(Head(buffer).event)

OfDepth(e) == IF e.type = "Break" THEN e.source = "depth" ELSE e.type # "Trade"

(* BinanceIcebergDetector::ingest, up to drain_watermark.                  *)
Consume(e) ==
  IF e.type = "Break" THEN Invalidate(e)
  ELSE /\ latest' = Max2(latest, e.at)
       /\ Push(e) \/ Overflow(e)

(* IcebergDetectorRegistry::ingest, and whether the depth stream is between*)
(* a break and its boundary now.                                           *)
Ingest(e) ==
  /\ ~Ready
  /\ SyncRequirements
  /\ IF consumed'
     THEN Consume(e) /\ missed' = (missed /\ ~(e.type = "Break" /\ OfDepth(e)))
     ELSE /\ UNCHANGED <<detectorVars, seenBook, seenChange>>
          /\ missed' = (missed \/ (OfDepth(e) /\ releasedAt' # 0))
  /\ resyncing' = IF e.type = "Break" THEN resyncing \/ OfDepth(e)
                  ELSE resyncing /\ ~(e.type = "Book" /\ e.boundary)
  /\ UNCHANGED <<marketVars, breaks, feed>>

IngestDepth ==
  /\ depthQueue # <<>>
  /\ Ingest(Head(depthQueue))
  /\ depthQueue' = Tail(depthQueue) /\ UNCHANGED tradeQueue

IngestTrade ==
  /\ tradeQueue # <<>>
  /\ Ingest(Head(tradeQueue))
  /\ tradeQueue' = Tail(tradeQueue) /\ UNCHANGED depthQueue

(* drain_watermark, one event at a time.                                   *)
Drain ==
  /\ Ready
  /\ detector' \in Process(detector, Head(buffer).event)
  /\ buffer' = Tail(buffer)
  /\ NoteProcessed(Head(buffer).event)
  /\ UNCHANGED <<marketVars, breaks, feed, depthQueue, tradeQueue, registryVars, latest,
                 resyncing>>

-----------------------------------------------------------------------------
Outside ==
  \/ Tick
  \/ \E p \in Prices : Execute(p) \/ \E qty \in Qty(p) : Reprice(p, qty)
  \/ DepthConnect \/ DepthBoundary \/ DepthUpdate \/ DepthGap \/ DepthDisconnect
  \/ TradeDisconnect

Next ==
  \/ ~Ready /\ (Outside \/ OtherMarketEvent \/ CollectGarbage)
  \/ IngestDepth \/ IngestTrade \/ Drain

Spec == Init /\ [][Next]_vars

-----------------------------------------------------------------------------
(* Properties *)

Level == [visible: UNION {Qty(p) : p \in Prices}, pending: Nat]
Episode == [started: Times, last: Times, replenished: Nat, base: Nat]

TypeOK ==
  /\ detector.quality \in Qualities
  /\ detector.levels \in [Prices -> Level \cup {NoLevel}]
  /\ detector.episodes \in [Prices -> Episode \cup {NoEpisode}]
  /\ Cardinality(Open(detector)) <= MaxEpisodes
  /\ detector.trades \in Seq(Times) /\ Len(detector.trades) <= MaxSamples
  /\ detector.touches \in Seq(Times) /\ Len(detector.touches) <= MaxSamples
  /\ Len(buffer) <= MaxReorder

(* A level the detector holds is never stale: it has the quantity of the   *)
(* last depth event processed, whatever events were dropped with the       *)
(* buffer, put out of order by an overflow or refused as already seen, and *)
(* whenever a detector was removed and a new one made - unless this one was*)
(* left out of a depth event while no pane wanted markers.                 *)
NoStaleLevel ==
  ~missed =>
    \A p \in Prices :
      detector.levels[p] # NoLevel => detector.levels[p].visible = seenBook[p]

(* Between a break of the depth stream and its next boundary the detector  *)
(* is not Healthy and no episode is open: nothing that waited in the       *)
(* reorder buffer brings it back - unless it was left out of a depth event *)
(* while no pane wanted markers.                                           *)
NoDetectionWhileResyncing ==
  resyncing /\ ~missed => detector.quality # "Healthy" /\ Open(detector) = {}

(* As long as events are processed in the order of the market, and none of *)
(* the depth stream is left out, a refill is made of quantity that was     *)
(* added at that price since the episode began.                            *)
RefillIsReal ==
  ~seenChange.disordered /\ ~missed =>
    \A p \in Open(detector) :
      detector.episodes[p].replenished
        <= seenChange.added[p] - detector.episodes[p].base

(* What docs/binance-iceberg-detector.md says: after a gap, a reconnect or *)
(* a resync, detection resumes only after a snapshot boundary and a        *)
(* continuous sequence.  So a depth event that makes the detector Healthy  *)
(* leaves it with the whole book.                                          *)
ResumesWithWholeBook ==
  [][(/\ Ready /\ Head(buffer).event.type = "Book"
      /\ detector.quality # "Healthy" /\ detector'.quality = "Healthy")
     => \A p \in Prices : Visible(detector', p) = seenBook'[p]]_vars

(* What the same document says: for each price the engine retains the      *)
(* visible quantity.  So a detector whose markers are shown has no stale   *)
(* level, and in particular one that panes want again within the grace     *)
(* period, after it was left out of the events in between.                 *)
RetainsVisibleQuantity ==
  consumed /\ detector.quality = "Healthy" =>
    \A p \in Prices :
      detector.levels[p] # NoLevel => detector.levels[p].visible = seenBook[p]
=============================================================================
