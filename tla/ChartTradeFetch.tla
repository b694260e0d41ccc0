--------------------------- MODULE ChartTradeFetch ---------------------------
(***************************************************************************)
(* Historical trades of one candle chart: the chart asks for the newest    *)
(* range it has not covered, a worker downloads it, and the worker's       *)
(* messages come back through the queue of the UI thread.                  *)
(*                                                                         *)
(*   chart      KlineChart in src/chart/kline.rs: the request registry     *)
(*              (module RequestHandler), covered_trade_ranges and          *)
(*              fetching_trades = (bool, Option<Handle>)                   *)
(*   worker     fetch_trades_batched in src/connector/fetcher.rs; its      *)
(*              handle is abort_on_drop, so whoever overwrites             *)
(*              fetching_trades stops it                                   *)
(*   dashboard  the handlers of src/screen/dashboard.rs that apply the     *)
(*              worker's messages                                          *)
(*                                                                         *)
(* UI steps are atomic.  Workers run on the executor: they, the clock and  *)
(* the user's actions interleave freely with the delivery of messages.     *)
(* What a worker put in the queue before it was stopped is still           *)
(* delivered.  Time is a line of points 0..LastPoint, each holding trades. *)
(***************************************************************************)
EXTENDS RequestHandler, TradeRanges, Sequences

CONSTANTS
  LastPoint,      \* the chart shows 0..LastPoint
  ChunkLength,    \* one hour in the code
  LiveTail,       \* LIVE_TAIL_DEFER_MS
  Workers,        \* slots for worker tasks
  NoWorker,       \* no handle, or an empty slot
  MaxInbox        \* capacity of the UI message queue

ASSUME ChartAssumption ==
  /\ LastPoint \in Nat \ {0}
  /\ ChunkLength \in Nat \ {0}
  /\ LiveTail \in Nat
  /\ MaxInbox \in Nat \ {0}
  /\ NoWorker \notin Workers

VARIABLES
  fetching,   \* fetching_trades.0
  handle,     \* fetching_trades.1: the worker it would abort
  covered,    \* covered_trade_ranges
  loaded,     \* points whose trades are in the chart's candles
  workers,    \* the running worker tasks
  cache,      \* points held by the persistent trade cache
  inbox,      \* messages queued for the UI thread
  traversed,  \* points some worker has put in a batch (history)
  steady      \* no setting was changed so far (history)

chartVars == <<fetching, handle, covered, loaded, workers, cache, inbox, traversed>>
systemVars == <<handlerVars, chartVars>>
vars == <<handlerVars, chartVars, steady>>

Points == 0..LastPoint

TradesFetch(from, to) ==
  [kind |-> "Trades", from |-> from, to |-> to, timeframe |-> 1, detail |-> 0]

(* Whatever part of the time line the chart may ask for.                   *)
ASSUME ChartFetchesAssumption ==
  \A from, to \in Points : from < to => TradesFetch(from, to) \in Fetches

(* A worker and what it still has to emit.                                 *)
Worker == [req: Ids, from: Points, to: Points, started: BOOLEAN,
           todo: SUBSET Points]

Idle(w) == workers[w] = NoWorker

Message ==
  [type: {"Data"}, req: Ids, to: Points, points: SUBSET Points]
    \cup [type: {"Completed"}, req: Ids, from: Points, to: Points,
          verifiedTo: -1..LastPoint, empty: BOOLEAN]
    \cup [type: {"Error"}, req: Ids]

(* A chart is opened; the persistent cache may hold points of earlier runs. *)
ChartInit ==
  /\ HandlerInit
  /\ fetching = FALSE
  /\ handle = NoWorker
  /\ covered = {}
  /\ loaded = {}
  /\ workers = [w \in Workers |-> NoWorker]
  /\ cache \in SUBSET Points
  /\ inbox = <<>>
  /\ traversed = {}
  /\ steady = TRUE

-----------------------------------------------------------------------------
(* The chart *)

(* Mutant: the handle does not abort its task when it is dropped.          *)
MutantAborted == workers

(* fetching_trades = (false, None): dropping the handle aborts its worker. *)
Aborted == IF handle = NoWorker THEN workers
           ELSE [workers EXCEPT ![handle] = NoWorker]

ClearFetching ==
  /\ fetching' = FALSE
  /\ handle' = NoWorker
  /\ workers' = Aborted

(* has_pending_trade_requests, after cleanup_stale.                        *)
PendingAfterCleanup ==
  \E id \in Ids : LET r == CleanedEntry(requests[id])
                  IN  r # NoRequest /\ r.status = "Pending" /\ r.fetch.kind = "Trades"

(* Mutant: the flag is cleared by answers only.                            *)
MutantAbandoned == FALSE

(* The flag outlived its request: the chart clears it on the next tick.    *)
Abandoned == fetching /\ ~PendingAfterCleanup

NextGap == SelectGap(covered, 0, LastPoint, LiveTail)

NextFetch == LET c == Chunk(NextGap, ChunkLength) IN TradesFetch(c.from, c.to)

(* fetch_missing_data: nothing to ask for, or a worker is still at it.     *)
ChartTickIdle ==
  /\ CleanupStale
  /\ IF Abandoned THEN ClearFetching ELSE UNCHANGED <<fetching, handle, workers>>
  /\ UNCHANGED <<covered, loaded, cache, inbox, traversed>>

MayFetch == (~fetching \/ Abandoned) /\ IsGap(NextGap)

(* ... the registry turns the request down.                                *)
ChartTickRefused ==
  /\ MayFetch
  /\ AddRejected(NextFetch) \/ AddSuppressed(NextFetch)
  /\ ClearFetching
  /\ UNCHANGED <<covered, loaded, cache, inbox, traversed>>

(* ... or a worker is spawned and its handle stored, in the same step.     *)
NewWorker(id, f) ==
  [req |-> id, from |-> f.from, to |-> f.to, started |-> FALSE, todo |-> {}]

ChartTickFetch(id, w) ==
  /\ MayFetch
  /\ Aborted[w] = NoWorker
  /\ AddReactivated(NextFetch, id) \/ AddQueued(NextFetch, id)
  /\ fetching' = TRUE
  /\ handle' = w
  /\ workers' = [Aborted EXCEPT ![w] = NewWorker(id, NextFetch)]
  /\ UNCHANGED <<covered, loaded, cache, inbox, traversed>>

(* reset_request_handler, after a change of tick size or of the trade      *)
(* switch (candles keep their trades) or of the basis (they are rebuilt).  *)
ResetRequestHandler ==
  /\ SupersedeAllPending
  /\ ClearFetching
  /\ covered' = {}
  /\ loaded' \in {loaded, {}}
  /\ UNCHANGED <<cache, inbox, traversed>>

(* "Clear market-data cache": clear_all, then every chart forgets its      *)
(* requests and its trades.                                                *)
InvalidateMarketDataCache ==
  /\ requests' = [id \in Ids |-> NoRequest]
  /\ generationId' = 0
  /\ emptyAge' = [f \in Fetches |-> EmptyTtl]
  /\ cache' = {}
  /\ loaded' = {}
  /\ UNCHANGED <<issued, fetching, handle, covered, workers, inbox, traversed>>

-----------------------------------------------------------------------------
(* The worker *)

(* Mutant: an unbounded queue.                                             *)
MutantEmit(m) == inbox' = Append(inbox, m)

Emit(m) == Len(inbox) < MaxInbox /\ inbox' = Append(inbox, m)

Data(r, points) ==
  [type |-> "Data", req |-> r.req, to |-> r.to, points |-> points]

(* Mutant: the unfilled tail is reported as traversed.                     *)
MutantCompleted(r, verifiedTo, empty) ==
  [type |-> "Completed", req |-> r.req, from |-> r.from, to |-> r.to,
   verifiedTo |-> r.to, empty |-> empty]

Completed(r, verifiedTo, empty) ==
  [type |-> "Completed", req |-> r.req, from |-> r.from, to |-> r.to,
   verifiedTo |-> verifiedTo, empty |-> empty]

Error(r) == [type |-> "Error", req |-> r.req]

(* Mutant: cached points are skipped but not sent.                         *)
MutantWorkerStart(w) ==
  LET r == workers[w]
  IN  /\ ~Idle(w) /\ ~r.started
      /\ workers' = [workers EXCEPT ![w].started = TRUE,
                                    ![w].todo = (r.from..r.to) \ cache]
      /\ traversed' = traversed \cup (cache \cap (r.from..r.to))
      /\ UNCHANGED <<handlerVars, fetching, handle, covered, loaded, cache, inbox>>

(* It first sends what the cache holds of its range, even the part that    *)
(* lies beyond what it has yet to download.                                *)
WorkerStart(w) ==
  LET r      == workers[w]
      cached == cache \cap (r.from..r.to)
  IN  /\ ~Idle(w) /\ ~r.started
      /\ workers' = [workers EXCEPT ![w].started = TRUE,
                                    ![w].todo = (r.from..r.to) \ cached]
      /\ IF cached = {} THEN UNCHANGED inbox ELSE Emit(Data(r, cached))
      /\ traversed' = traversed \cup cached
      /\ UNCHANGED <<handlerVars, fetching, handle, covered, loaded, cache>>

(* A page of the download: the missing points up to some last one, stored  *)
(* in the cache and sent.                                                  *)
WorkerPage(w, last) ==
  LET r    == workers[w]
      page == {p \in r.todo : p <= last}
  IN  /\ ~Idle(w) /\ r.started /\ last \in r.todo
      /\ workers' = [workers EXCEPT ![w].todo = @ \ page]
      /\ cache' = cache \cup page
      /\ traversed' = traversed \cup page
      /\ Emit(Data(r, page))
      /\ UNCHANGED <<handlerVars, fetching, handle, covered, loaded>>

Finish(w, m) ==
  /\ workers' = [workers EXCEPT ![w] = NoWorker]
  /\ Emit(m)
  /\ UNCHANGED <<handlerVars, fetching, handle, covered, loaded, cache, traversed>>

WorkerDone(w) ==
  /\ ~Idle(w) /\ workers[w].started /\ workers[w].todo = {}
  /\ Finish(w, Completed(workers[w], workers[w].to, FALSE))

(* It gives up with a tail left: a time-out, no progress or an empty page. *)
WorkerYield(w, empty) ==
  LET r == workers[w]
  IN  /\ ~Idle(w) /\ r.started /\ r.todo # {}
      /\ empty \/ Min(r.todo) > r.from
      /\ Finish(w, Completed(r, Min(r.todo) - 1, empty))

WorkerError(w) ==
  /\ ~Idle(w) /\ workers[w].started /\ workers[w].todo # {}
  /\ Finish(w, Error(workers[w]))

-----------------------------------------------------------------------------
(* The dashboard *)

(* mark_completed, which leaves a request that is not pending alone.       *)
CompletedIfPending(id) ==
  IF HasStatus(id, "Pending")
  THEN [requests EXCEPT ![id].status = "Completed", ![id].age = 0]
  ELSE requests

Receive(m) == inbox # <<>> /\ m = Head(inbox) /\ inbox' = Tail(inbox)

(* distribute_fetched_data: the stale check comes first.                   *)
DiscardData ==
  LET m == Head(inbox)
  IN  /\ Receive(m) /\ m.type = "Data"
      /\ IsStaleGeneration(m.req)
      /\ requests' = CompletedIfPending(m.req)
      /\ UNCHANGED <<generationId, emptyAge, issued>>
      /\ UNCHANGED <<fetching, handle, covered, loaded, workers, cache, traversed>>

(* insert_raw_trades: a batch that reaches the end of the range is taken   *)
(* for the last one.                                                       *)
ApplyData ==
  LET m == Head(inbox)
  IN  /\ Receive(m) /\ m.type = "Data"
      /\ ~IsStaleGeneration(m.req)
      /\ loaded' = loaded \cup m.points
      /\ IF m.to \in m.points THEN ClearFetching
         ELSE UNCHANGED <<fetching, handle, workers>>
      /\ UNCHANGED <<handlerVars, covered, cache, traversed>>

(* complete_trade_fetch.                                                   *)
CompleteTradeFetch ==
  LET m    == Head(inbox)
      tail == TradesFetch(m.verifiedTo + 1, m.to)
  IN  /\ Receive(m) /\ m.type = "Completed"
      /\ requests' = CompletedIfPending(m.req)
      /\ emptyAge' = IF m.empty /\ tail \in Fetches
                     THEN [emptyAge EXCEPT ![tail] = 0] ELSE emptyAge
      /\ covered' = MarkCovered(covered, m.from, m.verifiedTo)
      /\ ClearFetching
      /\ UNCHANGED <<generationId, issued, loaded, cache, traversed>>

(* mark_request_failed.                                                    *)
FailTradeFetch ==
  LET m == Head(inbox)
  IN  /\ Receive(m) /\ m.type = "Error"
      /\ IF HasStatus(m.req, "Pending") \/ HasStatus(m.req, "Failed")
         THEN MarkFailed(m.req) ELSE UNCHANGED handlerVars
      /\ IF IsTradeRequest(m.req) THEN ClearFetching
         ELSE UNCHANGED <<fetching, handle, workers>>
      /\ UNCHANGED <<covered, loaded, cache, traversed>>

Deliver == DiscardData \/ ApplyData \/ CompleteTradeFetch \/ FailTradeFetch

(* Retentions and delays are seconds long: queued messages are handled     *)
(* before one of them can elapse.                                          *)
TimePasses == inbox = <<>> /\ Tick /\ UNCHANGED chartVars

-----------------------------------------------------------------------------
WorkerStep(w) ==
  \/ WorkerStart(w)
  \/ \E last \in Points : WorkerPage(w, last)
  \/ WorkerDone(w)
  \/ \E empty \in BOOLEAN : WorkerYield(w, empty)
  \/ WorkerError(w)

ChartTick ==
  \/ ChartTickIdle
  \/ ChartTickRefused
  \/ \E id \in Ids, w \in Workers : ChartTickFetch(id, w)

SteadyNext ==
  \/ TimePasses
  \/ ChartTick
  \/ Deliver
  \/ \E w \in Workers : WorkerStep(w)

Next ==
  \/ SteadyNext /\ UNCHANGED steady
  \/ (ResetRequestHandler \/ InvalidateMarketDataCache) /\ steady' = FALSE

Spec == ChartInit /\ [][Next]_vars

(* The chart as long as the user does no more than clear the cache.        *)
ClearingNext ==
  \/ SteadyNext /\ UNCHANGED steady
  \/ InvalidateMarketDataCache /\ steady' = FALSE

ClearingSpec == ChartInit /\ [][ClearingNext]_vars

(* The UI thread keeps handling messages and ticking, and time passes.     *)
(* Every chart tick begins with what ChartTickIdle does and leaves it with *)
(* nothing to do, so ticks that keep coming keep it from staying enabled.  *)
(* Nothing is assumed of workers: a download may hang for ever.            *)
FairSpec ==
  /\ Spec
  /\ WF_systemVars(TimePasses) /\ WF_systemVars(ChartTickIdle) /\ WF_systemVars(Deliver)

-----------------------------------------------------------------------------
(* Properties *)

ChartTypeOK ==
  /\ TypeOK
  /\ fetching \in BOOLEAN
  /\ handle \in Workers \cup {NoWorker}
  /\ covered \subseteq [from: Points, to: Points]
  /\ loaded \subseteq Points
  /\ workers \in [Workers -> Worker \cup {NoWorker}]
  /\ cache \subseteq Points
  /\ inbox \in Seq(Message) /\ Len(inbox) <= MaxInbox
  /\ traversed \subseteq Points
  /\ steady \in BOOLEAN

(* A chart downloads one range at a time: whatever the interleaving of     *)
(* resets, answers and time-outs, a worker that is not the one the chart   *)
(* can abort is not running, so two never feed the same candles.           *)
OneWorker == \A w \in Workers : ~Idle(w) => handle = w

(* Only what some worker has gone through counts as covered: the tail a    *)
(* worker reports as unfilled is never marked.                             *)
OnlyTraversedIsCovered == \A r \in covered : r.from..r.to \subseteq traversed

(* The next range asked for is missing from end to end, and nothing is     *)
(* asked for only when nothing is missing.                                 *)
GapsAreExact ==
  /\ Merged(covered)
  /\ IF IsGap(NextGap)
     THEN (NextGap.from..(NextGap.to - 1)) \cap Steps(covered) = {}
     ELSE 0..(LastPoint - 1) \subseteq Steps(covered)

(* As long as no setting changes, a range that counts as covered, and will *)
(* therefore never be asked for again, has its trades in the candles.      *)
CandlesHoldCovered == \A r \in covered : r.from..r.to \subseteq loaded

CoveredIsLoaded == steady => CandlesHoldCovered

(* A chart never stays "already fetching": lost answers and dead workers   *)
(* only block it until the request times out.                              *)
FetchingEnds == fetching ~> ~fetching

(* What the comment at kline.rs:1153 says: when the worker of a superseded *)
(* request completes, its result is recognised as stale and changes        *)
(* nothing.                                                                *)
SupersededResultIgnored ==
  [][\A id \in Ids :
       (inbox # <<>> /\ Head(inbox).req = id /\ HasStatus(id, "Superseded")
          /\ inbox' = Tail(inbox))
         => UNCHANGED <<covered, loaded, fetching, handle>>]_vars

(* What the doc comment at kline.rs:1162 says: clearing the market-data    *)
(* cache drops the chart's derived history so that it is rebuilt from the  *)
(* next tick on, which takes that every range counts as missing again.     *)
ClearedIsMissing == [][InvalidateMarketDataCache => Steps(covered') = {}]_vars
=============================================================================
