----------------------- MODULE ChartTradeFetchProofs -----------------------
(***************************************************************************)
(* The trade history of a chart, for any number of worker slots, any queue *)
(* length, any time line and any registry: one worker at a time, coverage  *)
(* that some worker has earned, gaps that are exactly missing - and, while *)
(* no setting changes, coverage whose trades are in the candles.           *)
(***************************************************************************)
EXTENDS ChartTradeFetch, RequestHandlerProofs, TradeRangesProofs, SequenceTheorems, TLAPS

(* A worker is reachable only through the handle, and every assignment to  *)
(* fetching_trades goes through Aborted, which empties the slot it names.  *)
WorkerInv ==
  /\ workers = [w \in Workers |-> workers[w]]
  /\ handle \in Workers \cup {NoWorker}
  /\ OneWorker

(* Dropping the handle leaves no worker running.                           *)
LEMMA AbortedIsIdle ==
  ASSUME WorkerInv
  PROVE  /\ Aborted = [w \in Workers |-> Aborted[w]]
         /\ \A w \in Workers : Aborted[w] = NoWorker
<1>1. CASE handle = NoWorker
  <2>1. Aborted = workers
    BY <1>1 DEF Aborted
  <2>2. handle \notin Workers
    BY <1>1, ChartAssumption
  <2>3. QED
    BY <2>1, <2>2 DEF WorkerInv, OneWorker, Idle
<1>2. CASE handle # NoWorker
  <2>1. Aborted = [workers EXCEPT ![handle] = NoWorker] /\ handle \in Workers
    BY <1>2 DEF Aborted, WorkerInv
  <2>2. QED
    BY <2>1 DEF WorkerInv, OneWorker, Idle
<1>3. QED
  BY <1>1, <1>2

(* Clearing the flag stops the worker.                                     *)
LEMMA ClearKeeps ==
  ASSUME WorkerInv, ClearFetching
  PROVE  WorkerInv'
<1>1. workers' = Aborted /\ handle' = NoWorker
  BY DEF ClearFetching
<1>2. QED
  BY <1>1, AbortedIsIdle DEF WorkerInv, OneWorker, Idle

(* A step that leaves the handle and the running workers alone.            *)
LEMMA SameKeeps ==
  ASSUME WorkerInv, UNCHANGED <<handle, workers>>
  PROVE  WorkerInv'
BY DEF WorkerInv, OneWorker, Idle

(* A worker's own step keeps the chart's grip on it.                       *)
LEMMA WorkerKeeps ==
  ASSUME WorkerInv, NEW w \in Workers, WorkerStep(w)
  PROVE  WorkerInv'
<1> DEFINE Own == /\ ~Idle(w)
                  /\ handle' = handle
                  /\ workers' = [v \in Workers |-> workers'[v]]
                  /\ \A v \in Workers \ {w} : workers'[v] = workers[v]
<1>1. Own
  <2>1. CASE WorkerStart(w)
    <3> DEFINE started == [workers EXCEPT ![w].started = TRUE]
    <3>1. \E points : workers' = [started EXCEPT ![w].todo = points]
      BY <2>1 DEF WorkerStart
    <3>2. started = [v \in Workers |-> started[v]]
      BY DEF WorkerInv
    <3>3. \A v \in Workers \ {w} : started[v] = workers[v]
      BY DEF WorkerInv
    <3> HIDE DEF started
    <3>4. /\ workers' = [v \in Workers |-> workers'[v]]
          /\ \A v \in Workers \ {w} : workers'[v] = workers[v]
      BY <3>1, <3>2, <3>3
    <3>5. QED
      BY <2>1, <3>4 DEF WorkerStart
  <2>2. ASSUME NEW last \in Points, WorkerPage(w, last)
        PROVE  Own
    <3>1. workers' = [workers EXCEPT ![w].todo =
                        @ \ {p \in workers[w].todo : p <= last}]
      BY <2>2 DEF WorkerPage
    <3>2. QED
      BY <2>2, <3>1 DEF WorkerPage, WorkerInv
  <2>3. CASE ~Idle(w) /\ \E m : Finish(w, m)
    BY <2>3 DEF Finish, WorkerInv
  <2>4. WorkerDone(w) \/ WorkerError(w) \/ (\E empty \in BOOLEAN : WorkerYield(w, empty))
          => ~Idle(w) /\ \E m : Finish(w, m)
    BY DEF WorkerDone, WorkerError, WorkerYield
  <2>5. QED
    BY <2>1, <2>2, <2>3, <2>4 DEF WorkerStep
<1>2. QED
  BY <1>1 DEF WorkerInv, OneWorker, Idle

(* The worker spawned by a chart tick replaces the one it stopped.         *)
LEMMA FetchKeeps ==
  ASSUME WorkerInv, NEW id \in Ids, NEW w \in Workers, ChartTickFetch(id, w)
  PROVE  WorkerInv'
<1>1. handle' = w /\ workers' = [Aborted EXCEPT ![w] = NewWorker(id, NextFetch)]
  BY DEF ChartTickFetch
<1>2. QED
  BY <1>1, AbortedIsIdle DEF WorkerInv, OneWorker, Idle

(* Whatever the interleaving, at most the worker the chart can abort runs. *)
THEOREM SingleWorker == Spec => []OneWorker
<1>1. ChartInit => WorkerInv
  BY DEF ChartInit, WorkerInv, OneWorker, Idle
<1>2. ASSUME WorkerInv, [Next]_vars
      PROVE  WorkerInv'
  <2>1. CASE UNCHANGED vars
    BY <1>2, <2>1, SameKeeps DEF vars, chartVars
  <2>2. CASE TimePasses
    BY <1>2, <2>2, SameKeeps DEF TimePasses, chartVars
  <2>3. CASE ChartTickIdle
    BY <1>2, <2>3, SameKeeps, ClearKeeps DEF ChartTickIdle
  <2>4. CASE ChartTickRefused
    BY <1>2, <2>4, ClearKeeps DEF ChartTickRefused
  <2>5. ASSUME NEW id \in Ids, NEW w \in Workers, ChartTickFetch(id, w)
        PROVE  WorkerInv'
    BY <1>2, <2>5, FetchKeeps
  <2>6. CASE Deliver
    BY <1>2, <2>6, SameKeeps, ClearKeeps
       DEF Deliver, DiscardData, ApplyData, CompleteTradeFetch, FailTradeFetch
  <2>7. ASSUME NEW w \in Workers, WorkerStep(w)
        PROVE  WorkerInv'
    BY <1>2, <2>7, WorkerKeeps
  <2>8. CASE ResetRequestHandler
    BY <1>2, <2>8, ClearKeeps DEF ResetRequestHandler
  <2>9. CASE InvalidateMarketDataCache
    BY <1>2, <2>9, SameKeeps DEF InvalidateMarketDataCache
  <2>10. QED
    BY <1>2, <2>1, <2>2, <2>3, <2>4, <2>5, <2>6, <2>7, <2>8, <2>9
       DEF Next, SteadyNext, ChartTick
<1>3. WorkerInv => OneWorker
  BY DEF WorkerInv
<1>4. QED
  BY <1>1, <1>2, <1>3, PTL DEF Spec

-----------------------------------------------------------------------------
(* The invariant: workers, covered ranges, messages, registry *)

WorkerCovers(r, points) ==
  /\ r.from < r.to
  /\ r.todo \subseteq r.from..r.to
  /\ r.started => (r.from..r.to) \ r.todo \subseteq points

WorkSide ==
  /\ fetching \in BOOLEAN
  /\ workers \in [Workers -> Worker \cup {NoWorker}]
  /\ WorkerInv
  /\ \A w \in Workers : ~Idle(w) => WorkerCovers(workers[w], traversed)

CoverSide ==
  /\ covered \subseteq [from: Points, to: Points]
  /\ loaded \subseteq Points
  /\ cache \subseteq Points
  /\ traversed \subseteq Points
  /\ Merged(covered)
  /\ OnlyTraversedIsCovered

(* What a completion reports has been gone through.                        *)
Honest(m) == m.type = "Completed" => m.from..m.verifiedTo \subseteq traversed

InboxSide ==
  /\ inbox \in Seq(Message)
  /\ Len(inbox) <= MaxInbox
  /\ \A i \in 1..Len(inbox) : Honest(inbox[i])

ChartInv == HandlerInv /\ WorkSide /\ CoverSide /\ InboxSide

LEMMA ChartConstants ==
  /\ LastPoint \in Nat \ {0} /\ LastPoint \in Int /\ 0 \in Points
  /\ Points = 0..LastPoint /\ Points \subseteq Nat
  /\ RangesUpTo(LastPoint) = [from: Points, to: Points]
  /\ ChunkLength \in Nat \ {0} /\ MaxInbox \in Nat \ {0}
BY ChartAssumption DEF Points, RangesUpTo

LEMMA MessageFields ==
  ASSUME NEW m \in Message
  PROVE  /\ m.req \in Ids
         /\ m.type \in {"Data", "Completed", "Error"}
         /\ m.type = "Data" => m.to \in Points /\ m.points \subseteq Points
         /\ m.type = "Completed" => /\ m.from \in Points /\ m.to \in Points
                                    /\ m.verifiedTo \in -1..LastPoint
                                    /\ m.empty \in BOOLEAN
BY DEF Message

LEMMA WorkerFields ==
  ASSUME NEW r \in Worker
  PROVE  /\ r.req \in Ids /\ r.from \in Points /\ r.to \in Points
         /\ r.started \in BOOLEAN /\ r.todo \subseteq Points
BY DEF Worker

(* The parts of the invariant under the steps that hardly touch them.      *)
LEMMA WorkKept ==
  ASSUME WorkSide, ClearFetching \/ UNCHANGED <<fetching, handle, workers>>,
         traversed \subseteq traversed'
  PROVE  WorkSide'
<1>1. CASE ClearFetching
  <2>1. WorkerInv' /\ fetching' = FALSE /\ workers' = Aborted
    BY <1>1, ClearKeeps DEF WorkSide, ClearFetching
  <2>2. Aborted = [w \in Workers |-> Aborted[w]] /\ \A w \in Workers : Aborted[w] = NoWorker
    BY AbortedIsIdle DEF WorkSide
  <2>3. workers' \in [Workers -> Worker \cup {NoWorker}]
    BY <2>1, <2>2
  <2>4. QED
    BY <2>1, <2>2, <2>3 DEF WorkSide, Idle
<1>2. CASE UNCHANGED <<fetching, handle, workers>>
  <2>1. WorkerInv'
    BY <1>2, SameKeeps DEF WorkSide
  <2>2. QED
    BY <1>2, <2>1 DEF WorkSide, Idle, WorkerCovers
<1>3. QED
  BY <1>1, <1>2

LEMMA CoverKept ==
  ASSUME CoverSide, covered' = covered, traversed \subseteq traversed',
         traversed' \subseteq Points, loaded' \subseteq Points, cache' \subseteq Points
  PROVE  CoverSide'
BY DEF CoverSide, OnlyTraversedIsCovered

LEMMA InboxKept ==
  ASSUME InboxSide, inbox' = inbox, traversed \subseteq traversed'
  PROVE  InboxSide'
BY DEF InboxSide, Honest

LEMMA InboxPopped ==
  ASSUME InboxSide, inbox # <<>>, inbox' = Tail(inbox), traversed' = traversed
  PROVE  InboxSide' /\ Head(inbox) \in Message /\ Honest(Head(inbox))
<1>1. inbox \in Seq(Message) /\ Len(inbox) <= MaxInbox
      /\ \A i \in 1..Len(inbox) : Honest(inbox[i])
  BY DEF InboxSide
<1>2. /\ Tail(inbox) \in Seq(Message) /\ Len(Tail(inbox)) = Len(inbox) - 1
      /\ Head(inbox) = inbox[1] /\ inbox[1] \in Message
      /\ \A i \in 1..Len(Tail(inbox)) : Tail(inbox)[i] = inbox[i + 1]
      /\ Len(inbox) \in Nat \ {0}
  BY <1>1, HeadTailProperties
<1>3. ASSUME NEW i \in 1..Len(Tail(inbox))
      PROVE  Honest(Tail(inbox)[i])
  <2>1. i + 1 \in 1..Len(inbox)
    BY <1>2
  <2>2. QED
    BY <1>1, <1>2, <2>1
<1>4. \A i \in 1..Len(inbox') : Honest(inbox[i])'
  BY <1>3 DEF Honest
<1>5. Len(inbox') <= MaxInbox
  BY <1>1, <1>2, ChartConstants
<1>6. 1 \in 1..Len(inbox)
  BY <1>2
<1>7. QED
  BY <1>1, <1>2, <1>4, <1>5, <1>6 DEF InboxSide

LEMMA InboxPushed ==
  ASSUME InboxSide, NEW m \in Message, Emit(m), traversed \subseteq traversed',
         m.type = "Completed" => m.from..m.verifiedTo \subseteq traversed'
  PROVE  InboxSide'
<1>1. inbox \in Seq(Message) /\ \A i \in 1..Len(inbox) : Honest(inbox[i])
  BY DEF InboxSide
<1>2. inbox' = Append(inbox, m) /\ Len(inbox) < MaxInbox
  BY DEF Emit
<1>3. /\ inbox' \in Seq(Message) /\ Len(inbox') = Len(inbox) + 1 /\ Len(inbox) \in Nat
      /\ \A i \in 1..Len(inbox) : inbox'[i] = inbox[i]
      /\ inbox'[Len(inbox) + 1] = m
  BY <1>1, <1>2, AppendProperties
<1>4. ASSUME NEW i \in 1..Len(inbox')
      PROVE  Honest(inbox[i])'
  <2>1. i \in 1..Len(inbox) \/ i = Len(inbox) + 1
    BY <1>3
  <2>2. QED
    BY <1>1, <1>3, <2>1 DEF Honest
<1>5. Len(inbox') <= MaxInbox
  BY <1>2, <1>3, ChartConstants
<1>6. QED
  BY <1>3, <1>4, <1>5 DEF InboxSide

-----------------------------------------------------------------------------
(* The registry inside the chart *)

(* What the chart asks for next is a range of the registry.                *)
LEMMA NextFetchIs ==
  ASSUME CoverSide, IsGap(NextGap)
  PROVE  /\ NextFetch \in Fetches
         /\ NextFetch.from \in Points /\ NextFetch.to \in Points
         /\ NextFetch.from < NextFetch.to
<1>1. covered \in SUBSET RangesUpTo(LastPoint) /\ Merged(covered)
  BY ChartConstants DEF CoverSide
<1>2. /\ LastPoint \in Nat /\ 0 \in 0..LastPoint /\ LastPoint \in 0..LastPoint
  BY ChartConstants
<1>3. NextGap \in RangesUpTo(LastPoint)
  BY <1>1, <1>2, SelectedGapIs DEF NextGap
<1> DEFINE c == Chunk(NextGap, ChunkLength)
<1>4. c \in RangesUpTo(LastPoint) /\ IsGap(c)
  BY <1>2, <1>3, ChunkIs, ChartConstants
<1> HIDE DEF c
<1>5. c.from \in Points /\ c.to \in Points /\ c.from < c.to
  BY <1>4, ChartConstants DEF IsGap
<1>6. NextFetch = TradesFetch(c.from, c.to)
  BY DEF NextFetch, c
<1>7. QED
  BY <1>5, <1>6, ChartFetchesAssumption DEF TradesFetch

LEMMA CompletedIfPendingInv ==
  ASSUME HandlerInv, NEW id \in Ids, requests' = CompletedIfPending(id),
         emptyAge' \in [Fetches -> 0..EmptyTtl],
         UNCHANGED <<generationId, issued>>
  PROVE  HandlerInv'
<1> DEFINE done == [requests[id] EXCEPT !.status = "Completed", !.age = 0]
<1>1. requests \in [Ids -> Entry] /\ generationId' \in 0..MaxGeneration
  BY DEF HandlerInv, TypeOK, Entry
<1>2. \A other \in Ids : EntryOK(requests[other])
  BY DEF HandlerInv
<1>3. ASSUME HasStatus(id, "Pending")
      PROVE  HandlerInv'
  <2>1. requests' = [requests EXCEPT ![id] = done]
    BY <1>1, <1>3 DEF CompletedIfPending
  <2>2. /\ requests[id] \in Request /\ requests[id] # NoRequest
        /\ requests[id].status = "Pending"
    BY <1>1, <1>3 DEF HasStatus, Present, Entry
  <2>3. done \in Request /\ done.fetch = requests[id].fetch /\ done.status = "Completed"
    <3>1. 0 \in 0..AgeCap /\ "Completed" \in Statuses
      BY TimesAssumption DEF Statuses
    <3>2. QED
      BY <2>2, <3>1 DEF Request
  <2> HIDE DEF done
  <2>4. /\ requests' = [other \in Ids |-> requests'[other]]
        /\ requests'[id] = done
        /\ \A other \in Ids : other # id => requests'[other] = requests[other]
    BY <1>1, <2>1
  <2>5. ASSUME NEW other \in Ids
        PROVE  /\ requests'[other] \in Entry
               /\ EntryOK(requests[other])'
               /\ requests'[other] # NoRequest =>
                    /\ requests[other] # NoRequest
                    /\ requests'[other].fetch = requests[other].fetch
                    /\ requests'[other].status = "Pending" => requests[other].status = "Pending"
    <3>1. CASE other = id
      BY <2>2, <2>3, <2>4, <3>1 DEF EntryOK, Entry
    <3>2. CASE other # id
      BY <1>1, <1>2, <2>4, <3>2 DEF EntryOK
    <3>3. QED
      BY <3>1, <3>2
  <2>6. QED
    BY <1>1, <2>4, <2>5, MapPreserves
<1>4. ASSUME ~HasStatus(id, "Pending")
      PROVE  HandlerInv'
  <2>1. requests' = requests
    BY <1>4 DEF CompletedIfPending
  <2>2. TypeOK'
    BY <2>1 DEF HandlerInv, TypeOK
  <2>3. QED
    BY <2>1, <2>2 DEF HandlerInv, Present, EntryOK, Apart
<1>5. QED
  BY <1>3, <1>4

(* Clearing the market data leaves an empty registry.                      *)
LEMMA EmptiedInv ==
  ASSUME HandlerInv, requests' = [id \in Ids |-> NoRequest], generationId' = 0,
         emptyAge' = [f \in Fetches |-> EmptyTtl], issued' = issued
  PROVE  HandlerInv'
<1>1. TypeOK'
  BY TimesAssumption, BoundsAssumption DEF HandlerInv, TypeOK
<1>2. QED
  BY <1>1 DEF HandlerInv, Present, EntryOK, Apart

-----------------------------------------------------------------------------
(* Every step keeps the invariant *)

LEMMA ChartInvInit == ChartInit => ChartInv
<1> SUFFICES ASSUME ChartInit
             PROVE  ChartInv
  OBVIOUS
<1>1. HandlerInv
  BY InitInv DEF ChartInit
<1>2. WorkSide
  BY DEF ChartInit, WorkSide, WorkerInv, OneWorker, Idle
<1>3. CoverSide
  BY DEF ChartInit, CoverSide, Merged, OnlyTraversedIsCovered
<1>4. InboxSide
  <2>1. inbox = <<>> /\ <<>> \in Seq(Message) /\ Len(<<>>) = 0
    BY DEF ChartInit
  <2>2. QED
    BY <2>1, ChartConstants DEF InboxSide
<1>5. QED
  BY <1>1, <1>2, <1>3, <1>4 DEF ChartInv

(* Ticks of the chart and of the clock.                                    *)
LEMMA TicksKeep ==
  ASSUME ChartInv, TimePasses \/ ChartTickIdle \/ ChartTickRefused
  PROVE  ChartInv'
<1>1. HandlerInv /\ WorkSide /\ CoverSide /\ InboxSide
  BY DEF ChartInv
<1>2. /\ ClearFetching \/ UNCHANGED <<fetching, handle, workers>>
      /\ UNCHANGED <<covered, loaded, cache, inbox, traversed>>
  BY DEF TimePasses, ChartTickIdle, ChartTickRefused, chartVars
<1>3. HandlerInv'
  <2>1. CASE TimePasses
    BY <1>1, <2>1, TickInv DEF TimePasses
  <2>2. CASE ChartTickIdle
    BY <1>1, <2>2, CleanupInv DEF ChartTickIdle
  <2>3. CASE ChartTickRefused
    BY <1>1, <2>3, NextFetchIs, CleanupInv, SuppressedInv
       DEF ChartTickRefused, MayFetch, AddRejected
  <2>4. QED
    BY <2>1, <2>2, <2>3
<1>4. WorkSide'
  BY <1>1, <1>2, WorkKept
<1>5. CoverSide'
  BY <1>1, <1>2, CoverKept DEF CoverSide
<1>6. InboxSide'
  BY <1>1, <1>2, InboxKept
<1>7. QED
  BY <1>3, <1>4, <1>5, <1>6 DEF ChartInv

LEMMA FetchTickKeeps ==
  ASSUME ChartInv, NEW id \in Ids, NEW w \in Workers, ChartTickFetch(id, w)
  PROVE  ChartInv'
<1>1. HandlerInv /\ WorkSide /\ CoverSide /\ InboxSide
  BY DEF ChartInv
<1>2. /\ AddReactivated(NextFetch, id) \/ AddQueued(NextFetch, id)
      /\ fetching' = TRUE
      /\ workers' = [Aborted EXCEPT ![w] = NewWorker(id, NextFetch)]
      /\ UNCHANGED <<covered, loaded, cache, inbox, traversed>>
  BY DEF ChartTickFetch
<1>3. /\ NextFetch \in Fetches
      /\ NextFetch.from \in Points /\ NextFetch.to \in Points
      /\ NextFetch.from < NextFetch.to
  BY <1>1, NextFetchIs DEF ChartTickFetch, MayFetch
<1>4. HandlerInv'
  BY <1>1, <1>2, <1>3, ReactivatedInv, QueuedInv
<1>5. WorkSide'
  <2> DEFINE r == NewWorker(id, NextFetch)
  <2>1. r \in Worker /\ r.from < r.to /\ r.todo = {} /\ ~r.started
    BY <1>3 DEF NewWorker, Worker
  <2> HIDE DEF r
  <2>2. Aborted = [v \in Workers |-> Aborted[v]] /\ \A v \in Workers : Aborted[v] = NoWorker
    BY <1>1, AbortedIsIdle DEF WorkSide
  <2>3. workers' = [Aborted EXCEPT ![w] = r]
    BY <1>2 DEF r
  <2>4. /\ workers' \in [Workers -> Worker \cup {NoWorker}]
        /\ workers'[w] = r /\ \A v \in Workers : v # w => workers'[v] = NoWorker
    BY <2>1, <2>2, <2>3
  <2>5. WorkerInv'
    BY <1>1, FetchKeeps DEF WorkSide
  <2>6. \A v \in Workers : ~Idle(v)' => WorkerCovers(workers[v], traversed)'
    BY <2>1, <2>4 DEF Idle, WorkerCovers
  <2>7. QED
    BY <1>2, <2>4, <2>5, <2>6 DEF WorkSide
<1>6. CoverSide'
  BY <1>1, <1>2, CoverKept DEF CoverSide
<1>7. InboxSide'
  BY <1>1, <1>2, InboxKept
<1>8. QED
  BY <1>4, <1>5, <1>6, <1>7 DEF ChartInv

(* What the user does.                                                     *)
LEMMA UserKeeps ==
  ASSUME ChartInv, ResetRequestHandler \/ InvalidateMarketDataCache
  PROVE  ChartInv'
<1>1. HandlerInv /\ WorkSide /\ CoverSide /\ InboxSide
  BY DEF ChartInv
<1>2. /\ ClearFetching \/ UNCHANGED <<fetching, handle, workers>>
      /\ UNCHANGED <<inbox, traversed>>
      /\ covered' = covered \/ covered' = {}
      /\ loaded' = loaded \/ loaded' = {}
      /\ cache' = cache \/ cache' = {}
  BY DEF ResetRequestHandler, InvalidateMarketDataCache
<1>3. HandlerInv'
  BY <1>1, SupersedeInv, EmptiedInv DEF ResetRequestHandler, InvalidateMarketDataCache
<1>4. WorkSide'
  BY <1>1, <1>2, WorkKept
<1>5. CoverSide'
  <2>1. loaded' \subseteq Points /\ cache' \subseteq Points /\ traversed' \subseteq Points
    BY <1>1, <1>2 DEF CoverSide
  <2>2. CASE covered' = covered
    BY <1>1, <1>2, <2>1, <2>2, CoverKept
  <2>3. CASE covered' = {}
    BY <2>1, <2>3 DEF CoverSide, Merged, OnlyTraversedIsCovered
  <2>4. QED
    BY <1>2, <2>2, <2>3
<1>6. InboxSide'
  BY <1>1, <1>2, InboxKept
<1>7. QED
  BY <1>3, <1>4, <1>5, <1>6 DEF ChartInv

(* A worker w that changes only itself, and what it still has to do.       *)
LEMMA OneWorkerKeeps ==
  ASSUME WorkSide, NEW w \in Workers, ~Idle(w), WorkerStep(w),
         fetching' = fetching, traversed \subseteq traversed',
         NEW r \in Worker \cup {NoWorker}, workers' = [workers EXCEPT ![w] = r],
         r # NoWorker => WorkerCovers(r, traversed')
  PROVE  WorkSide'
<1>1. WorkerInv'
  BY WorkerKeeps DEF WorkSide
<1>2. /\ workers \in [Workers -> Worker \cup {NoWorker}]
      /\ workers'[w] = r /\ \A v \in Workers : v # w => workers'[v] = workers[v]
  BY DEF WorkSide
<1>3. workers' \in [Workers -> Worker \cup {NoWorker}]
  BY <1>2
<1>4. \A v \in Workers : ~Idle(v)' => WorkerCovers(workers[v], traversed)'
  BY <1>2 DEF WorkSide, Idle, WorkerCovers
<1>5. QED
  BY <1>1, <1>3, <1>4 DEF WorkSide

(* The batches that a worker sends are messages.                           *)
LEMMA DataIsMessage ==
  ASSUME NEW r \in Worker, NEW points \in SUBSET Points
  PROVE  Data(r, points) \in Message /\ Data(r, points).type = "Data"
BY DEF Data, Message, Worker

LEMMA WorkerStepKeeps ==
  ASSUME ChartInv, NEW w \in Workers, WorkerStep(w)
  PROVE  ChartInv'
<1> DEFINE r == workers[w]
<1>1. HandlerInv /\ WorkSide /\ CoverSide /\ InboxSide
  BY DEF ChartInv
<1>2. ~Idle(w)
  BY DEF WorkerStep, WorkerStart, WorkerPage, WorkerDone, WorkerYield, WorkerError
<1>3. /\ r \in Worker /\ WorkerCovers(r, traversed)
      /\ r.req \in Ids /\ r.from \in Points /\ r.to \in Points
      /\ r.from < r.to /\ r.todo \subseteq Points
      /\ workers \in [Workers -> Worker \cup {NoWorker}]
  BY <1>1, <1>2, WorkerFields DEF WorkSide, Idle, WorkerCovers
<1>4. ASSUME UNCHANGED <<handlerVars, fetching, handle, covered, loaded>>
      PROVE  HandlerInv' /\ fetching' = fetching /\ covered' = covered /\ loaded' = loaded
  BY <1>1, <1>4, StutterInv
<1>5. r.from..r.to \subseteq Points
  BY <1>3, ChartConstants
<1>6. CASE WorkerStart(w)
  <2> DEFINE cached == cache \cap (r.from..r.to)
             next == [r EXCEPT !.started = TRUE, !.todo = (r.from..r.to) \ cached]
  <2>1. /\ workers' = [workers EXCEPT ![w] = next]
        /\ inbox' = inbox \/ Emit(Data(r, cached))
        /\ traversed' = traversed \cup cached
        /\ UNCHANGED <<handlerVars, fetching, handle, covered, loaded, cache>>
    BY <1>3, <1>6 DEF WorkerStart
  <2>2. cached \subseteq Points /\ traversed \subseteq traversed' /\ traversed' \subseteq Points
    BY <1>1, <1>5, <2>1 DEF CoverSide
  <2>3. next \in Worker /\ WorkerCovers(next, traversed')
    <3>1. /\ next.from = r.from /\ next.to = r.to
          /\ next.todo = (r.from..r.to) \ cached
      BY <1>3 DEF Worker
    <3>2. next \in Worker
      BY <1>3, <1>5 DEF Worker
    <3> HIDE DEF next
    <3>3. (r.from..r.to) \ next.todo \subseteq traversed'
      BY <2>1, <3>1
    <3>4. next.todo \subseteq r.from..r.to
      BY <3>1
    <3>5. QED
      BY <1>3, <3>1, <3>2, <3>3, <3>4 DEF WorkerCovers
  <2> HIDE DEF next, cached
  <2>4. WorkSide'
    BY <1>1, <1>2, <2>1, <2>2, <2>3, OneWorkerKeeps
  <2>5. CoverSide'
    BY <1>1, <2>1, <2>2, CoverKept DEF CoverSide
  <2>6. InboxSide'
    <3>1. CASE inbox' = inbox
      BY <1>1, <2>2, <3>1, InboxKept
    <3>2. CASE Emit(Data(r, cached))
      BY <1>1, <1>3, <2>2, <3>2, DataIsMessage, InboxPushed
    <3>3. QED
      BY <2>1, <3>1, <3>2
  <2>7. QED
    BY <1>4, <2>1, <2>4, <2>5, <2>6 DEF ChartInv
<1>7. ASSUME NEW last \in Points, WorkerPage(w, last)
      PROVE  ChartInv'
  <2> DEFINE page == {p \in r.todo : p <= last}
             next == [r EXCEPT !.todo = @ \ page]
  <2>1. /\ r.started
        /\ workers' = [workers EXCEPT ![w] = next]
        /\ cache' = cache \cup page
        /\ traversed' = traversed \cup page
        /\ Emit(Data(r, page))
        /\ UNCHANGED <<handlerVars, fetching, handle, covered, loaded>>
    BY <1>3, <1>7 DEF WorkerPage
  <2>2. /\ page \subseteq Points /\ traversed \subseteq traversed' /\ traversed' \subseteq Points
        /\ cache' \subseteq Points
    BY <1>1, <1>3, <2>1 DEF CoverSide
  <2>3. next \in Worker /\ WorkerCovers(next, traversed')
    <3>1. /\ next.from = r.from /\ next.to = r.to
          /\ next.todo = r.todo \ page
      BY <1>3 DEF Worker
    <3>2. next \in Worker
      BY <1>3 DEF Worker
    <3> HIDE DEF next, page
    <3>3. (r.from..r.to) \ r.todo \subseteq traversed /\ r.todo \subseteq r.from..r.to
      BY <1>3, <2>1 DEF WorkerCovers
    <3>4. (r.from..r.to) \ next.todo \subseteq traversed'
      BY <2>1, <3>1, <3>3
    <3>5. next.todo \subseteq r.from..r.to
      BY <3>1, <3>3
    <3>6. QED
      BY <1>3, <3>1, <3>2, <3>4, <3>5 DEF WorkerCovers
  <2> HIDE DEF next, page
  <2>4. WorkSide'
    BY <1>1, <1>2, <2>1, <2>2, <2>3, OneWorkerKeeps
  <2>5. CoverSide'
    BY <1>1, <2>1, <2>2, CoverKept DEF CoverSide
  <2>6. InboxSide'
    BY <1>1, <1>3, <2>1, <2>2, DataIsMessage, InboxPushed
  <2>7. QED
    BY <1>4, <2>1, <2>4, <2>5, <2>6 DEF ChartInv
<1>8. ASSUME NEW m \in Message, Finish(w, m),
             m.type = "Completed" => m.from..m.verifiedTo \subseteq traversed
      PROVE  ChartInv'
  <2>1. /\ workers' = [workers EXCEPT ![w] = NoWorker] /\ Emit(m)
        /\ UNCHANGED <<handlerVars, fetching, handle, covered, loaded, cache, traversed>>
    BY <1>8 DEF Finish
  <2>2. WorkSide'
    BY <1>1, <1>2, <2>1, OneWorkerKeeps
  <2>3. CoverSide'
    BY <1>1, <2>1, CoverKept DEF CoverSide
  <2>4. InboxSide'
    BY <1>1, <1>8, <2>1, InboxPushed
  <2>5. QED
    BY <1>4, <2>1, <2>2, <2>3, <2>4 DEF ChartInv
<1>9. CASE WorkerDone(w)
  <2> DEFINE m == Completed(r, r.to, FALSE)
  <2>1. r.started /\ r.todo = {} /\ Finish(w, m)
    BY <1>9 DEF WorkerDone
  <2>2. m.type = "Completed" /\ m.from = r.from /\ m.verifiedTo = r.to
    BY DEF Completed
  <2>3. m \in Message
    BY <1>3, ChartConstants DEF Completed, Message
  <2> HIDE DEF m
  <2>4. r.from..r.to \subseteq traversed
    BY <1>3, <2>1 DEF WorkerCovers
  <2>5. QED
    BY <1>8, <2>1, <2>2, <2>3, <2>4
<1>10. ASSUME NEW empty \in BOOLEAN, WorkerYield(w, empty)
       PROVE  ChartInv'
  <2> DEFINE m == Completed(r, Min(r.todo) - 1, empty)
  <2>1. r.started /\ r.todo # {} /\ Finish(w, m)
    BY <1>10 DEF WorkerYield
  <2>2. Min(r.todo) \in Points /\ \A p \in r.todo : Min(r.todo) <= p
    <3>1. r.todo \in SUBSET (0..LastPoint) /\ 0 \in Int /\ LastPoint \in Int
      BY <1>3, ChartConstants
    <3>2. Min(r.todo) \in r.todo /\ \A p \in r.todo : Min(r.todo) <= p
      BY <2>1, <3>1, MinIs
    <3>3. QED
      BY <1>3, <3>2
  <2>3. /\ m.type = "Completed" /\ m.from = r.from /\ m.verifiedTo = Min(r.todo) - 1
    BY DEF Completed
  <2>4. Min(r.todo) - 1 \in -1..LastPoint
    BY <2>2, ChartConstants
  <2>5. m \in Message
    BY <1>3, <2>4, ChartConstants DEF Completed, Message
  <2> HIDE DEF m
  <2>6. r.todo \subseteq r.from..r.to /\ (r.from..r.to) \ r.todo \subseteq traversed
    BY <1>3, <2>1 DEF WorkerCovers
  <2>7. ASSUME NEW p \in r.from..(Min(r.todo) - 1)
        PROVE  p \in traversed
    <3>1. \E q \in r.todo : q \in r.from..r.to
      BY <2>1, <2>6
    <3>2. Min(r.todo) \in Int /\ r.from \in Int /\ r.to \in Int /\ \A q \in r.todo : Min(r.todo) <= q
      BY <1>3, <2>2, ChartConstants
    <3>3. p \in r.from..r.to /\ p \notin r.todo
      BY <3>1, <3>2
    <3>4. QED
      BY <2>6, <3>3
  <2>8. QED
    BY <1>8, <2>1, <2>3, <2>5, <2>7
<1>11. CASE WorkerError(w)
  <2>1. Finish(w, Error(r))
    BY <1>11 DEF WorkerError
  <2>2. Error(r) \in Message /\ Error(r).type = "Error"
    BY <1>3 DEF Error, Message
  <2>3. QED
    BY <1>8, <2>1, <2>2
<1>12. QED
  BY <1>6, <1>7, <1>9, <1>10, <1>11 DEF WorkerStep

(* The dashboard handles a message.                                        *)
LEMMA DeliverKeeps ==
  ASSUME ChartInv, Deliver
  PROVE  ChartInv'
<1> DEFINE m == Head(inbox)
<1>1. HandlerInv /\ WorkSide /\ CoverSide /\ InboxSide
  BY DEF ChartInv
<1>2. /\ inbox # <<>> /\ inbox' = Tail(inbox)
      /\ UNCHANGED <<cache, traversed>>
      /\ ClearFetching \/ UNCHANGED <<fetching, handle, workers>>
  BY DEF Deliver, DiscardData, ApplyData, CompleteTradeFetch, FailTradeFetch, Receive
<1>3. InboxSide' /\ m \in Message /\ Honest(m)
  BY <1>1, <1>2, InboxPopped
<1> HIDE DEF m
<1>4. /\ m.req \in Ids
      /\ m.type = "Data" => m.points \subseteq Points
      /\ m.type = "Completed" => m.from \in Points /\ m.verifiedTo \in -1..LastPoint
  BY <1>3, MessageFields
<1>5. WorkSide'
  BY <1>1, <1>2, WorkKept
<1>6. loaded \subseteq Points /\ traversed' \subseteq Points /\ cache' \subseteq Points
  BY <1>1, <1>2 DEF CoverSide
<1>7. emptyAge \in [Fetches -> 0..EmptyTtl] /\ 0 \in 0..EmptyTtl
  BY <1>1, TimesAssumption DEF HandlerInv, TypeOK
<1>8. CASE DiscardData
  <2>1. HandlerInv'
    BY <1>1, <1>4, <1>7, <1>8, CompletedIfPendingInv DEF DiscardData, m
  <2>2. CoverSide'
    BY <1>1, <1>2, <1>6, <1>8, CoverKept DEF DiscardData
  <2>3. QED
    BY <1>3, <1>5, <2>1, <2>2 DEF ChartInv
<1>9. CASE ApplyData
  <2>1. HandlerInv'
    BY <1>1, <1>9, StutterInv DEF ApplyData
  <2>2. loaded' \subseteq Points /\ covered' = covered
    BY <1>4, <1>6, <1>9 DEF ApplyData, m
  <2>3. CoverSide'
    BY <1>1, <1>2, <1>6, <2>2, CoverKept
  <2>4. QED
    BY <1>3, <1>5, <2>1, <2>3 DEF ChartInv
<1>10. CASE CompleteTradeFetch
  <2>1. /\ m.type = "Completed"
        /\ requests' = CompletedIfPending(m.req)
        /\ UNCHANGED <<generationId, issued>>
        /\ covered' = MarkCovered(covered, m.from, m.verifiedTo)
        /\ loaded' = loaded
    BY <1>10 DEF CompleteTradeFetch, m
  <2>2. emptyAge' \in [Fetches -> 0..EmptyTtl]
    <3> DEFINE tail == TradesFetch(m.verifiedTo + 1, m.to)
    <3>1. emptyAge' = emptyAge \/ (tail \in Fetches /\ emptyAge' = [emptyAge EXCEPT ![tail] = 0])
      BY <1>10 DEF CompleteTradeFetch, m
    <3> HIDE DEF tail
    <3>2. QED
      BY <1>7, <3>1
  <2>3. HandlerInv'
    BY <1>1, <1>4, <2>1, <2>2, CompletedIfPendingInv
  <2>4. /\ covered \in SUBSET RangesUpTo(LastPoint) /\ Merged(covered)
        /\ \A r \in covered : r.from..r.to \subseteq traversed
    BY <1>1, ChartConstants DEF CoverSide, OnlyTraversedIsCovered
  <2>5. /\ LastPoint \in Nat /\ m.from \in 0..LastPoint /\ m.verifiedTo \in Int
        /\ m.verifiedTo < m.from \/ m.verifiedTo \in 0..LastPoint
        /\ m.from..m.verifiedTo \subseteq traversed
    BY <1>3, <1>4, <2>1, ChartConstants DEF Honest
  <2>6. covered' \in SUBSET RangesUpTo(LastPoint)
    BY <2>1, <2>4, <2>5, MarkedType
  <2>7. Merged(covered')
    BY <2>1, <2>4, <2>5, MarkedIsMerged
  <2>8. \A r \in covered' : r.from..r.to \subseteq traversed
    BY <2>1, <2>4, <2>5, MarkedWithin
  <2>9. CoverSide'
    <3>1. covered' \subseteq [from: Points, to: Points] /\ loaded' \subseteq Points
      BY <1>6, <2>1, <2>6, ChartConstants
    <3>2. OnlyTraversedIsCovered'
      BY <1>2, <2>8 DEF OnlyTraversedIsCovered
    <3>3. QED
      BY <1>6, <2>7, <3>1, <3>2 DEF CoverSide
  <2>10. QED
    BY <1>3, <1>5, <2>3, <2>9 DEF ChartInv
<1>11. CASE FailTradeFetch
  <2>1. HandlerInv'
    BY <1>1, <1>4, <1>11, FailedInv, StutterInv DEF FailTradeFetch, m
  <2>2. CoverSide'
    BY <1>1, <1>2, <1>6, <1>11, CoverKept DEF FailTradeFetch
  <2>3. QED
    BY <1>3, <1>5, <2>1, <2>2 DEF ChartInv
<1>12. QED
  BY <1>8, <1>9, <1>10, <1>11 DEF Deliver

LEMMA ChartUnchanged == ChartInv /\ UNCHANGED vars => ChartInv'
<1> SUFFICES ASSUME ChartInv, UNCHANGED vars
             PROVE  ChartInv'
  OBVIOUS
<1>1. HandlerInv /\ WorkSide /\ CoverSide /\ InboxSide
      /\ UNCHANGED <<fetching, handle, workers>> /\ UNCHANGED handlerVars
      /\ UNCHANGED <<covered, loaded, cache, inbox, traversed>>
  BY DEF ChartInv, vars, chartVars
<1>2. HandlerInv' /\ WorkSide' /\ InboxSide'
  BY <1>1, StutterInv, WorkKept, InboxKept
<1>3. CoverSide'
  BY <1>1, CoverKept DEF CoverSide
<1>4. QED
  BY <1>2, <1>3 DEF ChartInv

LEMMA ChartInvNext == ChartInv /\ [Next]_vars => ChartInv'
<1> SUFFICES ASSUME ChartInv, [Next]_vars
             PROVE  ChartInv'
  OBVIOUS
<1>1. CASE TimePasses \/ ChartTickIdle \/ ChartTickRefused
  BY <1>1, TicksKeep
<1>2. ASSUME NEW id \in Ids, NEW w \in Workers, ChartTickFetch(id, w)
      PROVE  ChartInv'
  BY <1>2, FetchTickKeeps
<1>3. CASE Deliver
  BY <1>3, DeliverKeeps
<1>4. ASSUME NEW w \in Workers, WorkerStep(w)
      PROVE  ChartInv'
  BY <1>4, WorkerStepKeeps
<1>5. CASE ResetRequestHandler \/ InvalidateMarketDataCache
  BY <1>5, UserKeeps
<1>6. CASE UNCHANGED vars
  BY <1>6, ChartUnchanged
<1>7. QED
  BY <1>1, <1>2, <1>3, <1>4, <1>5, <1>6 DEF Next, SteadyNext, ChartTick

-----------------------------------------------------------------------------
(* Theorems *)

(* The registry's invariant holds under every use the chart makes of it,   *)
(* together with those of the workers, the coverage and the messages.      *)
THEOREM ChartInvariance == Spec => []ChartInv
<1>1. QED
  BY ChartInvInit, ChartInvNext, PTL DEF Spec

(* Every variable of the chart keeps its type and its bound.               *)
THEOREM ChartTypeCorrect == Spec => []ChartTypeOK
<1>1. ChartInv /\ steady \in BOOLEAN => ChartTypeOK
  BY DEF ChartInv, ChartTypeOK, HandlerInv, WorkSide, WorkerInv, CoverSide, InboxSide
<1>2. ChartInit => steady \in BOOLEAN
  BY DEF ChartInit
<1>3. steady \in BOOLEAN /\ [Next]_vars => (steady \in BOOLEAN)'
  BY DEF Next, vars
<1>4. QED
  BY <1>1, <1>2, <1>3, ChartInvariance, PTL DEF Spec

(* Whatever workers die, answers come late or settings change, only what a *)
(* worker has gone through counts as covered.                              *)
THEOREM TraversedIsCovered == Spec => []OnlyTraversedIsCovered
<1>1. ChartInv => OnlyTraversedIsCovered
  BY DEF ChartInv, CoverSide
<1>2. QED
  BY <1>1, ChartInvariance, PTL

(* The covered ranges stay merged and the next gap is exactly missing.     *)
THEOREM GapsExact == Spec => []GapsAreExact
<1>1. ChartInv => GapsAreExact
  <2> SUFFICES ASSUME ChartInv
               PROVE  GapsAreExact
    OBVIOUS
  <2>1. covered \in SUBSET RangesUpTo(LastPoint) /\ Merged(covered)
    BY ChartConstants DEF ChartInv, CoverSide
  <2>2. LastPoint \in Nat /\ 0 \in 0..LastPoint /\ LastPoint \in 0..LastPoint
    BY ChartConstants
  <2>3. IF IsGap(NextGap)
          THEN (NextGap.from..(NextGap.to - 1)) \cap Steps(covered) = {}
          ELSE 0..(LastPoint - 1) \subseteq Steps(covered)
    BY <2>1, <2>2, SelectedGapIs DEF NextGap
  <2>4. QED
    BY <2>1, <2>3 DEF GapsAreExact
<1>2. QED
  BY <1>1, ChartInvariance, PTL

-----------------------------------------------------------------------------
(* While no setting changes: what is covered is in the candles *)

(* An entry whose answers are applied when they come, at least as long as  *)
(* no time passes.                                                         *)
Fresh(r) ==
  /\ r # NoRequest
  /\ r.status # "Superseded"
  /\ r.status \in {"Completed", "Failed"} => r.age = 0
  /\ r.status = "Failed" => r.retryIn > 0

(* Every entry asks for trades, and none is superseded.                    *)
SteadyRequests ==
  \A id \in Ids : Present(id) => /\ requests[id].status # "Superseded"
                                 /\ requests[id].fetch.kind = "Trades"

(* The request of the running worker is pending, and the youngest one: it  *)
(* times out last, so that the chart notices and stops the worker.         *)
Youngest ==
  \A w \in Workers : ~Idle(w) =>
    /\ HasStatus(workers[w].req, "Pending")
    /\ \A id \in Ids : HasStatus(id, "Pending")
                         => requests[id].age >= requests[workers[w].req].age

(* No batch under way will be discarded.                                   *)
Awaited ==
  \A i \in 1..Len(inbox) : inbox[i].type = "Data" => Fresh(requests[inbox[i].req])

(* The candles once the first n messages are handled.                      *)
Given(points, ch, n) ==
  points \cup UNION {ch[k].points : k \in {j \in 1..n : ch[j].type = "Data"}}

(* Whatever is gone through is in the candles or on its way there, before  *)
(* it is reported.                                                         *)
WorkerSent(r, points) ==
  r.started => (r.from..r.to) \ r.todo \subseteq points

Reported(m, points) == m.type = "Completed" => m.from..m.verifiedTo \subseteq points

Loading ==
  /\ \A w \in Workers : ~Idle(w) => WorkerSent(workers[w], Given(loaded, inbox, Len(inbox)))
  /\ \A i \in 1..Len(inbox) : Reported(inbox[i], Given(loaded, inbox, i - 1))
  /\ CandlesHoldCovered

SteadyInv ==
  /\ ChartInv
  /\ SteadyRequests
  /\ ~fetching => handle = NoWorker
  /\ Youngest
  /\ Awaited
  /\ Loading

(* A failed request waits before it is tried again.                        *)
LEMMA FailedWaits ==
  ASSUME NEW r \in Request
  PROVE  Fresh(FailedEntry(r))
<1>1. /\ FailedEntry(r) # NoRequest /\ FailedEntry(r).status = "Failed"
  BY FailedEntryFacts
<1>2. NextAttempt(r) \in Nat /\ NextAttempt(r) >= 1
  BY BoundsAssumption DEF NextAttempt, Request
<1>3. /\ FailedEntry(r).age = 0
      /\ FailedEntry(r).retryIn = RetryDelay(NextAttempt(r))
  BY DEF FailedEntry, Request
<1>4. RetryDelay(NextAttempt(r)) > 0
  <2>1. (IF NextAttempt(r) < BackoffSteps THEN NextAttempt(r) ELSE BackoffSteps) \in 1..BackoffSteps
    BY <1>2, BackoffAssumption
  <2>2. RetryDelay(NextAttempt(r)) \in Nat \ {0}
    BY <2>1, BackoffAssumption DEF RetryDelay
  <2>3. QED
    BY <2>2
<1>5. QED
  BY <1>1, <1>3, <1>4 DEF Fresh

(* The cleanup does not forget an entry whose answers are under way.       *)
LEMMA FreshIsKept ==
  ASSUME NEW r \in Entry, Fresh(r)
  PROVE  /\ Fresh(CleanedEntry(r))
         /\ \A f \in Fetches : Fresh(KeptEntry(r, f))
<1>1. r \in Request /\ r # NoRequest
  BY DEF Entry, Fresh
<1>2. ~Expired(r)
  BY TimesAssumption DEF Expired, Fresh
<1>3. Fresh(CleanedEntry(r))
  BY <1>1, <1>2, FailedWaits DEF CleanedEntry
<1>4. \A f : ~Retryable(CleanedEntry(r), f)
  BY <1>3 DEF Retryable, Fresh
<1>5. QED
  BY <1>3, <1>4 DEF KeptEntry

LEMMA GivenAppend ==
  ASSUME NEW points, NEW ch \in Seq(Message), NEW m \in Message
  PROVE  /\ \A n \in 0..Len(ch) : Given(points, Append(ch, m), n) = Given(points, ch, n)
         /\ Given(points, ch, Len(ch)) \subseteq Given(points, Append(ch, m), Len(ch) + 1)
         /\ m.type = "Data" => m.points \subseteq Given(points, Append(ch, m), Len(ch) + 1)
<1> DEFINE more == Append(ch, m)
<1>1. /\ Len(ch) \in Nat /\ more[Len(ch) + 1] = m
      /\ \A i \in 1..Len(ch) : more[i] = ch[i]
  BY AppendProperties
<1> HIDE DEF more
<1>2. ASSUME NEW n \in 0..Len(ch)
      PROVE  Given(points, more, n) = Given(points, ch, n)
  <2>1. \A j \in 1..n : more[j] = ch[j]
    BY <1>1
  <2>2. QED
    BY <2>1 DEF Given
<1>3. Given(points, ch, Len(ch)) \subseteq Given(points, more, Len(ch) + 1)
  <2>1. \A j \in 1..Len(ch) : j \in 1..(Len(ch) + 1) /\ more[j] = ch[j]
    BY <1>1
  <2>2. QED
    BY <2>1 DEF Given
<1>4. m.type = "Data" => m.points \subseteq Given(points, more, Len(ch) + 1)
  <2>1. Len(ch) + 1 \in 1..(Len(ch) + 1)
    BY <1>1
  <2>2. QED
    BY <1>1, <2>1 DEF Given
<1>5. QED
  BY <1>2, <1>3, <1>4 DEF more

LEMMA GivenTail ==
  ASSUME NEW points, NEW ch \in Seq(Message), ch # <<>>, NEW n \in 0..(Len(ch) - 1), NEW next,
         points \subseteq next, Head(ch).type = "Data" => Head(ch).points \subseteq next
  PROVE  Given(points, ch, n + 1) \subseteq Given(next, Tail(ch), n)
<1> DEFINE rest == Tail(ch)
<1>1. /\ Len(ch) \in Nat \ {0} /\ Head(ch) = ch[1]
      /\ \A j \in 1..(Len(ch) - 1) : rest[j] = ch[j + 1]
  BY HeadTailProperties
<1> HIDE DEF rest
<1>2. ASSUME NEW k \in 1..(n + 1), ch[k].type = "Data"
      PROVE  ch[k].points \subseteq Given(next, rest, n)
  <2>1. CASE k = 1
    BY <1>1, <1>2, <2>1 DEF Given
  <2>2. CASE k # 1
    <3>1. k - 1 \in 1..n /\ k - 1 \in 1..(Len(ch) - 1) /\ (k - 1) + 1 = k
      BY <1>1, <2>2
    <3>2. rest[k - 1] = ch[k]
      BY <1>1, <3>1
    <3>3. QED
      BY <1>2, <3>1, <3>2 DEF Given
  <2>3. QED
    BY <2>1, <2>2
<1>3. points \subseteq Given(next, rest, n)
  BY DEF Given
<1>4. QED
  BY <1>2, <1>3 DEF Given, rest

(* The registry entries are well formed.                                   *)
LEMMA EntryIs ==
  ASSUME HandlerInv, NEW id \in Ids
  PROVE  requests[id] \in Entry /\ EntryOK(requests[id])
BY DEF HandlerInv, TypeOK, Entry

(* What the cleanup, or the cleanup and the removal of requests that may   *)
(* be tried again, makes of an entry.                                      *)
LEMMA SweptEntry ==
  ASSUME NEW r \in Entry, EntryOK(r), NEW s,
         s = CleanedEntry(r) \/ \E f \in Fetches : s = KeptEntry(r, f)
  PROVE  /\ s # NoRequest => /\ r # NoRequest
                             /\ s.fetch = r.fetch
                             /\ s = r \/ s.status = "Failed"
         /\ Fresh(r) => Fresh(s)
<1>1. CASE s = CleanedEntry(r)
  BY <1>1, CleanedFacts, FreshIsKept
<1>2. ASSUME NEW f \in Fetches, s = KeptEntry(r, f)
      PROVE  /\ s # NoRequest => /\ r # NoRequest
                                 /\ s.fetch = r.fetch
                                 /\ s = r \/ s.status = "Failed"
             /\ Fresh(r) => Fresh(s)
  BY <1>2, KeptFacts, FreshIsKept
<1>3. QED
  BY <1>1, <1>2

(* The registry side of a sweep.                                           *)
Swept ==
  \A id \in Ids : \/ requests'[id] = CleanedEntry(requests[id])
                  \/ \E f \in Fetches : requests'[id] = KeptEntry(requests[id], f)

LEMMA SweptIs ==
  ASSUME HandlerInv, SteadyRequests, Swept
  PROVE  /\ SteadyRequests'
         /\ \A id \in Ids : Fresh(requests[id]) => Fresh(requests'[id])
         /\ \A id \in Ids : HasStatus(id, "Pending")' => requests'[id] = requests[id]
<1>1. ASSUME NEW id \in Ids
      PROVE  /\ requests'[id] # NoRequest => /\ requests[id] # NoRequest
                                             /\ requests'[id].fetch = requests[id].fetch
                                             /\ \/ requests'[id] = requests[id]
                                                \/ requests'[id].status = "Failed"
             /\ Fresh(requests[id]) => Fresh(requests'[id])
  BY EntryIs, SweptEntry DEF Swept
<1>2. SteadyRequests'
  BY <1>1 DEF SteadyRequests, Present
<1>3. QED
  BY <1>1, <1>2 DEF HasStatus, Present

(* No worker runs when its handle is dropped or nothing is being fetched.  *)
LEMMA NoneLeft ==
  ASSUME WorkSide, ClearFetching
  PROVE  fetching' = FALSE /\ handle' = NoWorker /\ \A w \in Workers : Idle(w)'
<1>1. \A w \in Workers : Aborted[w] = NoWorker
  BY AbortedIsIdle DEF WorkSide
<1>2. QED
  BY <1>1 DEF ClearFetching, Idle

(* The queue keeps its promise while the entries stay fresh.               *)
LEMMA AwaitedKept ==
  ASSUME InboxSide, Awaited, inbox' = inbox,
         \A id \in Ids : Fresh(requests[id]) => Fresh(requests'[id])
  PROVE  Awaited'
<1>1. \A i \in 1..Len(inbox) : inbox[i].req \in Ids
  BY MessageFields, ElementOfSeq DEF InboxSide
<1>2. Len(inbox') = Len(inbox) /\ \A i : inbox'[i] = inbox[i]
  OBVIOUS
<1>3. ASSUME NEW i \in 1..Len(inbox'), inbox'[i].type = "Data"
      PROVE  Fresh(requests'[inbox'[i].req])
  <2>1. i \in 1..Len(inbox) /\ inbox[i].type = "Data"
    BY <1>2, <1>3
  <2>2. Fresh(requests[inbox[i].req]) /\ inbox[i].req \in Ids
    BY <1>1, <2>1 DEF Awaited
  <2>3. Fresh(requests'[inbox[i].req])
    BY <2>2
  <2>4. QED
    BY <2>3, <1>2
<1>4. QED
  BY <1>3 DEF Awaited, Fresh

LEMMA LoadingKept ==
  ASSUME Loading, UNCHANGED <<loaded, inbox, covered>>,
         \A w \in Workers : ~Idle(w)' => (~Idle(w) /\ workers'[w] = workers[w]) \/ ~workers'[w].started
  PROVE  Loading'
<1>1. \A w \in Workers : ~Idle(w)' => WorkerSent(workers'[w], Given(loaded, inbox, Len(inbox)))
  BY DEF Loading, WorkerSent
<1>2. QED
  BY <1>1 DEF Loading, WorkerSent, Reported, Given, CandlesHoldCovered

(* The chart tick, and time.                                               *)
LEMMA TimeIsSteady ==
  ASSUME SteadyInv, ChartInv', TimePasses
  PROVE  SteadyInv'
<1>1. /\ inbox = <<>> /\ requests' = [id \in Ids |-> AgedEntry(requests[id])]
      /\ UNCHANGED <<fetching, handle, workers>> /\ UNCHANGED <<loaded, inbox, covered>>
  BY DEF TimePasses, Tick, chartVars
<1>2. /\ HandlerInv /\ WorkSide /\ SteadyRequests /\ (~fetching => handle = NoWorker)
      /\ Youngest /\ Loading
  BY DEF SteadyInv, ChartInv
<1>3. ASSUME NEW id \in Ids
      PROVE  /\ requests[id] = NoRequest <=> requests'[id] = NoRequest
             /\ requests[id] # NoRequest =>
                  /\ requests'[id].fetch = requests[id].fetch
                  /\ requests'[id].status = requests[id].status
                  /\ requests[id].age \in Nat
                  /\ requests'[id].age = IF requests[id].age < AgeCap
                                         THEN requests[id].age + 1 ELSE AgeCap
  <2>1. requests[id] \in Entry /\ requests'[id] = AgedEntry(requests[id])
    BY <1>1, <1>2, EntryIs
  <2>2. CASE requests[id] = NoRequest
    BY <2>1, <2>2 DEF AgedEntry
  <2>3. CASE requests[id] # NoRequest
    <3>1. requests[id] \in Request /\ AgeCap \in Nat
      BY <2>1, <2>3, TimesAssumption DEF Entry
    <3>2. \A r \in Request :
            LET a == IF r.age < AgeCap THEN r.age + 1 ELSE AgeCap
                d == IF r.retryIn > 0 THEN r.retryIn - 1 ELSE 0
            IN  a \in 0..AgeCap /\ d \in Nat
      BY <3>1 DEF Request
    <3>3. requests'[id] \in Request
      BY <2>1, <2>3, <3>1, <3>2 DEF AgedEntry, Request
    <3>4. requests'[id] # NoRequest
      BY <3>3, NoRequestAssumption
    <3>5. QED
      BY <2>1, <2>3, <3>1, <3>4 DEF AgedEntry, Request
  <2>4. QED
    BY <2>2, <2>3
<1>4. SteadyRequests'
  BY <1>2, <1>3 DEF SteadyRequests, Present
<1>5. Youngest'
  <2>1. ASSUME NEW w \in Workers, ~Idle(w)
        PROVE  /\ workers[w].req \in Ids
               /\ requests'[workers[w].req] # NoRequest
               /\ requests'[workers[w].req].status = "Pending"
               /\ requests[workers[w].req] # NoRequest
               /\ \A id \in Ids : HasStatus(id, "Pending")
                                  => requests[id].age >= requests[workers[w].req].age
    <3>1. workers[w].req \in Ids
      BY <1>2, <2>1, WorkerFields DEF WorkSide, Idle
    <3>2. HasStatus(workers[w].req, "Pending")
          /\ \A id \in Ids : HasStatus(id, "Pending")
                             => requests[id].age >= requests[workers[w].req].age
      BY <1>2, <2>1 DEF Youngest
    <3>3. QED
      BY <1>3, <3>1, <3>2 DEF HasStatus, Present
  <2>2. ASSUME NEW w \in Workers, ~Idle(w), NEW id \in Ids,
               requests'[id] # NoRequest, requests'[id].status = "Pending"
        PROVE  requests'[id].age >= requests'[workers[w].req].age
    <3>1. requests[id] # NoRequest /\ requests[id].age >= requests[workers[w].req].age
      BY <1>3, <2>1, <2>2 DEF HasStatus, Present
    <3>2. QED
      BY <1>3, <2>1, <2>2, <3>1, TimesAssumption
  <2>3. QED
    BY <1>1, <2>1, <2>2 DEF Youngest, Idle, HasStatus, Present
<1>6. Awaited'
  BY <1>1 DEF Awaited
<1>7. Loading'
  BY <1>1, <1>2, LoadingKept DEF Idle
<1>8. QED
  BY <1>1, <1>2, <1>4, <1>5, <1>6, <1>7 DEF SteadyInv

LEMMA NoWorkerIsYoungest ==
  ASSUME \A w \in Workers : Idle(w)'
  PROVE  Youngest'
BY DEF Youngest

LEMMA TickIsSteady ==
  ASSUME SteadyInv, ChartInv', ChartTickIdle \/ ChartTickRefused
  PROVE  SteadyInv'
<1>1. /\ HandlerInv /\ WorkSide /\ CoverSide /\ InboxSide /\ SteadyRequests
      /\ (~fetching => handle = NoWorker)
      /\ Youngest /\ Awaited /\ Loading
  BY DEF SteadyInv, ChartInv
<1>2. Swept
  <2>1. CASE ChartTickIdle
    BY <2>1 DEF ChartTickIdle, CleanupStale, Swept
  <2>2. CASE ChartTickRefused
    <3>1. NextFetch \in Fetches
      BY <1>1, <2>2, NextFetchIs DEF ChartTickRefused, MayFetch
    <3>2. CleanupStale \/ requests' = Kept(NextFetch)
      BY <2>2 DEF ChartTickRefused, AddRejected, AddSuppressed
    <3>3. QED
      BY <3>1, <3>2 DEF CleanupStale, Kept, Swept
  <2>3. QED
    BY <2>1, <2>2
<1>3. /\ SteadyRequests'
      /\ \A id \in Ids : Fresh(requests[id]) => Fresh(requests'[id])
      /\ \A id \in Ids : HasStatus(id, "Pending")' => requests'[id] = requests[id]
  BY <1>1, <1>2, SweptIs
<1>4. UNCHANGED <<loaded, inbox, covered>>
  BY DEF ChartTickIdle, ChartTickRefused
<1>5. Awaited'
  BY <1>1, <1>3, <1>4, AwaitedKept
<1>6. CASE ClearFetching
  <2>1. handle' = NoWorker /\ \A w \in Workers : Idle(w)'
    BY <1>1, <1>6, NoneLeft
  <2>2. Youngest'
    BY <2>1, NoWorkerIsYoungest
  <2>3. Loading'
    BY <1>1, <1>4, <2>1, LoadingKept
  <2>4. QED
    BY <1>3, <1>5, <2>1, <2>2, <2>3 DEF SteadyInv
<1>7. CASE ChartTickIdle /\ ~Abandoned
  <2>1. UNCHANGED <<fetching, handle, workers>>
        /\ requests' = [id \in Ids |-> CleanedEntry(requests[id])]
    BY <1>7 DEF ChartTickIdle, CleanupStale
  <2>2. ASSUME NEW w \in Workers, ~Idle(w)
        PROVE  /\ workers[w].req \in Ids
               /\ requests'[workers[w].req] = requests[workers[w].req]
    <3> DEFINE own == requests[workers[w].req]
    <3>1. workers[w].req \in Ids
      BY <1>1, <2>2, WorkerFields DEF WorkSide, Idle
    <3>2. handle = w /\ handle # NoWorker
      BY <1>1, <2>2, ChartAssumption DEF WorkSide, WorkerInv, OneWorker
    <3>3. PendingAfterCleanup
      BY <1>1, <1>7, <3>2 DEF Abandoned
    <3>4. PICK id \in Ids : /\ CleanedEntry(requests[id]) # NoRequest
                            /\ CleanedEntry(requests[id]).status = "Pending"
      BY <3>3 DEF PendingAfterCleanup
    <3>5. requests[id] \in Entry /\ EntryOK(requests[id]) /\ own \in Entry
      BY <1>1, <3>1, EntryIs
    <3>6. CleanedEntry(requests[id]) = requests[id] /\ requests[id] # NoRequest
      BY <3>4, <3>5, CleanedFacts
    <3>7. ~TimedOut(requests[id])
      <4>1. ~Expired(requests[id])
        BY <3>4 DEF CleanedEntry
      <4>2. TimedOut(requests[id]) => CleanedEntry(requests[id]).status = "Failed"
        BY <3>5, <3>6, <4>1, FailedEntryFacts DEF CleanedEntry, Entry
      <4>3. QED
        BY <3>4, <4>2
    <3>8. requests[id].age < PendingTimeout
      BY <3>4, <3>5, <3>6, <3>7, TimesAssumption DEF TimedOut, Entry, Request
    <3>9. own # NoRequest /\ own.status = "Pending" /\ requests[id].age >= own.age
      BY <1>1, <2>2, <3>4, <3>6 DEF Youngest, HasStatus, Present
    <3>10. own.age < PendingTimeout
      BY <3>5, <3>6, <3>8, <3>9, TimesAssumption DEF Entry, Request
    <3>11. ~Expired(own) /\ ~TimedOut(own)
      BY <3>5, <3>9, <3>10, TimesAssumption DEF Expired, TimedOut, Entry, Request
    <3>12. CleanedEntry(own) = own
      BY <3>9, <3>11 DEF CleanedEntry
    <3>13. QED
      BY <2>1, <3>1, <3>12
  <2>3. ASSUME NEW w \in Workers, ~Idle(w), NEW id \in Ids,
               requests'[id] # NoRequest, requests'[id].status = "Pending"
        PROVE  requests'[id].age >= requests'[workers[w].req].age
    <3>1. requests'[id] = requests[id]
      BY <1>3, <2>3 DEF HasStatus, Present
    <3>2. requests[id].age >= requests[workers[w].req].age
      BY <1>1, <2>3, <3>1 DEF Youngest, HasStatus, Present
    <3>3. QED
      BY <2>2, <2>3, <3>1, <3>2
  <2>4. Youngest'
    <3>1. \A w \in Workers : ~Idle(w) => HasStatus(workers[w].req, "Pending")
      BY <1>1 DEF Youngest
    <3>2. QED
      BY <2>1, <2>2, <2>3, <3>1 DEF Youngest, Idle, HasStatus, Present
  <2>5. Loading'
    BY <1>1, <1>4, <2>1, LoadingKept DEF Idle
  <2>6. QED
    BY <1>1, <1>3, <1>5, <2>1, <2>4, <2>5 DEF SteadyInv
<1>8. QED
  BY <1>6, <1>7 DEF ChartTickIdle, ChartTickRefused

(* A worker is spawned for a request that begins now.                      *)
LEMMA FetchIsSteady ==
  ASSUME SteadyInv, ChartInv', NEW id \in Ids, NEW w \in Workers, ChartTickFetch(id, w)
  PROVE  SteadyInv'
<1>1. /\ HandlerInv /\ WorkSide /\ CoverSide /\ InboxSide /\ SteadyRequests
      /\ Awaited /\ Loading
  BY DEF SteadyInv, ChartInv
<1> DEFINE f == NextFetch
           r == NewWorker(id, f)
<1>2. /\ AddReactivated(f, id) \/ AddQueued(f, id)
      /\ fetching' = TRUE
      /\ workers' = [Aborted EXCEPT ![w] = r]
      /\ UNCHANGED <<covered, loaded, inbox>>
  BY DEF ChartTickFetch
<1>3. f \in Fetches /\ f.kind = "Trades"
  BY <1>1, NextFetchIs DEF ChartTickFetch, MayFetch, NextFetch, TradesFetch
<1> HIDE DEF f
<1>4. r.req = id /\ ~r.started
  BY DEF NewWorker
<1>5. /\ workers' = [v \in Workers |-> workers'[v]]
      /\ workers'[w] = r /\ \A v \in Workers : v # w => workers'[v] = NoWorker
  <2>1. Aborted = [v \in Workers |-> Aborted[v]] /\ \A v \in Workers : Aborted[v] = NoWorker
    BY <1>1, AbortedIsIdle DEF WorkSide
  <2> HIDE DEF r
  <2>2. QED
    BY <1>2, <2>1
<1> HIDE DEF r
<1>6. /\ requests'[id] # NoRequest /\ requests'[id].status = "Pending"
      /\ requests'[id].age = 0 /\ requests'[id].fetch.kind = "Trades"
      /\ \A other \in Ids : other # id => requests'[other] = KeptEntry(requests[other], f)
  <2>1. Kept(f) = [other \in Ids |-> KeptEntry(requests[other], f)]
    BY DEF Kept
  <2>2. CASE AddQueued(f, id)
    <3>1. requests' = [Kept(f) EXCEPT ![id] = NewRequest(f)]
      BY <2>2 DEF AddQueued
    <3>2. requests'[id] = NewRequest(f)
          /\ \A other \in Ids : other # id => requests'[other] = KeptEntry(requests[other], f)
      BY <2>1, <3>1
    <3>3. requests'[id] # NoRequest
      <4>1. HandlerInv' /\ id \in issued'
        BY <2>2 DEF ChartInv, AddQueued
      <4>2. NewRequest(f) \in Request
        BY <1>1, <1>3, TimesAssumption, BoundsAssumption
           DEF NewRequest, Request, Statuses, HandlerInv, TypeOK
      <4>3. QED
        BY <3>2, <4>2, NoRequestAssumption
    <3>4. QED
      BY <1>3, <3>2, <3>3 DEF NewRequest
  <2>3. CASE AddReactivated(f, id)
    <3> DEFINE old == Kept(f)[id]
    <3>1. requests' = [Kept(f) EXCEPT ![id] = ReactivatedEntry(old)]
          /\ old # NoRequest /\ old.fetch = f
      BY <2>3 DEF AddReactivated, Superseded, SameWith
    <3>2. requests'[id] = ReactivatedEntry(old)
          /\ \A other \in Ids : other # id => requests'[other] = KeptEntry(requests[other], f)
      BY <2>1, <3>1
    <3>3. old \in Request
      BY <1>1, <1>3, <2>1, <3>1, EntryIs, KeptFacts DEF Entry
    <3> HIDE DEF old
    <3>4. \A s \in Request : /\ ReactivatedEntry(s) \in Request
                             /\ ReactivatedEntry(s).status = "Pending"
                             /\ ReactivatedEntry(s).age = 0
                             /\ ReactivatedEntry(s).fetch = s.fetch
      <4>1. 0 \in 0..AgeCap /\ 0 \in 0..MaxAttempts /\ "Pending" \in Statuses
        BY BoundsAssumption, TimesAssumption DEF Statuses
      <4>2. generationId \in 0..MaxGeneration
        BY <1>1 DEF HandlerInv, TypeOK
      <4>3. QED
        BY <4>1, <4>2 DEF ReactivatedEntry, Request
    <3>5. QED
      BY <1>3, <3>1, <3>2, <3>3, <3>4, NoRequestAssumption
  <2>4. QED
    BY <1>2, <2>2, <2>3
<1>7. ASSUME NEW other \in Ids, other # id
      PROVE  /\ requests'[other] # NoRequest => /\ requests[other] # NoRequest
                                                /\ requests'[other].fetch = requests[other].fetch
                                                /\ \/ requests'[other] = requests[other]
                                                   \/ requests'[other].status = "Failed"
             /\ Fresh(requests[other]) => Fresh(requests'[other])
  BY <1>1, <1>3, <1>6, <1>7, EntryIs, SweptEntry
<1>8. SteadyRequests'
  BY <1>1, <1>6, <1>7 DEF SteadyRequests, Present
<1>9. Awaited'
  <2>1. \A other \in Ids : Fresh(requests[other]) => Fresh(requests'[other])
    BY <1>6, <1>7 DEF Fresh
  <2>2. QED
    BY <1>1, <1>2, <2>1, AwaitedKept
<1>10. Youngest'
  <2>1. ASSUME NEW other \in Ids, requests'[other] # NoRequest
        PROVE  requests'[other].age >= requests'[id].age
    <3>1. requests' \in [Ids -> Request \cup {NoRequest}]
      BY DEF ChartInv, HandlerInv, TypeOK
    <3>2. requests'[other] \in Request
      BY <2>1, <3>1
    <3>3. requests'[other].age \in 0..AgeCap
      BY <3>2 DEF Request
    <3>4. QED
      BY <1>6, <3>3, TimesAssumption
  <2>2. ASSUME NEW v \in Workers, workers'[v] # NoWorker
        PROVE  workers'[v].req = id
    BY <1>4, <1>5, <2>2
  <2>3. QED
    BY <1>6, <2>1, <2>2 DEF Youngest, Idle, HasStatus, Present
<1>11. Loading'
  BY <1>1, <1>2, <1>4, <1>5, LoadingKept DEF Idle
<1>12. QED
  BY <1>2, <1>8, <1>9, <1>10, <1>11 DEF SteadyInv

(* A worker's step: its request stays pending, and what it sends or does   *)
(* not send keeps the promises of the queue.                               *)
LEMMA SendIsSteady ==
  ASSUME SteadyInv, ChartInv', NEW w \in Workers, ~Idle(w),
         UNCHANGED <<handlerVars, fetching, handle, covered, loaded>>,
         NEW r \in Worker \cup {NoWorker}, workers' = [workers EXCEPT ![w] = r],
         r # NoWorker => r.req = workers[w].req,
         r # NoWorker => WorkerSent(r, Given(loaded, inbox', Len(inbox'))),
         NEW m \in Message, m.req = workers[w].req, Reported(m, Given(loaded, inbox, Len(inbox))),
         inbox' = inbox \/ inbox' = Append(inbox, m)
  PROVE  SteadyInv'
<1>1. /\ WorkSide /\ InboxSide /\ SteadyRequests /\ (~fetching => handle = NoWorker)
      /\ Youngest /\ Awaited /\ Loading /\ inbox \in Seq(Message)
  BY DEF SteadyInv, ChartInv, InboxSide
<1>2. requests' = requests
  BY DEF handlerVars
<1>3. workers'[w] = r /\ \A v \in Workers : v # w => workers'[v] = workers[v]
  BY <1>1 DEF WorkSide
<1>4. SteadyRequests'
  BY <1>1, <1>2 DEF SteadyRequests, Present
<1>5. Youngest'
  <2>1. \A v \in Workers : workers'[v] # NoWorker
                             => workers[v] # NoWorker /\ workers'[v].req = workers[v].req
    BY <1>3 DEF Idle
  <2>2. QED
    BY <1>1, <1>2, <2>1 DEF Youngest, Idle, HasStatus, Present
<1>6. /\ Len(inbox) \in Nat
      /\ inbox' = Append(inbox, m) => /\ Len(inbox') = Len(inbox) + 1
                                      /\ \A i \in 1..Len(inbox) : inbox'[i] = inbox[i]
                                      /\ inbox'[Len(inbox) + 1] = m
  BY <1>1, AppendProperties
<1>7. Awaited'
  <2>1. CASE inbox' = inbox
    BY <1>1, <1>2, <2>1, AwaitedKept
  <2>2. CASE inbox' = Append(inbox, m)
    <3>1. Fresh(requests[m.req])
      BY <1>1 DEF Youngest, HasStatus, Present, Fresh
    <3>2. ASSUME NEW i \in 1..Len(inbox'), inbox'[i].type = "Data"
          PROVE  Fresh(requests'[inbox'[i].req])
      <4>1. i \in 1..Len(inbox) \/ i = Len(inbox) + 1
        BY <1>6, <2>2
      <4>2. CASE i \in 1..Len(inbox)
        <5>1. inbox'[i] = inbox[i]
          BY <1>6, <2>2, <4>2
        <5>2. Fresh(requests[inbox[i].req])
          BY <1>1, <3>2, <4>2, <5>1 DEF Awaited
        <5>3. QED
          BY <1>2, <5>1, <5>2
      <4>3. CASE i = Len(inbox) + 1
        BY <1>2, <1>6, <2>2, <3>1, <4>3
      <4>4. QED
        BY <4>1, <4>2, <4>3
    <3>3. QED
      BY <3>2 DEF Awaited, Fresh
  <2>3. QED
    BY <2>1, <2>2
<1>8. Given(loaded, inbox, Len(inbox)) \subseteq Given(loaded, inbox', Len(inbox'))
  BY <1>1, <1>6, GivenAppend
<1>9. Loading'
  <2>1. ASSUME NEW v \in Workers, workers'[v] # NoWorker
        PROVE  WorkerSent(workers'[v], Given(loaded, inbox', Len(inbox')))
    <3>1. CASE v = w
      BY <1>3, <2>1, <3>1
    <3>2. CASE v # w
      <4>1. WorkerSent(workers[v], Given(loaded, inbox, Len(inbox))) /\ workers'[v] = workers[v]
        BY <1>1, <1>3, <2>1, <3>2 DEF Loading, Idle
      <4>2. QED
        BY <1>8, <4>1 DEF WorkerSent
    <3>3. QED
      BY <3>1, <3>2
  <2>2. ASSUME NEW i \in 1..Len(inbox')
        PROVE  Reported(inbox'[i], Given(loaded, inbox', i - 1))
    <3>1. CASE inbox' = inbox
      BY <1>1, <2>2, <3>1 DEF Loading
    <3>2. CASE inbox' = Append(inbox, m) /\ i \in 1..Len(inbox)
      <4>1. inbox'[i] = inbox[i] /\ i - 1 \in 0..Len(inbox)
        BY <1>6, <3>2
      <4>2. Given(loaded, inbox', i - 1) = Given(loaded, inbox, i - 1)
        BY <1>1, <3>2, <4>1, GivenAppend
      <4>3. Reported(inbox[i], Given(loaded, inbox, i - 1))
        BY <1>1, <3>2 DEF Loading
      <4>4. QED
        BY <4>1, <4>2, <4>3
    <3>3. CASE inbox' = Append(inbox, m) /\ i = Len(inbox) + 1
      <4>1. inbox'[i] = m /\ i - 1 = Len(inbox) /\ i - 1 \in 0..Len(inbox)
        BY <1>6, <3>3
      <4>2. Given(loaded, inbox', i - 1) = Given(loaded, inbox, Len(inbox))
        BY <1>1, <3>3, <4>1, GivenAppend
      <4>3. QED
        BY <4>1, <4>2
    <3>4. QED
      BY <1>6, <2>2, <3>1, <3>2, <3>3
  <2>3. CandlesHoldCovered'
    BY <1>1 DEF Loading, CandlesHoldCovered
  <2>4. QED
    BY <2>1, <2>2, <2>3 DEF Loading, Idle, WorkerSent, Reported, Given
<1>10. QED
  BY <1>1, <1>4, <1>5, <1>7, <1>9 DEF SteadyInv

LEMMA WorkerIsSteady ==
  ASSUME SteadyInv, ChartInv', NEW w \in Workers, WorkerStep(w)
  PROVE  SteadyInv'
<1> DEFINE r == workers[w]
           G == Given(loaded, inbox, Len(inbox))
<1>1. ~Idle(w)
  BY DEF WorkerStep, WorkerStart, WorkerPage, WorkerDone, WorkerYield, WorkerError
<1>2. /\ WorkSide /\ Loading /\ inbox \in Seq(Message) /\ cache \subseteq Points
  BY DEF SteadyInv, ChartInv, InboxSide, CoverSide
<1>3. /\ r \in Worker /\ WorkerSent(r, G)
      /\ r.req \in Ids /\ r.from \in Points /\ r.to \in Points
      /\ r.todo \subseteq Points /\ r.todo \subseteq r.from..r.to /\ r.started \in BOOLEAN
  BY <1>1, <1>2, WorkerFields DEF WorkSide, Loading, Idle, WorkerCovers
<1> HIDE DEF r
<1>4. ASSUME NEW points \in SUBSET Points
      PROVE  /\ Data(r, points) \in Message /\ Data(r, points).req = r.req
             /\ Reported(Data(r, points), G)
             /\ inbox' = Append(inbox, Data(r, points))
                  => /\ G \subseteq Given(loaded, inbox', Len(inbox'))
                     /\ points \subseteq Given(loaded, inbox', Len(inbox'))
  <2> DEFINE m == Data(r, points)
  <2>1. m \in Message /\ m.type = "Data" /\ m.req = r.req /\ m.points = points
    BY <1>3, DataIsMessage DEF Data
  <2> HIDE DEF m
  <2>2. Reported(m, G)
    BY <2>1 DEF Reported
  <2>3. Len(Append(inbox, m)) = Len(inbox) + 1
    BY <1>2, <2>1, AppendProperties
  <2>4. /\ G \subseteq Given(loaded, Append(inbox, m), Len(inbox) + 1)
        /\ points \subseteq Given(loaded, Append(inbox, m), Len(inbox) + 1)
    BY <1>2, <2>1, GivenAppend
  <2>5. QED
    BY <2>1, <2>2, <2>3, <2>4 DEF m
<1>5. CASE WorkerStart(w)
  <2> DEFINE cached == cache \cap (r.from..r.to)
             next == [r EXCEPT !.started = TRUE, !.todo = (r.from..r.to) \ cached]
  <2>1. /\ workers' = [workers EXCEPT ![w] = next]
        /\ IF cached = {} THEN inbox' = inbox ELSE inbox' = Append(inbox, Data(r, cached))
        /\ UNCHANGED <<handlerVars, fetching, handle, covered, loaded>>
    BY <1>2, <1>3, <1>5 DEF WorkerStart, Emit, r, WorkSide
  <2>2. cached \in SUBSET Points
    BY <1>2
  <2>3. /\ next \in Worker /\ next.from = r.from /\ next.to = r.to /\ next.req = r.req
        /\ next.todo = (r.from..r.to) \ cached
    <3>1. (r.from..r.to) \ cached \in SUBSET Points
      BY <1>3, ChartConstants
    <3>2. \A todo \in SUBSET Points :
            [r EXCEPT !.started = TRUE, !.todo = todo] \in Worker
      BY <1>3 DEF Worker
    <3> HIDE DEF cached
    <3>3. QED
      BY <1>3, <3>1, <3>2 DEF Worker
  <2> HIDE DEF next, cached
  <2>4. inbox' = inbox \/ inbox' = Append(inbox, Data(r, cached))
    BY <2>1
  <2>5. cached \subseteq Given(loaded, inbox', Len(inbox'))
    BY <1>4, <2>1, <2>2
  <2>6. WorkerSent(next, Given(loaded, inbox', Len(inbox')))
    BY <2>3, <2>5 DEF WorkerSent
  <2>7. Data(r, cached) \in Message /\ Data(r, cached).req = r.req /\ Reported(Data(r, cached), G)
    BY <1>4, <2>2
  <2>8. QED
    BY <1>1, <2>1, <2>3, <2>4, <2>6, <2>7, SendIsSteady DEF r
<1>6. ASSUME NEW last \in Points, WorkerPage(w, last)
      PROVE  SteadyInv'
  <2> DEFINE page == {p \in r.todo : p <= last}
             next == [r EXCEPT !.todo = @ \ page]
  <2>1. /\ workers' = [workers EXCEPT ![w] = next]
        /\ r.started
        /\ inbox' = Append(inbox, Data(r, page))
        /\ UNCHANGED <<handlerVars, fetching, handle, covered, loaded>>
    BY <1>2, <1>3, <1>6 DEF WorkerPage, Emit, r, WorkSide
  <2>2. page \in SUBSET Points
    BY <1>3
  <2>3. /\ next \in Worker /\ next.from = r.from /\ next.to = r.to /\ next.req = r.req
        /\ next.todo = r.todo \ page
    BY <1>3 DEF Worker
  <2> HIDE DEF next, page
  <2>4. /\ Data(r, page) \in Message /\ Data(r, page).req = r.req /\ Reported(Data(r, page), G)
        /\ G \subseteq Given(loaded, inbox', Len(inbox'))
        /\ page \subseteq Given(loaded, inbox', Len(inbox'))
    BY <1>4, <2>1, <2>2
  <2>5. WorkerSent(next, Given(loaded, inbox', Len(inbox')))
    BY <1>3, <2>1, <2>3, <2>4 DEF WorkerSent
  <2>6. QED
    BY <1>1, <2>1, <2>3, <2>4, <2>5, SendIsSteady DEF r
<1>7. ASSUME NEW m \in Message, Finish(w, m), m.req = r.req, Reported(m, G)
      PROVE  SteadyInv'
  <2>1. /\ workers' = [workers EXCEPT ![w] = NoWorker]
        /\ inbox' = Append(inbox, m)
        /\ UNCHANGED <<handlerVars, fetching, handle, covered, loaded>>
    BY <1>7 DEF Finish, Emit
  <2>2. QED
    BY <1>1, <1>7, <2>1, SendIsSteady DEF r
<1>8. CASE WorkerDone(w)
  <2> DEFINE m == Completed(r, r.to, FALSE)
  <2>1. r.started /\ r.todo = {} /\ Finish(w, m)
    BY <1>8 DEF WorkerDone, r
  <2>2. m.from = r.from /\ m.verifiedTo = r.to /\ m.req = r.req /\ m \in Message
    BY <1>3, ChartConstants DEF Completed, Message
  <2> HIDE DEF m
  <2>3. Reported(m, G)
    BY <1>3, <2>1, <2>2 DEF WorkerSent, Reported
  <2>4. QED
    BY <1>7, <2>1, <2>2, <2>3
<1>9. ASSUME NEW empty \in BOOLEAN, WorkerYield(w, empty)
      PROVE  SteadyInv'
  <2> DEFINE m == Completed(r, Min(r.todo) - 1, empty)
  <2>1. r.started /\ r.todo # {} /\ Finish(w, m)
    BY <1>9 DEF WorkerYield, r
  <2>2. Min(r.todo) \in r.todo /\ \A p \in r.todo : Min(r.todo) <= p
    <3>1. r.todo \in SUBSET (0..LastPoint) /\ 0 \in Int /\ LastPoint \in Int
      BY <1>3, ChartConstants
    <3>2. QED
      BY <2>1, <3>1, MinIs
  <2>3. Min(r.todo) \in 0..LastPoint /\ Min(r.todo) <= r.to /\ r.from \in Int /\ r.to \in Int
    BY <1>3, <2>2, ChartConstants
  <2>4. Min(r.todo) - 1 \in -1..LastPoint
    BY <2>3, ChartConstants
  <2>5. m.from = r.from /\ m.verifiedTo = Min(r.todo) - 1 /\ m.req = r.req /\ m \in Message
    BY <1>3, <2>4 DEF Completed, Message
  <2> HIDE DEF m
  <2>6. r.from..(Min(r.todo) - 1) \subseteq (r.from..r.to) \ r.todo
    BY <2>2, <2>3
  <2>7. Reported(m, G)
    BY <1>3, <2>1, <2>5, <2>6 DEF WorkerSent, Reported
  <2>8. QED
    BY <1>9, <1>7, <2>1, <2>5, <2>7
<1>10. CASE WorkerError(w)
  <2>1. Finish(w, Error(r))
    BY <1>10 DEF WorkerError, r
  <2>2. Error(r) \in Message /\ Error(r).req = r.req /\ Reported(Error(r), G)
    BY <1>3 DEF Error, Message, Reported
  <2>3. QED
    BY <1>7, <2>1, <2>2
<1>11. QED
  BY <1>5, <1>6, <1>8, <1>9, <1>10 DEF WorkerStep

(* A message is handled.                                                   *)
LEMMA HandledIsGiven ==
  ASSUME Loading, inbox \in Seq(Message), inbox # <<>>, inbox' = Tail(inbox),
         loaded \subseteq loaded', Head(inbox).type = "Data" => Head(inbox).points \subseteq loaded',
         \A w \in Workers : ~Idle(w)' => ~Idle(w) /\ workers'[w] = workers[w]
  PROVE  /\ \A w \in Workers : ~Idle(w)' => WorkerSent(workers'[w], Given(loaded', inbox', Len(inbox')))
         /\ \A i \in 1..Len(inbox') : Reported(inbox'[i], Given(loaded', inbox', i - 1))
<1>1. /\ Len(inbox') = Len(inbox) - 1 /\ Len(inbox) \in Nat \ {0} /\ Len(inbox') \in Nat
      /\ \A i \in 1..Len(inbox') : inbox'[i] = inbox[i + 1]
  BY HeadTailProperties
<1>2. ASSUME NEW n \in 0..Len(inbox')
      PROVE  Given(loaded, inbox, n + 1) \subseteq Given(loaded', inbox', n)
  BY <1>1, GivenTail
<1>3. ASSUME NEW w \in Workers, ~Idle(w)'
      PROVE  WorkerSent(workers'[w], Given(loaded', inbox', Len(inbox')))
  <2>1. WorkerSent(workers[w], Given(loaded, inbox, Len(inbox)))
    BY <1>3 DEF Loading
  <2>2. Given(loaded, inbox, Len(inbox)) \subseteq Given(loaded', inbox', Len(inbox'))
    <3>1. Len(inbox') \in 0..Len(inbox') /\ Len(inbox') + 1 = Len(inbox)
      BY <1>1
    <3>2. Given(loaded, inbox, Len(inbox') + 1) \subseteq Given(loaded', inbox', Len(inbox'))
      BY <1>2, <3>1
    <3>3. QED
      BY <3>1, <3>2
  <2>3. QED
    BY <1>3, <2>1, <2>2 DEF WorkerSent
<1>4. ASSUME NEW i \in 1..Len(inbox')
      PROVE  Reported(inbox'[i], Given(loaded', inbox', i - 1))
  <2>1. i \in Nat /\ i + 1 \in 1..Len(inbox) /\ i - 1 \in 0..Len(inbox') /\ (i - 1) + 1 = i /\ (i + 1) - 1 = i
    BY <1>1
  <2>2. Reported(inbox[i + 1], Given(loaded, inbox, (i + 1) - 1))
    BY <2>1 DEF Loading
  <2>3. Given(loaded, inbox, (i - 1) + 1) \subseteq Given(loaded', inbox', i - 1)
    BY <1>2, <2>1
  <2>4. inbox'[i] = inbox[i + 1]
    BY <1>1
  <2>5. QED
    BY <2>1, <2>2, <2>3, <2>4 DEF Reported
<1>5. QED
  BY <1>3, <1>4

LEMMA AwaitedPopped ==
  ASSUME Awaited, inbox \in Seq(Message), inbox # <<>>, inbox' = Tail(inbox),
         \A id \in Ids : Fresh(requests[id]) => Fresh(requests'[id])
  PROVE  /\ Awaited'
         /\ Head(inbox) \in Message
         /\ Head(inbox).type = "Data" => Fresh(requests[Head(inbox).req])
         /\ Loading => Reported(Head(inbox), loaded)
<1>1. /\ Len(inbox') = Len(inbox) - 1 /\ Len(inbox) \in Nat \ {0}
      /\ \A i \in 1..Len(inbox') : inbox'[i] = inbox[i + 1]
      /\ Head(inbox) = inbox[1] /\ 1 \in 1..Len(inbox)
  BY HeadTailProperties
<1>2. \A i \in 1..Len(inbox) : inbox[i] \in Message
  BY ElementOfSeq
<1>3. ASSUME NEW i \in 1..Len(inbox'), inbox'[i].type = "Data"
      PROVE  Fresh(requests'[inbox'[i].req])
  <2>1. i + 1 \in 1..Len(inbox) /\ inbox'[i] = inbox[i + 1]
    BY <1>1
  <2>2. Fresh(requests[inbox[i + 1].req]) /\ inbox[i + 1].req \in Ids
    BY <1>2, <1>3, <2>1, MessageFields DEF Awaited
  <2>3. Fresh(requests'[inbox[i + 1].req])
    BY <2>2
  <2>4. QED
    BY <2>1, <2>3
<1>4. Awaited'
  BY <1>3 DEF Awaited, Fresh
<1>5. ASSUME Loading
      PROVE  Reported(Head(inbox), loaded)
  <2>1. Reported(inbox[1], Given(loaded, inbox, 1 - 1))
    BY <1>1, <1>5 DEF Loading
  <2>2. Given(loaded, inbox, 1 - 1) = loaded
    BY DEF Given
  <2>3. QED
    BY <1>1, <2>1, <2>2
<1>6. QED
  BY <1>1, <1>2, <1>4, <1>5 DEF Awaited

(* What an answer does to the entries.                                     *)
LEMMA AnsweredEntry ==
  ASSUME HandlerInv, NEW id \in Ids,
         \/ requests' = CompletedIfPending(id)
         \/ HasStatus(id, "Pending") /\ MarkFailed(id)
         \/ HasStatus(id, "Failed") /\ MarkFailed(id)
         \/ requests' = requests
  PROVE  \A other \in Ids :
           /\ requests'[other] # NoRequest => /\ requests[other] # NoRequest
                                              /\ requests'[other].fetch = requests[other].fetch
                                              /\ \/ requests'[other] = requests[other]
                                                 \/ requests'[other].status \in {"Completed", "Failed"}
           /\ Fresh(requests[other]) => Fresh(requests'[other])
<1> SUFFICES ASSUME NEW other \in Ids
             PROVE  /\ requests'[other] # NoRequest => /\ requests[other] # NoRequest
                                              /\ requests'[other].fetch = requests[other].fetch
                                              /\ \/ requests'[other] = requests[other]
                                                 \/ requests'[other].status \in {"Completed", "Failed"}
                    /\ Fresh(requests[other]) => Fresh(requests'[other])
  OBVIOUS
<1>1. requests[other] \in Entry /\ requests[id] \in Entry /\ requests \in [Ids -> Entry]
  BY EntryIs DEF HandlerInv, TypeOK, Entry
<1>2. CASE requests'[other] = requests[other]
  BY <1>2
<1>3. CASE other = id /\ HasStatus(id, "Pending") /\ requests' = CompletedIfPending(id)
  <2> DEFINE s == [requests[id] EXCEPT !.status = "Completed", !.age = 0]
  <2>1. requests[id] \in Request /\ requests' = [requests EXCEPT ![id] = s]
    BY <1>1, <1>3 DEF CompletedIfPending, HasStatus, Present, Entry
  <2>2. s.status = "Completed" /\ s.age = 0 /\ s.fetch = requests[id].fetch /\ s \in Request
    <3>1. 0 \in 0..AgeCap /\ "Completed" \in Statuses
      BY TimesAssumption DEF Statuses
    <3>2. QED
      BY <2>1, <3>1 DEF Request
  <2> HIDE DEF s
  <2>3. requests'[other] = s /\ s # NoRequest
    BY <1>1, <1>3, <2>1, <2>2, NoRequestAssumption
  <2>4. QED
    BY <1>3, <2>2, <2>3 DEF Fresh, HasStatus, Present
<1>4. CASE other = id /\ MarkFailed(id)
  <2>1. requests' = [requests EXCEPT ![id] = FailedEntry(requests[id])] /\ requests[id] \in Request
    BY <1>1, <1>4 DEF MarkFailed, HasStatus, Present, Entry
  <2>2. requests'[other] = FailedEntry(requests[id])
    BY <1>1, <1>4, <2>1
  <2>3. QED
    BY <1>4, <2>1, <2>2, FailedEntryFacts, FailedWaits, NoRequestAssumption
<1>5. other # id => requests'[other] = requests[other]
  BY <1>1 DEF CompletedIfPending, MarkFailed
<1>6. QED
  BY <1>2, <1>3, <1>4, <1>5 DEF CompletedIfPending

LEMMA DeliverIsSteady ==
  ASSUME SteadyInv, ChartInv', Deliver
  PROVE  SteadyInv'
<1> DEFINE m == Head(inbox)
<1>1. /\ HandlerInv /\ WorkSide /\ SteadyRequests /\ (~fetching => handle = NoWorker)
      /\ Youngest /\ Awaited /\ Loading /\ inbox \in Seq(Message)
      /\ covered \in SUBSET RangesUpTo(LastPoint)
  BY ChartConstants DEF SteadyInv, ChartInv, InboxSide, CoverSide
<1>2. inbox # <<>> /\ inbox' = Tail(inbox)
  BY DEF Deliver, DiscardData, ApplyData, CompleteTradeFetch, FailTradeFetch, Receive
<1>3. m \in Message /\ m.req \in Ids /\ 1 \in 1..Len(inbox) /\ m = inbox[1]
  BY <1>1, <1>2, HeadTailProperties, MessageFields, ElementOfSeq
<1>4. ~DiscardData
  <2> SUFFICES ASSUME DiscardData
               PROVE  FALSE
    OBVIOUS
  <2>1. m.type = "Data" /\ IsStaleGeneration(m.req)
    BY DEF DiscardData
  <2>2. Fresh(requests[m.req])
    BY <1>1, <1>3, <2>1 DEF Awaited
  <2>3. requests[m.req] \in Request /\ EntryOK(requests[m.req])
    BY <1>1, <1>3, <2>2, EntryIs DEF Fresh, Entry
  <2>4. requests[m.req].status = "Pending" /\ requests[m.req].generation # generationId
    BY <2>1, <2>2, <2>3 DEF IsStaleGeneration, Present, Fresh, Request, Statuses
  <2>5. QED
    BY <2>2, <2>3, <2>4 DEF EntryOK, Fresh
<1>5. /\ \/ requests' = CompletedIfPending(m.req)
         \/ HasStatus(m.req, "Pending") /\ MarkFailed(m.req)
         \/ HasStatus(m.req, "Failed") /\ MarkFailed(m.req)
         \/ requests' = requests
      /\ ClearFetching \/ (requests' = requests /\ UNCHANGED <<fetching, handle, workers>>)
  <2>1. CASE ApplyData
    BY <2>1 DEF ApplyData, handlerVars
  <2>2. CASE CompleteTradeFetch
    BY <2>2 DEF CompleteTradeFetch
  <2>3. CASE FailTradeFetch
    <3>1. CASE IsTradeRequest(m.req)
      BY <2>3, <3>1 DEF FailTradeFetch, handlerVars
    <3>2. CASE ~IsTradeRequest(m.req)
      <4>1. ~HasStatus(m.req, "Pending") /\ ~HasStatus(m.req, "Failed")
        BY <1>1, <1>3, <3>2 DEF IsTradeRequest, HasStatus, SteadyRequests
      <4>2. QED
        BY <2>3, <3>2, <4>1 DEF FailTradeFetch, handlerVars
    <3>3. QED
      BY <3>1, <3>2
  <2>4. QED
    BY <1>4, <2>1, <2>2, <2>3 DEF Deliver
<1>6. \A id \in Ids :
        /\ requests'[id] # NoRequest => /\ requests[id] # NoRequest
                                        /\ requests'[id].fetch = requests[id].fetch
                                        /\ \/ requests'[id] = requests[id]
                                           \/ requests'[id].status \in {"Completed", "Failed"}
        /\ Fresh(requests[id]) => Fresh(requests'[id])
  BY <1>1, <1>3, <1>5, AnsweredEntry
<1>7. SteadyRequests'
  BY <1>1, <1>6 DEF SteadyRequests, Present
<1>8. Awaited' /\ Reported(m, loaded)
  BY <1>1, <1>2, <1>6, AwaitedPopped
<1>9. /\ ~fetching' => handle' = NoWorker
      /\ Youngest'
      /\ \A w \in Workers : ~Idle(w)' => ~Idle(w) /\ workers'[w] = workers[w]
  <2>1. CASE ClearFetching
    <3>1. handle' = NoWorker /\ \A w \in Workers : Idle(w)'
      BY <1>1, <2>1, NoneLeft
    <3>2. QED
      BY <3>1, NoWorkerIsYoungest
  <2>2. CASE requests' = requests /\ UNCHANGED <<fetching, handle, workers>>
    BY <1>1, <2>2 DEF Youngest, Idle, HasStatus, Present
  <2>3. QED
    BY <1>5, <2>1, <2>2
<1>10. loaded \subseteq loaded' /\ (m.type = "Data" => m.points \subseteq loaded')
  <2>1. CASE ApplyData
    BY <2>1 DEF ApplyData
  <2>2. CASE CompleteTradeFetch
    BY <2>2 DEF CompleteTradeFetch
  <2>3. CASE FailTradeFetch
    BY <2>3 DEF FailTradeFetch
  <2>4. QED
    BY <1>4, <2>1, <2>2, <2>3 DEF Deliver
<1>11. CandlesHoldCovered'
  <2>1. \A r \in covered : r.from..r.to \subseteq loaded
    BY <1>1 DEF Loading, CandlesHoldCovered
  <2>2. CASE covered' = covered
    BY <1>10, <2>1, <2>2 DEF CandlesHoldCovered
  <2>3. CASE CompleteTradeFetch
    <3>1. m.type = "Completed" /\ covered' = MarkCovered(covered, m.from, m.verifiedTo)
          /\ loaded' = loaded
      BY <2>3 DEF CompleteTradeFetch
    <3>2. m.from \in Points /\ m.verifiedTo \in -1..LastPoint
      BY <1>3, <3>1, MessageFields
    <3>3. /\ LastPoint \in Nat /\ m.from \in 0..LastPoint /\ m.verifiedTo \in Int
          /\ m.verifiedTo < m.from \/ m.verifiedTo \in 0..LastPoint
      BY <3>2, ChartConstants
    <3>4. m.from..m.verifiedTo \subseteq loaded
      BY <1>8, <3>1 DEF Reported
    <3> HIDE DEF m
    <3>5. \A r \in MarkCovered(covered, m.from, m.verifiedTo) : r.from..r.to \subseteq loaded
      BY <1>1, <2>1, <3>3, <3>4, MarkedWithin
    <3>6. QED
      BY <3>1, <3>5 DEF CandlesHoldCovered
  <2>4. QED
    BY <1>4, <2>2, <2>3 DEF Deliver, ApplyData, FailTradeFetch
<1>12. Loading'
  <2>1. /\ \A w \in Workers : ~Idle(w)' => WorkerSent(workers'[w], Given(loaded', inbox', Len(inbox')))
        /\ \A i \in 1..Len(inbox') : Reported(inbox'[i], Given(loaded', inbox', i - 1))
    BY <1>1, <1>2, <1>9, <1>10, HandledIsGiven
  <2>2. QED
    BY <1>11, <2>1 DEF Loading, Idle, WorkerSent, Reported, Given
<1>13. QED
  BY <1>7, <1>8, <1>9, <1>12 DEF SteadyInv

LEMMA SteadyInit == ChartInit => SteadyInv
<1> SUFFICES ASSUME ChartInit
             PROVE  SteadyInv
  OBVIOUS
<1>1. ChartInv
  BY ChartInvInit
<1>2. requests = [id \in Ids |-> NoRequest] /\ handle = NoWorker
      /\ covered = {} /\ inbox = <<>> /\ workers = [w \in Workers |-> NoWorker]
  BY DEF ChartInit, HandlerInit
<1>3. Len(inbox) = 0
  BY <1>2
<1>4. SteadyRequests /\ Youngest /\ Awaited /\ Loading
  BY <1>2, <1>3 DEF SteadyRequests, Present, Youngest, Awaited, Loading, Idle, CandlesHoldCovered
<1>5. QED
  BY <1>1, <1>2, <1>4 DEF SteadyInv

LEMMA SteadyUnchanged == SteadyInv /\ ChartInv' /\ UNCHANGED vars => SteadyInv'
<1> SUFFICES ASSUME SteadyInv, ChartInv', UNCHANGED vars
             PROVE  SteadyInv'
  OBVIOUS
<1>1. UNCHANGED <<requests, fetching, handle, workers, covered, loaded, inbox>>
  BY DEF vars, handlerVars, chartVars
<1>2. QED
  BY <1>1 DEF SteadyInv, SteadyRequests, Youngest, Awaited, Loading, Idle, HasStatus, Present,
              Fresh, Given, WorkerSent, Reported, CandlesHoldCovered

(* As long as no setting changes, a range that will never be asked for     *)
(* again has its trades in the candles: a page is sent before it is        *)
(* reported as traversed, no batch is discarded on the way, because the    *)
(* chart stops the worker before its request is forgotten, and a completion*)
(* is handled after the batches it stands for.                             *)
THEOREM CoveredLoaded == Spec => []CoveredIsLoaded
<1> DEFINE Inv == ChartInv /\ (steady => SteadyInv)
<1>1. Inv /\ [Next]_vars => Inv'
  <2> SUFFICES ASSUME Inv, [Next]_vars
               PROVE  Inv'
    OBVIOUS
  <2>1. ChartInv'
    BY ChartInvNext
  <2> SUFFICES ASSUME steady'
               PROVE  SteadyInv'
    BY <2>1
  <2>2. SteadyInv /\ (SteadyNext \/ UNCHANGED vars)
    BY DEF Next, vars
  <2>3. CASE TimePasses
    BY <2>1, <2>2, <2>3, TimeIsSteady
  <2>4. CASE ChartTickIdle \/ ChartTickRefused
    BY <2>1, <2>2, <2>4, TickIsSteady
  <2>5. ASSUME NEW id \in Ids, NEW w \in Workers, ChartTickFetch(id, w)
        PROVE  SteadyInv'
    BY <2>1, <2>2, <2>5, FetchIsSteady
  <2>6. CASE Deliver
    BY <2>1, <2>2, <2>6, DeliverIsSteady
  <2>7. ASSUME NEW w \in Workers, WorkerStep(w)
        PROVE  SteadyInv'
    BY <2>1, <2>2, <2>7, WorkerIsSteady
  <2>8. CASE UNCHANGED vars
    BY <2>1, <2>2, <2>8, SteadyUnchanged
  <2>9. QED
    BY <2>2, <2>3, <2>4, <2>5, <2>6, <2>7, <2>8 DEF SteadyNext, ChartTick
<1>2. ChartInit => Inv
  BY SteadyInit DEF SteadyInv
<1>3. Inv => CoveredIsLoaded
  BY DEF SteadyInv, Loading, CoveredIsLoaded
<1>4. QED
  BY <1>1, <1>2, <1>3, PTL DEF Spec
=============================================================================
