------------------------------- MODULE Backfill -------------------------------
(***************************************************************************)
(* The repair of the trades missed while a connection was down (Dashboard  *)
(* in src/screen/dashboard.rs).  When a stream breaks, the dashboard notes *)
(* the last trade it saw; when the connection is restored, it works out    *)
(* for every chart what is missing since, splits it into chunks, reserves  *)
(* them and starts workers that download one chunk after the other.        *)
(*                                                                         *)
(* The operations are operators that change the variables of this module;  *)
(* module Reconnect calls them from the messages of the application.       *)
(***************************************************************************)
EXTENDS TradeRanges, Integers, Sequences, FiniteSets, SequencesExt

CONSTANTS
  LastMoment,    \* the time line is 0..LastMoment
  TradeStreams,  \* streams that are repaired; others are snapshots
  Panes,         \* panes with a chart of candles
  StreamOf,      \* StreamOf[p]: the trade stream of pane p
  Traded,        \* the moments at which every trade stream has a trade
  MinGap,        \* MIN_BACKFILL_GAP_MS
  ChunkLength,   \* TRADE_BACKFILL_CHUNK_MS
  Expiry,        \* PENDING_EXPIRY
  Candle,        \* interval of the charts
  LivePanes      \* panes on the market whose live candles are exclusive

Moments == 0..LastMoment

ASSUME BackfillAssumption ==
  /\ LastMoment \in Nat
  /\ StreamOf \in [Panes -> TradeStreams]
  /\ Traded \subseteq Moments
  /\ MinGap \in Nat
  /\ ChunkLength \in Nat \ {0}
  /\ Expiry \in Nat
  /\ Candle \in Nat \ {0}
  /\ LivePanes \subseteq Panes
  /\ IsFiniteSet(Panes)

NoMoment == -1

VARIABLES
  lastLive,   \* last_live_t: the newest live trade of a stream, or NoMoment
  gaps,       \* pending_disconnect: the newest trade before the first break
  reserved,   \* pending_backfills: chunks [stream, from, to, born]
  jobs,       \* workers and the chunks chained behind them
  charts,     \* what a pane holds and believes to hold
  left,       \* left[p]: moments that were given up for p (history)
  lapsed      \* ranges whose reservation expired while it was held (history)

dashVars == <<lastLive, gaps, reserved, jobs, charts, left, lapsed>>

PanesOf(s) == {p \in Panes : StreamOf[p] = s}

(* covered_trade_ranges, the moments whose trades are in the candles, and  *)
(* live_trade_buckets.                                                     *)
NewChart == [covered |-> {}, loaded |-> {}, live |-> {}]

BackfillInit ==
  /\ lastLive = [s \in TradeStreams |-> NoMoment]
  /\ gaps = [s \in TradeStreams |-> NoMoment]
  /\ reserved = {}
  /\ jobs = {}
  /\ charts = [p \in Panes |-> NewChart]
  /\ left = [p \in Panes |-> {}]
  /\ lapsed = {}

CandleOf(m) == m - (m % Candle)

-----------------------------------------------------------------------------
(* Live data and breaks *)

(* ingest_trades: a live trade of stream s.                                *)
Ingest(s, m) ==
  /\ lastLive' = [lastLive EXCEPT ![s] = Max({@, m})]
  /\ charts' = [p \in Panes |->
       IF StreamOf[p] = s
         THEN [charts[p] EXCEPT !.loaded = @ \cup {m},
                 !.live = IF p \in LivePanes THEN @ \cup {CandleOf(m)} ELSE @]
         ELSE charts[p]]
  /\ UNCHANGED <<gaps, reserved, jobs, left, lapsed>>

(* Mutant: a later break moves the start of the gap.                       *)
MutantFirstBreak(s) == lastLive[s]

(* The start of the gap is that of the first break since the last repair.  *)
FirstBreak(s) ==
  IF gaps[s] = NoMoment THEN lastLive[s]
  ELSE IF lastLive[s] = NoMoment THEN gaps[s]
  ELSE Min({gaps[s], lastLive[s]})

(* record_pending_disconnect_gaps.                                         *)
RecordGaps(streams) ==
  /\ gaps' = [s \in TradeStreams |-> IF s \in streams THEN FirstBreak(s) ELSE gaps[s]]
  /\ UNCHANGED <<lastLive, reserved, jobs, charts, left, lapsed>>

-----------------------------------------------------------------------------
(* Planning: backfill_disconnected_streams *)

Noticed == \E s \in TradeStreams : gaps[s] # NoMoment

(* Reservations are pruned only when there is something to repair.         *)
Expired(t) == IF Noticed THEN {r \in reserved : t - r.born >= Expiry} ELSE {}

Worthwhile(s, t) == gaps[s] # NoMoment /\ t - (gaps[s] + 1) >= MinGap

(* missing_trade_range of a pane: the oldest part not covered.             *)
Missing(p, t) == OldestGap(charts[p].covered, gaps[StreamOf[p]] + 1, t)

(* Panes of one stream that miss the same range are repaired together.     *)
Group(s, m, t) ==
  [stream |-> s, from |-> m.from, to |-> m.to,
   panes |-> {p \in PanesOf(s) : Missing(p, t) = m}]

Groups(t) ==
  {Group(s, m, t) : s \in {u \in TradeStreams : Worthwhile(u, t)},
                    m \in {Missing(p, t) : p \in Panes} \ {NoGap}}

Plans(t) == SetToSeqs({g \in Groups(t) : g.panes # {}})

ChunkFrom(g, i) == g.from + (i - 1) * ChunkLength

ChunkTo(g, i) == Min({g.to, ChunkFrom(g, i) + ChunkLength - 1})

ChunkCount(g) == ((g.to - g.from) \div ChunkLength) + 1

Chunks(g) ==
  [i \in 1..ChunkCount(g) |-> [from |-> ChunkFrom(g, i), to |-> ChunkTo(g, i)]]

(* Mutant: only a chunk that is reserved as it stands is left out.         *)
MutantTaken(taken, s, c) ==
  \E r \in taken : r.stream = s /\ r.from = c.from /\ r.to = c.to

(* pending_overlap: a chunk that overlaps a reserved one is left out.      *)
Taken(taken, s, c) ==
  \E r \in taken : r.stream = s /\ r.from <= c.to /\ r.to >= c.from

Span(c) == c.from..c.to

RangeOf(s, c) == [stream |-> s, from |-> c.from, to |-> c.to]

(* The chunks of a group that are not taken, in their order.               *)
Free(taken, g) ==
  LET all == Chunks(g)
      free[n \in 0..ChunkCount(g)] ==
        IF n = 0 THEN <<>>
        ELSE IF Taken(taken, g.stream, all[n]) THEN free[n - 1]
        ELSE Append(free[n - 1], all[n])
  IN  free[ChunkCount(g)]

Reservation(s, c, t) == [stream |-> s, from |-> c.from, to |-> c.to, born |-> t]

Chain(g, chunks, t) ==
  [stream |-> g.stream, panes |-> g.panes, chunks |-> chunks,
   upTo |-> Head(chunks).from - 1, born |-> t]

(* One group: its free chunks are reserved and chained behind one another. *)
Queued(plan, g, t) ==
  LET free    == Free(plan.reserved, g)
      skipped == UNION {Span(c) : c \in ToSet(Chunks(g)) \ ToSet(free)}
  IN  [reserved |-> plan.reserved \cup {Reservation(g.stream, c, t) : c \in ToSet(free)},
       jobs |-> plan.jobs \cup (IF free = <<>> THEN {} ELSE {Chain(g, free, t)}),
       skipped |-> [p \in Panes |-> plan.skipped[p] \cup
                      (IF p \in g.panes THEN skipped ELSE {})]]

(* The groups, one after the other.                                        *)
Planned(order, t) ==
  LET plan[n \in 0..Len(order)] ==
        IF n = 0
          THEN [reserved |-> reserved \ Expired(t), jobs |-> jobs,
                skipped |-> [p \in Panes |-> {}]]
          ELSE Queued(plan[n - 1], order[n], t)
  IN  plan[Len(order)]

(* What no chunk was planned for, pane by pane: the gap of the stream is   *)
(* too short, or the pane's missing range is not all of it.                *)
Unplanned(p, t) ==
  LET s == StreamOf[p]
      m == Missing(p, t)
  IN  IF gaps[s] = NoMoment THEN {}
      ELSE ((gaps[s] + 1)..t) \ (IF Worthwhile(s, t) /\ m # NoGap THEN Span(m) ELSE {})

Current(j) == Head(j.chunks)

(* What job j has still to bring.                                          *)
Due(j) == ((j.upTo + 1)..Current(j).to) \cup UNION {Span(c) : c \in ToSet(Tail(j.chunks))}

Remaining(p, some) == UNION {Due(j) : j \in {k \in some : p \in k.panes}}

(* execute_reconnect_backfill: the noted gaps are taken and planned; the   *)
(* order of the groups is that of a hash map.  On a tick the handles are   *)
(* dropped afterwards if nothing is reserved.                              *)
Execute(t, ticking) ==
  /\ gaps' = [s \in TradeStreams |-> NoMoment]
  /\ \E order \in Plans(t) :
       LET plan == Planned(order, t)
           aborted == IF ticking /\ plan.reserved = {} THEN plan.jobs ELSE {}
       IN  /\ reserved' = plan.reserved
           /\ jobs' = plan.jobs \ aborted
           /\ left' = [p \in Panes |-> left[p] \cup Unplanned(p, t)
                         \cup plan.skipped[p] \cup Remaining(p, aborted)]
  /\ lapsed' = lapsed \cup {RangeOf(r.stream, r) : r \in Expired(t)}
  /\ UNCHANGED <<lastLive, charts>>

-----------------------------------------------------------------------------
(* Workers *)

GiveUp(panes, moments) ==
  left' = [p \in Panes |-> IF p \in panes THEN left[p] \cup moments ELSE left[p]]

(* Historical trades of a candle that has live trades are discarded.       *)
Kept(p, moments) ==
  {m \in moments \cap Traded : CandleOf(m) \notin charts[p].live}

(* Batches of the current chunk reach the charts (apply_backfill_update).  *)
Deliver(j, m) ==
  LET fresh == (j.upTo + 1)..m
  IN  /\ m \in (j.upTo + 1)..Current(j).to
      /\ charts' = [p \in Panes |->
           IF p \in j.panes THEN [charts[p] EXCEPT !.loaded = @ \cup Kept(p, fresh)]
           ELSE charts[p]]
      /\ left' = [p \in Panes |->
           IF p \in j.panes THEN left[p] \cup (fresh \ Kept(p, fresh)) ELSE left[p]]
      /\ jobs' = (jobs \ {j}) \cup {[j EXCEPT !.upTo = m]}
      /\ UNCHANGED <<lastLive, gaps, reserved, lapsed>>

(* Mutant: the place of the worker is not moved to the next chunk.         *)
MutantOnward(j) ==
  jobs' = (jobs \ {j}) \cup
    (IF Len(j.chunks) = 1 THEN {} ELSE {[j EXCEPT !.chunks = Tail(@)]})

(* The chain goes on with the next chunk, however this one ended.          *)
Onward(j) ==
  jobs' = (jobs \ {j}) \cup
    (IF Len(j.chunks) = 1 THEN {}
     ELSE {[j EXCEPT !.chunks = Tail(@), !.upTo = j.chunks[2].from - 1]})

(* clear_pending_backfill: by stream and bounds.                           *)
Released(j) ==
  {r \in reserved : r.stream = j.stream /\ r.from = Current(j).from
                                        /\ r.to = Current(j).to}

(* The worker has traversed the chunk, up to a tail it reports.            *)
Completed(j) ==
  LET c == Current(j)
  IN  /\ charts' = [p \in Panes |->
           IF p \in j.panes /\ j.upTo > c.from
             THEN [charts[p] EXCEPT !.covered = MarkCovered(@, c.from, j.upTo)]
             ELSE charts[p]]
      /\ GiveUp(j.panes, (j.upTo + 1)..c.to)
      /\ reserved' = reserved \ Released(j)
      /\ Onward(j)
      /\ UNCHANGED <<lastLive, gaps, lapsed>>

(* It failed: the chunk is not tried again.                                *)
Failed(j) ==
  /\ GiveUp(j.panes, (j.upTo + 1)..Current(j).to)
  /\ reserved' = reserved \ Released(j)
  /\ Onward(j)
  /\ UNCHANGED <<lastLive, gaps, charts, lapsed>>

(* Dropping the handles aborts the workers and what is chained to them.    *)
AbortAll ==
  /\ jobs' = {}
  /\ left' = [p \in Panes |-> left[p] \cup Remaining(p, jobs)]

(* Mutant: the handles are dropped on every tick.                          *)
MutantHandleCleanup ==
  /\ AbortAll
  /\ UNCHANGED <<lastLive, gaps, reserved, charts, lapsed>>

(* tick: handles are dropped once nothing is reserved.                     *)
HandleCleanup ==
  IF reserved = {}
    THEN AbortAll /\ UNCHANGED <<lastLive, gaps, reserved, charts, lapsed>>
    ELSE UNCHANGED dashVars

(* invalidate_market_data_cache: handles, reservations and trades go; the  *)
(* covered ranges of the charts stay (see ChartTradeFetch).                *)
ClearCache ==
  /\ jobs' = {}
  /\ reserved' = {}
  /\ charts' = [p \in Panes |-> [charts[p] EXCEPT !.loaded = {}]]
  /\ left' = [p \in Panes |-> left[p] \cup charts[p].loaded \cup Remaining(p, jobs)]
  /\ lapsed' = {}
  /\ UNCHANGED <<lastLive, gaps>>

(* The chart's own fetch of a range, started before: it is covered, and    *)
(* its trades are loaded.                                                  *)
OwnFetch(p, from, to) ==
  /\ charts' = [charts EXCEPT ![p].covered = MarkCovered(@, from, to),
                              ![p].loaded = @ \cup Kept(p, from..to)]
  /\ left' = [left EXCEPT ![p] = @ \cup ((from..to) \ Kept(p, from..to))]
  /\ UNCHANGED <<lastLive, gaps, reserved, jobs, lapsed>>
=============================================================================
