----------------------------- MODULE MarketCache -----------------------------
(***************************************************************************)
(* The persistent cache for the trades of one ticker, and the workers that *)
(* read it, download what it lacks and store every page.                   *)
(*                                                                         *)
(*   cache    MarketDataCache in src/connector/persistent_cache.rs: a      *)
(*            table of buckets (one blob for TRADE_BUCKET_MS of trades)    *)
(*            and one blob of coverage per dataset                         *)
(*   worker   fetch_trades_batched in src/connector/fetcher.rs             *)
(*                                                                         *)
(* A write transaction of the database excludes every other one and is     *)
(* seen whole or not at all, so store, invalidation and clearing are one   *)
(* step each; a read takes two read transactions, hence two steps.  The    *)
(* coverage is a list of merged half-open intervals, here the set of       *)
(* moments they hold.  Every trade has an id.                              *)
(*                                                                         *)
(* What goes wrong around it: a worker is dropped or times out between any *)
(* two pages, the user clears the cache, the program ends and returns, a   *)
(* blob's checksum no longer fits.                                         *)
(***************************************************************************)
EXTENDS Integers, FiniteSets

CONSTANTS
  LastMoment,     \* the time line is 0..LastMoment
  BucketLength,   \* TRADE_BUCKET_MS
  Trades,         \* what the exchange has: records [id, time]
  PageLimit,      \* trades in one REST page
  Bridge,         \* TRADE_GAP_COALESCE_BRIDGE_MS
  Epsilon,        \* NO_PROGRESS_REMAINING_EPSILON_MS
  MaxNoProgress,  \* TRADE_NO_PROGRESS_MAX_CONSECUTIVE
  Workers,
  Ranges,         \* the ranges charts ask for: pairs <<from, to>>
  MaxFaults       \* bound on the faults of one behaviour, clears included

Moments == 0..LastMoment

ASSUME CacheAssumption ==
  /\ LastMoment \in Nat
  /\ BucketLength \in Nat \ {0}
  /\ Trades \subseteq [id : Nat, time : Moments]
  /\ IsFiniteSet(Trades)
  /\ \A t, u \in Trades : t.time < u.time => t.id < u.id
  /\ \A t, u \in Trades : t.id = u.id => t = u
  /\ PageLimit \in Nat \ {0}
  /\ Bridge \in Nat
  /\ Epsilon \in Nat
  /\ MaxNoProgress \in Nat
  /\ Ranges \subseteq {r \in Moments \X Moments : r[1] <= r[2]}
  /\ MaxFaults \in Nat

VARIABLES
  coverage,   \* moments the coverage blob claims; an absent blob claims none
  present,    \* keys of the buckets that have a blob
  contents,   \* the trades of a bucket's blob
  damaged,    \* blobs whose checksum does not fit: buckets, or Coverage
  workers,
  unbacked,   \* trades that coverage claims without having them (history)
  faults      \* how many faults there have been (bound)

tableVars == <<coverage, present, contents, damaged, unbacked>>
vars == <<tableVars, workers, faults>>

(* bucket_for, add_bucket_starts.                                          *)
BucketFor(m) == m - (m % BucketLength)

BucketStarts(S) == {BucketFor(m) : m \in S}

Buckets == BucketStarts(Moments)

(* The key of the coverage blob, next to the keys of the buckets.          *)
Coverage == LastMoment + 1

(* A blob that decode_checked and the checks after it accept.              *)
Readable(b) == b \in present /\ b \notin damaged

Claimed == IF Coverage \in damaged THEN {} ELSE coverage

Held == UNION {contents[b] : b \in {c \in Buckets : Readable(c)}}

(* A worker: the range it was asked for, what the cache answered (known,   *)
(* cached), the coalesced gaps left, where it stands in the first of them, *)
(* and what it has sent.  missed and torn are history.                     *)
Phases == {"idle", "asking", "invalidating", "fetching", "done"}

Idle == [phase |-> "idle", from |-> 0, to |-> 0, known |-> {}, bad |-> {},
         cached |-> {}, fetched |-> {}, todo |-> {}, at |-> 0, last |-> -1,
         stuck |-> 0, missed |-> {}, torn |-> FALSE]

Init ==
  /\ coverage = {}
  /\ present = {}
  /\ contents = [b \in Buckets |-> {}]
  /\ damaged = {}
  /\ workers = [w \in Workers |-> Idle]
  /\ unbacked = {}
  /\ faults = 0

-----------------------------------------------------------------------------
(* Write transactions *)

(* Mutant: only buckets that receive a trade are written.                  *)
MutantTouched(S, page) == BucketStarts({t.time : t \in page})

(* records_by_bucket: the buckets of the range, empty ones included.       *)
Touched(S, page) == BucketStarts(S) \cup BucketStarts({t.time : t \in page})

(* An empty page is no durable evidence that a range is empty.             *)
WorthStoring(page) == page # {}

(* store_records: every bucket of the range is rewritten with what could   *)
(* be read of it and the new trades, and the range joins the coverage.     *)
(* leftOut: trades of the range that the caller did not pass on.           *)
Store(S, page, leftOut) ==
  LET touched == Touched(S, page)
      lost    == {t \in Trades : BucketFor(t.time) \in touched \cap damaged}
  IN  IF WorthStoring(page)
      THEN /\ coverage' = Claimed \cup S
           /\ present' = present \cup touched
           /\ contents' = [b \in Buckets |->
                IF b \in touched
                  THEN (IF Readable(b) THEN contents[b] ELSE {})
                         \cup {t \in page : BucketFor(t.time) = b}
                  ELSE contents[b]]
           /\ damaged' = damaged \ (touched \cup {Coverage})
           /\ unbacked' = (unbacked \cup lost \cup leftOut) \ (page \cup Held)
      ELSE UNCHANGED tableVars

Fault ==
  /\ faults < MaxFaults
  /\ faults' = faults + 1

(* A failed transaction leaves the tables as they were; it is only logged. *)
WriteFails == Fault /\ UNCHANGED tableVars

(* Mutant: only the bucket is removed.                                     *)
MutantDrop(keys) ==
  /\ coverage' = coverage
  /\ unbacked' = unbacked
  /\ present' = present \ keys
  /\ contents' = [b \in Buckets |-> IF b \in keys THEN {} ELSE contents[b]]
  /\ damaged' = damaged \ (keys \cup {Coverage})

(* Remove these buckets and the whole coverage of the dataset.             *)
Drop(keys) ==
  /\ coverage' = {}
  /\ unbacked' = {}
  /\ present' = present \ keys
  /\ contents' = [b \in Buckets |-> IF b \in keys THEN {} ELSE contents[b]]
  /\ damaged' = damaged \ (keys \cup {Coverage})

(* Workers whose two reads now stand on either side of a removal.          *)
TornBy(ws) ==
  [w \in Workers |-> IF ws[w].phase = "asking" THEN [ws[w] EXCEPT !.torn = TRUE]
                     ELSE ws[w]]

(* The user clears the cache.                                              *)
ClearAll ==
  /\ Fault
  /\ Drop(Buckets)
  /\ workers' = TornBy(workers)

(* A blob goes bad on the disk.                                            *)
Damage(blob) ==
  /\ Fault
  /\ blob \in present \ damaged \/ (blob = Coverage /\ Claimed # {})
  /\ damaged' = damaged \cup {blob}
  /\ UNCHANGED <<coverage, present, contents, unbacked, workers>>

(* The program ends and is started again.  A database that cannot be       *)
(* opened or has another schema is set aside and replaced by an empty one. *)
Restart ==
  /\ workers' = [w \in Workers |-> Idle]
  /\ \/ UNCHANGED <<tableVars, faults>>
     \/ Fault /\ Drop(Buckets)

-----------------------------------------------------------------------------
(* Reading *)

Asked(me) == me.from..me.to

Gaps(me) == Asked(me) \ me.known

(* Mutant: the exclusive end of a gap is taken for a part of it.           *)
MutantCoalesced(gaps) == gaps \cup {m + 1 : m \in gaps}

(* coalesce_trade_fetch_gaps: a hole of at most Bridge between two gaps is *)
(* downloaded with them.                                                   *)
Coalesced(gaps) ==
  gaps \cup {m \in Moments :
    \E a, b \in gaps : a < m /\ m < b /\ b - a - 1 <= Bridge}

First(S) == CHOOSE m \in S : \A n \in S : m <= n

(* The last moment of the gap that starts at m.                            *)
GapEnd(todo, m) ==
  CHOOSE n \in todo : m..n \subseteq todo /\ n + 1 \notin todo /\ n >= m

(* The loop over the gaps goes on with todo, or the worker is done.        *)
NextGap(me, todo) ==
  IF todo = {}
    THEN [me EXCEPT !.phase = "done", !.todo = {}, !.at = me.to + 1,
                    !.last = -1, !.stuck = 0]
    ELSE [me EXCEPT !.phase = "fetching", !.todo = todo, !.at = First(todo),
                    !.last = -1, !.stuck = 0]

(* The answer of read_trades: these moments are covered, with these trades. *)
Answered(me, known, cached) ==
  LET told == [me EXCEPT !.known = known, !.cached = cached, !.bad = {},
                 !.missed = {t \in unbacked : t.time \in known} \ cached]
  IN  NextGap(told, Coalesced(Gaps(told)))

Become(w, me) == workers' = [workers EXCEPT ![w] = me]

(* The first transaction: the coverage blob.                               *)
ReadCoverage(w, from, to) ==
  LET me    == [Idle EXCEPT !.from = from, !.to = to]
      known == Claimed \cap (from..to)
  IN  /\ workers[w].phase = "idle"
      /\ \/ /\ Coverage \in damaged
            /\ Become(w, [me EXCEPT !.phase = "invalidating"])
         \/ /\ Coverage \notin damaged
            /\ known = {}
            /\ Become(w, Answered(me, {}, {}))
         \/ /\ known # {}
            /\ Become(w, [me EXCEPT !.phase = "asking", !.known = known])
      /\ UNCHANGED <<tableVars, faults>>

(* Mutant: the bucket of the first covered moment only.                    *)
MutantRequired(known) == {BucketFor(First(known))}

Required(known) == BucketStarts(known)

(* The second: the buckets that coverage requires.  The first one that is  *)
(* missing or unreadable turns the answer into a miss.                     *)
ReadBuckets(w) ==
  LET me       == workers[w]
      required == Required(me.known)
      bad      == {b \in required : ~Readable(b)}
      cached   == {t \in UNION {contents[b] : b \in required} :
                     t.time \in Asked(me)}
  IN  /\ me.phase = "asking"
      /\ IF bad = {}
           THEN Become(w, Answered(me, me.known, cached))
           ELSE Become(w, [me EXCEPT !.phase = "invalidating",
                                     !.bad = {First(bad)}])
      /\ UNCHANGED <<tableVars, faults>>

(* invalidate, and the miss that follows whether it succeeds or not.       *)
Invalidate(w) ==
  LET me == workers[w]
      missed == [workers EXCEPT ![w] = Answered(me, {}, {})]
  IN  /\ me.phase = "invalidating"
      /\ \/ Drop(me.bad) /\ workers' = TornBy(missed) /\ UNCHANGED faults
         \/ WriteFails /\ workers' = missed

-----------------------------------------------------------------------------
(* Downloading *)

(* The exchange answers with the trades from a moment on, oldest first, up *)
(* to the limit; a later page begins with the moment the last one ended in. *)
PageFrom(m) ==
  {t \in Trades : /\ t.time >= m
                  /\ Cardinality({u \in Trades : u.time >= m /\ u.id < t.id})
                       < PageLimit}

Last(S) == CHOOSE m \in S : \A n \in S : n <= m

LastTime(page) == Last({t.time : t \in page})

(* The last moment that the page answers for within the gap.               *)
Target(me) == GapEnd(me.todo, First(me.todo))

Latest(me) == LastTime(PageFrom(me.at))

Stored(me) == me.at..(IF Latest(me) < Target(me) THEN Latest(me) ELSE Target(me))

(* filter_new_fetched_trades.                                              *)
Batch(me) ==
  {t \in PageFrom(me.at) : t.time <= Target(me) /\ t.id > me.last}

(* What is stored as covered but not in the batch: trades of the page's    *)
(* last moment beyond the limit, and the overlap with the page before.     *)
Cut(me) ==
  {t \in Trades : t.time = Latest(me) /\ t.time <= Target(me)} \ PageFrom(me.at)

Overlap(me) == {t \in PageFrom(me.at) : t.time = me.at /\ t.id <= me.last}

LastId(me, batch) ==
  IF batch = {} THEN me.last ELSE Last({t.id : t \in batch})

(* The batch is sent, but for trades of moments the cache has answered.    *)
Took(me) ==
  LET sent == {t \in Batch(me) : t.time \in Gaps(me)}
  IN  [me EXCEPT !.last = LastId(me, Batch(me)),
                 !.fetched = @ \cup sent,
                 !.missed = (@ \cup (Cut(me) \ me.cached)) \ sent]

(* Mutant: the tail to retry begins after the moment that was asked for.   *)
MutantEnd(me, frontier) ==
  [me EXCEPT !.phase = "done", !.at = frontier + 1, !.todo = {}, !.last = -1,
             !.stuck = 0]

(* The outcome reports the tail from frontier on as not covered.           *)
End(me, frontier) ==
  [me EXCEPT !.phase = "done", !.at = frontier, !.todo = {}, !.last = -1,
             !.stuck = 0]

(* A page that ends where it began: once too often, or too near the end,   *)
(* and the rest is left for a retry; else the moment is stepped over.      *)
NoProgress(me, target) ==
  IF target - me.at <= Epsilon \/ me.stuck + 1 >= MaxNoProgress
       \/ me.at + 1 >= target
    THEN End(me, me.at + 1)
    ELSE [me EXCEPT !.at = me.at + 1, !.stuck = @ + 1]

(* Mutant: a page without progress is just tried again.                    *)
MutantAdvance(me, latest, target) ==
  IF latest = me.at THEN me
  ELSE IF latest >= target THEN NextGap(me, me.todo \ (First(me.todo)..target))
  ELSE [me EXCEPT !.at = latest, !.stuck = 0]

Advance(me, latest, target) ==
  IF latest = me.at THEN NoProgress(me, target)
  ELSE IF latest >= target THEN NextGap(me, me.todo \ (First(me.todo)..target))
  ELSE [me EXCEPT !.at = latest, !.stuck = 0]

(* One turn of the worker's loop: request, answer, store, send, advance.   *)
Page(w) ==
  LET me == workers[w]
  IN  /\ me.phase = "fetching"
      /\ PageFrom(me.at) # {}
      /\ \/ Store(Stored(me), Batch(me), Cut(me) \cup Overlap(me)) /\ UNCHANGED faults
         \/ WriteFails
      /\ Become(w, Advance(Took(me), Latest(me), Target(me)))

(* The exchange has nothing from here on: the tail is left for later.      *)
EmptyPage(w) ==
  LET me == workers[w]
  IN  /\ me.phase = "fetching"
      /\ PageFrom(me.at) = {}
      /\ Become(w, End(me, me.at))
      /\ UNCHANGED <<tableVars, faults>>

(* interrupted_trade_fetch, after a request or the worker timed out: with  *)
(* progress the tail is left for a retry, without it the fetch has failed. *)
Interrupted(w) ==
  LET me == workers[w]
  IN  /\ me.phase = "fetching"
      /\ Become(w, IF me.at > me.from THEN End(me, me.at) ELSE Idle)
      /\ UNCHANGED <<tableVars, faults>>

(* A failed request, or the chart drops the worker's handle.               *)
Stop(w) ==
  /\ workers[w].phase # "idle"
  /\ Become(w, Idle)
  /\ UNCHANGED <<tableVars, faults>>

-----------------------------------------------------------------------------
WorkerStep(w) ==
  ReadBuckets(w) \/ Invalidate(w) \/ Page(w) \/ EmptyPage(w) \/ Interrupted(w)

Next ==
  \/ \E w \in Workers : \/ \E r \in Ranges : ReadCoverage(w, r[1], r[2])
                        \/ WorkerStep(w)
                        \/ Stop(w)
  \/ ClearAll
  \/ \E blob \in Buckets \cup {Coverage} : Damage(blob)
  \/ Restart

Spec == Init /\ [][Next]_vars

-----------------------------------------------------------------------------
(* Properties *)

WorkerRecord ==
  [phase : Phases, from : Moments, to : Moments, known : SUBSET Moments,
   bad : SUBSET Buckets, cached : SUBSET Trades, fetched : SUBSET Trades,
   todo : SUBSET Moments, at : 0..(LastMoment + 1), last : Nat \cup {-1},
   stuck : Nat, missed : SUBSET Trades, torn : BOOLEAN]

TypeOK ==
  /\ coverage \in SUBSET Moments
  /\ present \in SUBSET Buckets
  /\ contents \in [Buckets -> SUBSET Trades]
  /\ damaged \in SUBSET (Buckets \cup {Coverage})
  /\ workers \in [Workers -> WorkerRecord]
  /\ unbacked \in SUBSET Trades
  /\ faults \in Nat

(* A bucket that coverage points to has a blob, so that a covered range    *)
(* without trades is told from one that was never downloaded.  It holds    *)
(* through crashes and any order of stores, invalidations and clears.      *)
CoveredHasBucket == BucketStarts(Claimed) \subseteq present

(* The cache claims a trade it does not have in three cases only: the page *)
(* that covered its moment was cut inside that moment; it was filtered out *)
(* as overlap with the page before, which failed to be stored or has been  *)
(* cleared since; its bucket went bad and was written again unread.        *)
CoveredIsStored ==
  \A t \in Trades : t.time \in Claimed /\ BucketFor(t.time) \notin damaged
                      => t \in contents[BucketFor(t.time)] \cup unbacked

(* What a worker says it covered, it has sent: up to the tail it reports,  *)
(* each trade of its range came from the cache or from a page.  The trades *)
(* missing at the time are those the cache was missing or a page cut off.  *)
OutcomeIsHonest ==
  \A w \in Workers : LET me == workers[w] IN
    me.phase = "done" /\ ~me.torn =>
      {t \in Trades : me.from <= t.time /\ t.time < me.at /\ t.time <= me.to}
        \subseteq me.cached \cup me.fetched \cup me.missed

(* A worker never asks for a page it already had: it moves on within its   *)
(* gap or to a later one, whatever the exchange answers, so it ends.  The  *)
(* loop's own guard against repeated bounds has nothing left to catch.     *)
NeverAsksTwice ==
  [][\A w \in Workers :
       workers[w].phase = "fetching" /\ workers'[w].phase = "fetching"
         /\ workers'[w] # workers[w]
         => workers'[w].at > workers[w].at]_vars

(* Workers as the clients of the contract.                                 *)
Stage == [w \in Workers |->
            CASE workers[w].phase = "idle" -> "away"
              [] workers[w].phase \in {"asking", "invalidating"} -> "asking"
              [] OTHER -> "answered"]

KnownTo == [w \in Workers |-> workers[w].known]

RepliedTo == [w \in Workers |-> workers[w].cached]

Abstract == INSTANCE CacheContract WITH
  Records <- Trades, Clients <- Workers, known <- Claimed, held <- Held,
  stage <- Stage, moments <- KnownTo, records <- RepliedTo

(* The two tables implement the contract, for every interleaving of        *)
(* workers, removals, damage and restarts.                                 *)
Contract == Abstract!Contract
=============================================================================
