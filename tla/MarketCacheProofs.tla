-------------------------- MODULE MarketCacheProofs --------------------------
(***************************************************************************)
(* The cache for any trades, any page and bucket size, any number of       *)
(* workers and any number of faults.                                       *)
(***************************************************************************)
EXTENDS MarketCache, TradeRangesProofs, FiniteSetTheorems, TLAPS

-----------------------------------------------------------------------------
(* Sets of moments *)

LEMMA MomentsFinite ==
  ASSUME NEW S \in SUBSET Moments
  PROVE  IsFiniteSet(S) /\ S \subseteq Int
<1>1. LastMoment \in Int /\ 0 \in Int
  BY CacheAssumption
<1>2. IsFiniteSet(Moments) /\ Moments \subseteq Int
  BY <1>1, FS_Interval DEF Moments
<1>3. QED
  BY <1>2, FS_Subset

LEMMA FirstIsLeast ==
  ASSUME NEW S \in SUBSET Moments, S # {}
  PROVE  First(S) \in S /\ \A n \in S : First(S) <= n
<1>1. \E m \in S : \A n \in S : m <= n
  BY LeastExists, MomentsFinite
<1>2. QED
  BY <1>1 DEF First

LEMMA LastIsGreatest ==
  ASSUME NEW S, S \subseteq Int, S # {}, IsFiniteSet(S)
  PROVE  Last(S) \in S /\ \A n \in S : n <= Last(S)
<1>1. \E m \in S : \A n \in S : n <= m
  BY GreatestExists
<1>2. QED
  BY <1>1 DEF Last

(* The run of consecutive moments that starts at m has an end.             *)
LEMMA GapHasEnd ==
  ASSUME NEW S \in SUBSET Moments, NEW m \in S
  PROVE  /\ GapEnd(S, m) \in S
         /\ m..GapEnd(S, m) \subseteq S
         /\ m <= GapEnd(S, m)
<1> DEFINE Ends == {n \in S : m <= n /\ n + 1 \notin S}
<1>1. Ends # {}
  <2>1. PICK n \in S : \A k \in S : k <= n
    BY GreatestExists, MomentsFinite
  <2>2. n \in Int /\ m \in Int /\ n + 1 > n
    BY MomentsFinite
  <2>3. QED
    BY <2>1, <2>2
<1>2. Ends \in SUBSET Moments
  OBVIOUS
<1>3. PICK e \in Ends : \A n \in Ends : e <= n
  <2> HIDE DEF Ends
  <2>1. QED
    BY <1>1, <1>2, FirstIsLeast
<1>4. m..e \subseteq S
  <2>1. SUFFICES ASSUME NEW k \in m..e, k \notin S
                 PROVE  FALSE
    OBVIOUS
  <2> DEFINE Below == {n \in S : m <= n /\ n < k}
  <2>2. m \in Below
    BY <2>1, MomentsFinite
  <2>3. PICK l \in Below : \A n \in Below : n <= l
    <3>1. Below \in SUBSET Moments
      OBVIOUS
    <3> HIDE DEF Below
    <3>2. QED
      BY <2>2, <3>1, GreatestExists, MomentsFinite
  <2>4. l + 1 \notin S
    BY <2>1, <2>3, MomentsFinite
  <2>5. l \in Ends /\ l < e
    BY <2>1, <2>3, <2>4, MomentsFinite
  <2>6. QED
    BY <2>5, <1>3, MomentsFinite
<1>5. \E n \in S : m..n \subseteq S /\ n + 1 \notin S /\ n >= m
  BY <1>3, <1>4, MomentsFinite
<1>6. QED
  BY <1>5, MomentsFinite DEF GapEnd

-----------------------------------------------------------------------------
(* The inductive invariant *)

(* What has been stored of the moments S.                                  *)
Backed(S) ==
  /\ BucketStarts(S) \subseteq present
  /\ \A t \in Trades : t.time \in S /\ BucketFor(t.time) \notin damaged
                         => t \in contents[BucketFor(t.time)] \cup unbacked

(* A trade is in the bucket of its time.                                   *)
InPlace ==
  \A b \in Buckets : \A t \in contents[b] : BucketFor(t.time) = b

Unsent(me) ==
  {t \in Trades : t.time \in Asked(me)} \ (me.cached \cup me.fetched \cup me.missed)

(* Before the answer, a worker has sent nothing.                           *)
BeforeAnswer(me) ==
  /\ me.phase = "idle" => me = Idle
  /\ me.phase \in {"asking", "invalidating"} =>
       me.cached = {} /\ me.fetched = {} /\ me.missed = {}
         /\ me.known \subseteq Asked(me)

(* While it downloads, it stands in the first gap of those left, and has   *)
(* seen no trade of a later time.                                          *)
InFirstGap(me) ==
  me.phase = "fetching" =>
    /\ me.todo # {}
    /\ First(me.todo) <= me.at
    /\ me.at <= GapEnd(me.todo, First(me.todo))
    /\ \A t \in Trades : t.id <= me.last => t.time <= me.at

(* Whatever it has not sent is ahead of it.                                *)
UnsentIsAhead(me) ==
  /\ me.phase = "fetching" /\ ~me.torn =>
       \A t \in Unsent(me) : /\ t.time \in Gaps(me) \cap me.todo
                             /\ me.at <= t.time
                             /\ me.last < t.id
  /\ me.phase = "done" /\ ~me.torn =>
       \A t \in Unsent(me) : me.at <= t.time

WorkerInv(me) == BeforeAnswer(me) /\ InFirstGap(me) /\ UnsentIsAhead(me)

(* What a worker was told is covered is still backed when it reads the     *)
(* buckets, unless a removal came between its two reads.                   *)
ToldIsBacked(w) ==
  workers[w].phase = "asking" /\ ~workers[w].torn => Backed(workers[w].known)

CacheInv ==
  /\ TypeOK
  /\ InPlace
  /\ Backed(Claimed)
  /\ \A w \in Workers : WorkerInv(workers[w]) /\ ToldIsBacked(w)

-----------------------------------------------------------------------------
(* Buckets and pages *)

LEMMA BucketFacts ==
  /\ \A m \in Moments : BucketFor(m) \in Buckets
  /\ \A S \in SUBSET Moments : BucketStarts(S) \subseteq Buckets
  /\ Coverage \notin Buckets
<1>1. \A m \in Moments : BucketFor(m) # Coverage
  <2>1. SUFFICES ASSUME NEW m \in Moments PROVE BucketFor(m) # Coverage
    OBVIOUS
  <2>2. m \in Int /\ m <= LastMoment /\ LastMoment \in Int /\ BucketLength \in Int
          /\ BucketLength > 0
    BY CacheAssumption DEF Moments
  <2>3. m % BucketLength \in Int /\ 0 <= m % BucketLength
    BY <2>2
  <2>4. QED
    BY <2>2, <2>3 DEF BucketFor, Coverage
<1>2. QED
  BY <1>1 DEF Buckets, BucketStarts

LEMMA TradeFacts ==
  /\ IsFiniteSet(Trades)
  /\ \A t \in Trades : t.id \in Nat /\ t.time \in Moments /\ t.time \in Int
  /\ \A t, u \in Trades : t.id <= u.id => t.time <= u.time
<1>1. \A t \in Trades : t.id \in Nat /\ t.time \in Moments
  BY CacheAssumption
<1>2. \A t \in Trades : t.time \in Int
  BY <1>1 DEF Moments
<1>3. QED
  BY <1>1, <1>2, CacheAssumption

(* A page holds the oldest trades from the moment it is asked for.         *)
LEMMA PageFacts ==
  ASSUME NEW m \in Moments, PageFrom(m) # {}
  PROVE  /\ PageFrom(m) \subseteq Trades
         /\ LastTime(PageFrom(m)) \in Moments
         /\ m <= LastTime(PageFrom(m))
         /\ \A t \in PageFrom(m) : m <= t.time /\ t.time <= LastTime(PageFrom(m))
         /\ \A t \in Trades \ PageFrom(m) :
              m <= t.time => /\ LastTime(PageFrom(m)) <= t.time
                             /\ \A u \in PageFrom(m) : u.id < t.id
<1> DEFINE page == PageFrom(m)
           times == {t.time : t \in page}
<1>1. page \subseteq Trades /\ \A t \in page : m <= t.time
  BY DEF PageFrom
<1>2. times \in SUBSET Moments /\ times # {}
  BY <1>1, TradeFacts
<1>3. LastTime(page) \in times /\ \A n \in times : n <= LastTime(page)
  <2> HIDE DEF page
  <2>1. IsFiniteSet(times) /\ times \subseteq Int
    <3> HIDE DEF times
    <3>1. QED
      BY <1>2, MomentsFinite
  <2>2. Last(times) \in times /\ \A n \in times : n <= Last(times)
    <3> HIDE DEF times
    <3>1. QED
      BY <1>2, <2>1, LastIsGreatest
  <2>3. QED
    BY <2>2 DEF LastTime
<1>4. LastTime(page) \in Moments /\ \A t \in page : t.time <= LastTime(page)
  BY <1>2, <1>3
<1>5. m <= LastTime(page)
  BY <1>1, <1>3
<1>6. ASSUME NEW t \in Trades \ page, m <= t.time, NEW u \in page
      PROVE  u.id < t.id
  <2> DEFINE Before(x) == {v \in Trades : v.time >= m /\ v.id < x.id}
  <2>1. SUFFICES ASSUME t.id <= u.id PROVE FALSE
    BY <1>1, TradeFacts
  <2>2. Before(t) \subseteq Before(u)
    BY <2>1, <1>1, TradeFacts
  <2>3. IsFiniteSet(Before(u))
    BY TradeFacts, FS_Subset
  <2>4. Cardinality(Before(t)) <= Cardinality(Before(u))
    <3> HIDE DEF Before
    <3>1. QED
      BY <2>2, <2>3, FS_Subset
  <2>5. Cardinality(Before(u)) < PageLimit
    BY DEF PageFrom
  <2>6. Cardinality(Before(t)) \in Int /\ Cardinality(Before(u)) \in Int
          /\ PageLimit \in Int
    <3>1. IsFiniteSet(Before(t))
      BY TradeFacts, FS_Subset
    <3> HIDE DEF Before
    <3>2. QED
      BY <3>1, <2>3, FS_CardinalityType, CacheAssumption
  <2>7. Cardinality(Before(t)) < PageLimit
    <3> HIDE DEF Before
    <3>1. QED
      BY <2>4, <2>5, <2>6
  <2>8. t \in page
    BY <2>7, <1>6, TradeFacts DEF PageFrom, Moments
  <2>9. QED
    BY <2>8, <1>6
<1>7. ASSUME NEW t \in Trades \ page, m <= t.time
      PROVE  LastTime(page) <= t.time
  <2>1. PICK u \in page : u.time = LastTime(page)
    BY <1>3
  <2>2. u.id < t.id
    BY <1>6, <1>7
  <2>3. QED
    BY <2>1, <2>2, <1>1, TradeFacts
<1>8. QED
  BY <1>1, <1>4, <1>5, <1>6, <1>7

(* The id a worker remembers of a batch is its greatest.                   *)
LEMMA LastIdFacts ==
  ASSUME NEW me, NEW batch \in SUBSET Trades, me.last \in Nat \cup {-1}
  PROVE  /\ LastId(me, batch) \in Nat \cup {-1}
         /\ batch = {} => LastId(me, batch) = me.last
         /\ batch # {} => \E t \in batch : LastId(me, batch) = t.id
         /\ \A t \in batch : t.id <= LastId(me, batch)
<1>1. CASE batch = {}
  BY <1>1 DEF LastId
<1>2. CASE batch # {}
  <2> DEFINE ids == {t.id : t \in batch}
             f == [t \in batch |-> t.id]
  <2>1. IsFiniteSet(batch)
    BY TradeFacts, FS_Subset
  <2>2. f \in Surjection(batch, ids)
    BY DEF Surjection
  <2>3. IsFiniteSet(ids)
    BY <2>1, <2>2, FS_Surjection
  <2>4. ids \subseteq Nat /\ ids # {}
    BY <1>2, TradeFacts
  <2>5. Last(ids) \in ids /\ \A n \in ids : n <= Last(ids)
    <3> HIDE DEF ids
    <3>1. ids \subseteq Int
      BY <2>4
    <3>2. QED
      BY <3>1, <2>3, <2>4, LastIsGreatest
  <2>6. LastId(me, batch) = Last(ids)
    BY <1>2 DEF LastId
  <2>7. QED
    BY <1>2, <2>4, <2>5, <2>6
<1>3. QED
  BY <1>1, <1>2

-----------------------------------------------------------------------------
(* What a worker makes of an answer or a page *)

LEMMA IdleIsWorker == Idle \in WorkerRecord /\ WorkerInv(Idle)
<1>1. 0 \in Moments
  BY CacheAssumption DEF Moments
<1>2. Idle \in WorkerRecord
  BY <1>1, CacheAssumption DEF Idle, WorkerRecord, Phases
<1>3. WorkerInv(Idle)
  BY DEF Idle, WorkerInv, BeforeAnswer, InFirstGap, UnsentIsAhead
<1>4. QED
  BY <1>2, <1>3

(* A worker that moves is a worker.                                        *)
LEMMA MovedIsWorker ==
  ASSUME NEW me \in WorkerRecord, NEW phase \in Phases, NEW todo \in SUBSET Moments,
         NEW at \in 0..(LastMoment + 1), NEW last \in Nat \cup {-1},
         NEW stuck \in Nat
  PROVE  [me EXCEPT !.phase = phase, !.todo = todo, !.at = at, !.last = last,
                    !.stuck = stuck] \in WorkerRecord
<1> DEFINE moments == SUBSET Moments
           trades == SUBSET Trades
           buckets == SUBSET Buckets
           places == 0..(LastMoment + 1)
           ids == Nat \cup {-1}
<1>1. WorkerRecord =
        [phase : Phases, from : Moments, to : Moments, known : moments,
         bad : buckets, cached : trades, fetched : trades, todo : moments,
         at : places, last : ids, stuck : Nat, missed : trades, torn : BOOLEAN]
  BY DEF WorkerRecord
<1>2. todo \in moments /\ at \in places /\ last \in ids
  OBVIOUS
<1> HIDE DEF moments, trades, buckets, places, ids
<1>3. QED
  BY <1>1, <1>2

(* On to the first gap of todo, when nothing outside todo is left unsent.  *)
LEMMA NextGapFacts ==
  ASSUME NEW me \in WorkerRecord, NEW todo \in SUBSET Moments
  PROVE  LET next == NextGap(me, todo) IN
         /\ next \in WorkerRecord
         /\ next.phase \in {"fetching", "done"}
         /\ next.known = me.known /\ next.cached = me.cached
         /\ next.phase = "fetching" => next.at \in todo
         /\ (me.torn \/ \A t \in Unsent(me) : t.time \in Gaps(me) \cap todo)
              => WorkerInv(next)
<1> DEFINE next == NextGap(me, todo)
<1>1. CASE todo = {}
  <2>1. next = [me EXCEPT !.phase = "done", !.todo = {}, !.at = me.to + 1,
                          !.last = -1, !.stuck = 0]
    BY <1>1 DEF NextGap
  <2>2. me.to + 1 \in 0..(LastMoment + 1)
    BY CacheAssumption DEF WorkerRecord, Moments
  <2>3. next \in WorkerRecord
    <3>1. "done" \in Phases /\ -1 \in Nat \cup {-1} /\ 0 \in Nat
            /\ {} \in SUBSET Moments
      BY DEF Phases
    <3>2. [me EXCEPT !.phase = "done", !.todo = {}, !.at = me.to + 1,
                     !.last = -1, !.stuck = 0] \in WorkerRecord
      BY <3>1, <2>2, MovedIsWorker
    <3>3. QED
      BY <2>1, <3>2
  <2>4. /\ next.phase = "done" /\ next.torn = me.torn /\ next.known = me.known
        /\ next.cached = me.cached /\ Unsent(next) = Unsent(me)
    <3>1. /\ next.phase = "done" /\ next.torn = me.torn /\ next.known = me.known
          /\ next.cached = me.cached /\ next.fetched = me.fetched
          /\ next.missed = me.missed /\ next.from = me.from /\ next.to = me.to
      BY <2>1 DEF WorkerRecord
    <3>2. QED
      BY <3>1 DEF Unsent, Asked
  <2>5. (me.torn \/ \A t \in Unsent(me) : t.time \in Gaps(me) \cap todo)
           => WorkerInv(next)
    BY <2>4, <1>1 DEF WorkerInv, BeforeAnswer, InFirstGap, UnsentIsAhead
  <2>6. QED
    BY <2>3, <2>4, <2>5
<1>2. CASE todo # {}
  <2>1. next = [me EXCEPT !.phase = "fetching", !.todo = todo, !.at = First(todo),
                          !.last = -1, !.stuck = 0]
    BY <1>2 DEF NextGap
  <2>2. /\ First(todo) \in todo /\ First(todo) \in Moments
        /\ \A n \in todo : First(todo) <= n
    BY <1>2, FirstIsLeast
  <2>3. First(todo) \in 0..(LastMoment + 1) /\ First(todo) \in Int
    BY <2>2, CacheAssumption DEF Moments
  <2>4. next \in WorkerRecord
    <3>1. "fetching" \in Phases /\ -1 \in Nat \cup {-1} /\ 0 \in Nat
            /\ {} \in SUBSET Moments
      BY DEF Phases
    <3>2. [me EXCEPT !.phase = "fetching", !.todo = todo, !.at = First(todo),
                     !.last = -1, !.stuck = 0] \in WorkerRecord
      BY <3>1, <2>3, MovedIsWorker
    <3>3. QED
      BY <2>1, <3>2
  <2>5. /\ next.phase = "fetching" /\ next.torn = me.torn /\ next.todo = todo
        /\ next.at = First(todo) /\ next.last = -1
        /\ next.known = me.known /\ next.cached = me.cached
        /\ Unsent(next) = Unsent(me) /\ Gaps(next) = Gaps(me)
    <3>1. /\ next.phase = "fetching" /\ next.torn = me.torn /\ next.todo = todo
          /\ next.at = First(todo) /\ next.last = -1
          /\ next.known = me.known /\ next.cached = me.cached
          /\ next.fetched = me.fetched /\ next.missed = me.missed
          /\ next.from = me.from /\ next.to = me.to
      BY <2>1 DEF WorkerRecord
    <3>2. QED
      BY <3>1 DEF Unsent, Asked, Gaps
  <2>6. First(todo) <= GapEnd(todo, First(todo))
    BY <2>2, GapHasEnd
  <2>7. InFirstGap(next)
    <3>1. \A t \in Trades : ~(t.id <= -1)
      BY TradeFacts
    <3>2. QED
      BY <1>2, <2>3, <2>5, <2>6, <3>1 DEF InFirstGap
  <2>8. (me.torn \/ \A t \in Unsent(me) : t.time \in Gaps(me) \cap todo)
           => UnsentIsAhead(next)
    <3>1. Unsent(me) \subseteq Trades
      BY DEF Unsent
    <3>2. \A t \in Trades : -1 < t.id
      BY TradeFacts
    <3>3. QED
      BY <2>2, <2>5, <3>1, <3>2 DEF UnsentIsAhead
  <2>9. BeforeAnswer(next)
    BY <2>5 DEF BeforeAnswer
  <2>10. QED
    BY <2>2, <2>4, <2>5, <2>7, <2>8, <2>9 DEF WorkerInv
<1>3. QED
  BY <1>1, <1>2

LEMMA CoalescedHasGaps ==
  ASSUME NEW gaps \in SUBSET Moments
  PROVE  gaps \subseteq Coalesced(gaps) /\ Coalesced(gaps) \in SUBSET Moments
BY DEF Coalesced

(* The answer of the cache, when it has or misses each trade it calls known. *)
LEMMA AnsweredFacts ==
  ASSUME TypeOK,
         NEW me \in WorkerRecord, me.fetched = {},
         NEW known \in SUBSET Asked(me), NEW cached \in SUBSET Trades
  PROVE  LET next == Answered(me, known, cached) IN
         /\ next \in WorkerRecord
         /\ next.phase \in {"fetching", "done"}
         /\ next.known = known /\ next.cached = cached
         /\ (me.torn \/ \A t \in Trades :
                          t.time \in known => t \in cached \cup unbacked)
              => WorkerInv(next)
<1> DEFINE told == [me EXCEPT !.known = known, !.cached = cached, !.bad = {},
                      !.missed = {t \in unbacked : t.time \in known} \ cached]
           todo == Coalesced(Gaps(told))
<1>1. Asked(me) \in SUBSET Moments
  <2>1. me.from \in Moments /\ me.to \in Moments
    BY DEF WorkerRecord
  <2>2. QED
    BY <2>1, CacheAssumption DEF Asked, Moments
<1>2. unbacked \in SUBSET Trades
  BY DEF TypeOK
<1>3. told \in WorkerRecord
  BY <1>1, <1>2 DEF WorkerRecord
<1>4. /\ told.known = known /\ told.cached = cached /\ told.torn = me.torn
      /\ told.fetched = {} /\ Asked(told) = Asked(me)
      /\ told.missed = {t \in unbacked : t.time \in known} \ cached
  <2>1. /\ told.known = known /\ told.cached = cached /\ told.torn = me.torn
        /\ told.fetched = {} /\ told.from = me.from /\ told.to = me.to
        /\ told.missed = {t \in unbacked : t.time \in known} \ cached
    BY DEF WorkerRecord
  <2> HIDE DEF told
  <2>2. QED
    BY <2>1 DEF Asked
<1>5. Gaps(told) = Asked(me) \ known /\ Gaps(told) \in SUBSET Moments
  <2> HIDE DEF told
  <2>1. QED
    BY <1>1, <1>4 DEF Gaps
<1>6. Gaps(told) \subseteq todo /\ todo \in SUBSET Moments
  BY <1>5, CoalescedHasGaps
<1>7. ASSUME \A t \in Trades : t.time \in known => t \in cached \cup unbacked
      PROVE  \A t \in Unsent(told) : t.time \in Gaps(told) \cap todo
  <2>1. TAKE t \in Unsent(told)
  <2>2. t \in Trades /\ t.time \in Asked(me) /\ t \notin cached
          /\ t \notin told.missed
    BY <1>4 DEF Unsent
  <2>3. t.time \notin known
    BY <2>2, <1>4, <1>7
  <2>4. t.time \in Gaps(told)
    BY <2>2, <2>3, <1>5
  <2>5. QED
    BY <2>4, <1>6
<1>8. Answered(me, known, cached) = NextGap(told, todo)
  BY DEF Answered
<1>9. QED
  <2> HIDE DEF told, todo
  <2>1. QED
    BY <1>3, <1>4, <1>6, <1>7, <1>8, NextGapFacts

(* The outcome whose tail begins at a moment with everything unsent ahead. *)
LEMMA EndFacts ==
  ASSUME NEW me \in WorkerRecord, NEW frontier \in 0..(LastMoment + 1)
  PROVE  LET next == End(me, frontier) IN
         /\ next \in WorkerRecord
         /\ next.phase = "done"
         /\ next.known = me.known /\ next.cached = me.cached
         /\ (me.torn \/ \A t \in Unsent(me) : frontier <= t.time)
              => WorkerInv(next)
<1> DEFINE next == End(me, frontier)
<1>1. next \in WorkerRecord
  BY DEF WorkerRecord, Phases, End
<1>2. /\ next.phase = "done" /\ next.at = frontier /\ next.torn = me.torn
      /\ next.known = me.known /\ next.cached = me.cached
      /\ Unsent(next) = Unsent(me)
  <2>1. /\ next.phase = "done" /\ next.at = frontier /\ next.torn = me.torn
        /\ next.known = me.known /\ next.cached = me.cached
        /\ next.fetched = me.fetched /\ next.missed = me.missed
        /\ next.from = me.from /\ next.to = me.to
    BY DEF WorkerRecord, End
  <2> HIDE DEF next
  <2>2. QED
    BY <2>1 DEF Unsent, Asked
<1>3. QED
  BY <1>1, <1>2 DEF WorkerInv, BeforeAnswer, InFirstGap, UnsentIsAhead

(* The part of Moments where a downloading worker stands.                  *)
LEMMA WhereItStands ==
  ASSUME NEW me \in WorkerRecord, InFirstGap(me), me.phase = "fetching"
  PROVE  /\ me.at \in Moments /\ Target(me) \in Moments /\ Target(me) \in me.todo
         /\ me.at <= Target(me)
         /\ First(me.todo) \in me.todo
         /\ \A n \in me.todo : First(me.todo) <= n
         /\ First(me.todo) <= Target(me)
         /\ me.todo \subseteq Moments
<1>1. me.todo \in SUBSET Moments /\ me.at \in 0..(LastMoment + 1)
  BY DEF WorkerRecord
<1>2. me.todo # {} /\ First(me.todo) <= me.at /\ me.at <= Target(me)
  BY DEF InFirstGap, Target
<1>3. First(me.todo) \in me.todo /\ \A n \in me.todo : First(me.todo) <= n
  BY <1>1, <1>2, FirstIsLeast
<1>4. Target(me) \in me.todo /\ First(me.todo) <= Target(me)
  BY <1>1, <1>3, GapHasEnd DEF Target
<1>5. me.at \in Moments
  BY <1>1, <1>2, <1>4, CacheAssumption DEF Moments
<1>6. QED
  BY <1>1, <1>2, <1>3, <1>4, <1>5

(* What the page leaves of the moments it answers for: every trade of them *)
(* is in the batch, cut off at the end, or overlap with the page before.   *)
LEMMA PageCovers ==
  ASSUME NEW me \in WorkerRecord, InFirstGap(me), me.phase = "fetching",
         PageFrom(me.at) # {}
  PROVE  /\ Stored(me) \in SUBSET Moments
         /\ Stored(me) = me.at..(IF Latest(me) < Target(me) THEN Latest(me)
                                 ELSE Target(me))
         /\ Batch(me) \subseteq Trades /\ Cut(me) \subseteq Trades
         /\ Overlap(me) \subseteq Trades
         /\ \A t \in Batch(me) : t.time \in Stored(me)
         /\ \A t \in Trades : t.time \in Stored(me)
              => t \in Batch(me) \cup Cut(me) \cup Overlap(me)
<1>1. /\ me.at \in Moments /\ Target(me) \in Moments /\ me.at <= Target(me)
  BY WhereItStands
<1>2. /\ PageFrom(me.at) \subseteq Trades
      /\ Latest(me) \in Moments /\ me.at <= Latest(me)
      /\ \A t \in PageFrom(me.at) : me.at <= t.time /\ t.time <= Latest(me)
      /\ \A t \in Trades \ PageFrom(me.at) : me.at <= t.time => Latest(me) <= t.time
  BY <1>1, PageFacts DEF Latest
<1>3. me.at \in Int /\ Target(me) \in Int /\ Latest(me) \in Int /\ LastMoment \in Int
  BY <1>1, <1>2, CacheAssumption DEF Moments
<1>4. Stored(me) \in SUBSET Moments
  BY <1>1, <1>2, <1>3 DEF Stored, Moments
<1>5. Batch(me) \subseteq Trades /\ Cut(me) \subseteq Trades
        /\ Overlap(me) \subseteq Trades
  BY <1>2 DEF Batch, Cut, Overlap
<1>6. \A t \in Batch(me) : t.time \in Stored(me)
  <2>1. TAKE t \in Batch(me)
  <2>2. /\ t.time \in Int /\ me.at <= t.time /\ t.time <= Latest(me)
        /\ t.time <= Target(me)
    BY <1>2, <1>5, TradeFacts DEF Batch
  <2>3. QED
    BY <2>2, <1>3 DEF Stored
<1>7. ASSUME NEW t \in Trades, t.time \in Stored(me)
      PROVE  t \in Batch(me) \cup Cut(me) \cup Overlap(me)
  <2>1. /\ t.time \in Int /\ t.id \in Int /\ me.at <= t.time /\ t.time <= Latest(me)
        /\ t.time <= Target(me)
    BY <1>3, <1>7, TradeFacts DEF Stored
  <2>2. CASE t \notin PageFrom(me.at)
    <3>1. t.time = Latest(me)
      BY <2>1, <2>2, <1>2, <1>3
    <3>2. QED
      BY <2>1, <2>2, <3>1 DEF Cut
  <2>3. CASE t \in PageFrom(me.at) /\ t.id > me.last
    BY <2>1, <2>3 DEF Batch
  <2>4. CASE t \in PageFrom(me.at) /\ t.id <= me.last
    <3>1. t.time <= me.at
      BY <2>4 DEF InFirstGap
    <3>2. t.time = me.at
      BY <2>1, <3>1, <1>3
    <3>3. QED
      BY <2>4, <3>2 DEF Overlap
  <2>5. me.last \in Int
    BY DEF WorkerRecord
  <2>6. QED
    BY <2>1, <2>2, <2>3, <2>4, <2>5
<1>8. QED
  BY <1>4, <1>5, <1>6, <1>7 DEF Stored

(* The worker after the page, before it advances.                          *)
LEMMA TookFacts ==
  ASSUME NEW me \in WorkerRecord, InFirstGap(me), me.phase = "fetching",
         PageFrom(me.at) # {}
  PROVE  LET told == Took(me) IN
         /\ told \in WorkerRecord
         /\ told.phase = "fetching" /\ told.known = me.known
         /\ told.cached = me.cached /\ told.todo = me.todo /\ told.at = me.at
         /\ told.torn = me.torn /\ told.stuck = me.stuck /\ Gaps(told) = Gaps(me)
         /\ Unsent(told) \subseteq Unsent(me) \ Cut(me)
         /\ Unsent(told) \cap {t \in Batch(me) : t.time \in Gaps(me)} = {}
         /\ told.last = LastId(me, Batch(me))
         /\ \A t \in Trades : t.id <= told.last => t.time <= Latest(me)
<1> DEFINE told == Took(me)
           sent == {t \in Batch(me) : t.time \in Gaps(me)}
           missed == (me.missed \cup (Cut(me) \ me.cached)) \ sent
<1>1. Batch(me) \subseteq Trades /\ Cut(me) \subseteq Trades
  BY PageCovers
<1>2. me.last \in Nat \cup {-1}
  BY DEF WorkerRecord
<1>3. /\ LastId(me, Batch(me)) \in Nat \cup {-1}
      /\ Batch(me) = {} => LastId(me, Batch(me)) = me.last
      /\ Batch(me) # {} => \E t \in Batch(me) : LastId(me, Batch(me)) = t.id
  BY <1>1, <1>2, LastIdFacts
<1>4. told = [me EXCEPT !.last = LastId(me, Batch(me)),
                        !.fetched = me.fetched \cup sent, !.missed = missed]
  BY DEF Took
<1>5. told \in WorkerRecord
  <2> HIDE DEF told
  <2>1. me.fetched \cup sent \in SUBSET Trades /\ missed \in SUBSET Trades
    BY <1>1 DEF WorkerRecord
  <2> HIDE DEF sent, missed
  <2>2. QED
    BY <1>3, <1>4, <2>1 DEF WorkerRecord
<1>6. /\ told.phase = "fetching" /\ told.known = me.known
      /\ told.cached = me.cached /\ told.todo = me.todo /\ told.at = me.at
      /\ told.torn = me.torn /\ told.stuck = me.stuck
      /\ told.from = me.from /\ told.to = me.to
      /\ told.last = LastId(me, Batch(me))
      /\ told.fetched = me.fetched \cup sent /\ told.missed = missed
  <2> HIDE DEF told, sent, missed
  <2>1. QED
    BY <1>4 DEF WorkerRecord
<1>7. Gaps(told) = Gaps(me) /\ Asked(told) = Asked(me)
  <2> HIDE DEF told
  <2>1. QED
    BY <1>6 DEF Gaps, Asked
<1>8. /\ Unsent(told) \subseteq Unsent(me) \ Cut(me)
      /\ Unsent(told) \cap sent = {}
  <2>1. Unsent(told) = {t \in Trades : t.time \in Asked(me)}
                         \ (me.cached \cup (me.fetched \cup sent) \cup missed)
    <3> HIDE DEF told, sent, missed
    <3>1. QED
      BY <1>6, <1>7 DEF Unsent
  <2> HIDE DEF told
  <2>2. QED
    BY <2>1 DEF Unsent
<1>9. ASSUME NEW t \in Trades, t.id <= told.last
      PROVE  t.time <= Latest(me)
  <2>1. me.at \in Moments
    BY WhereItStands
  <2>2. /\ PageFrom(me.at) \subseteq Trades
        /\ Latest(me) \in Moments /\ me.at <= Latest(me)
        /\ \A u \in PageFrom(me.at) : u.time <= Latest(me)
    BY <2>1, PageFacts DEF Latest
  <2>3. me.at \in Int /\ Latest(me) \in Int /\ t.time \in Int
    BY <2>1, <2>2, TradeFacts DEF Moments
  <2>4. CASE Batch(me) = {}
    <3>1. t.id <= me.last
      BY <1>3, <1>6, <1>9, <2>4
    <3>2. t.time <= me.at
      BY <3>1 DEF InFirstGap
    <3>3. QED
      BY <3>2, <2>2, <2>3
  <2>5. CASE Batch(me) # {}
    <3>1. PICK u \in Batch(me) : told.last = u.id
      BY <1>3, <1>6, <2>5
    <3>2. u \in PageFrom(me.at)
      BY DEF Batch
    <3>3. t.time <= u.time /\ u.time <= Latest(me) /\ u.time \in Int
      BY <3>1, <3>2, <1>9, <2>2, TradeFacts
    <3>4. QED
      BY <3>3, <2>3
  <2>6. QED
    BY <2>4, <2>5
<1>10. QED
  BY <1>5, <1>6, <1>7, <1>8, <1>9

(* A step within the gap.                                                  *)
MayStandAt(told, at) ==
  /\ told \in WorkerRecord /\ told.phase = "fetching"
  /\ told.todo # {} /\ First(told.todo) <= told.at
  /\ at \in Moments /\ told.at <= at /\ at <= Target(told)
  /\ \A t \in Trades : t.id <= told.last => t.time <= at
  /\ told.torn \/ \A t \in Unsent(told) : /\ t.time \in Gaps(told) \cap told.todo
                                          /\ at <= t.time
                                          /\ told.last < t.id

MovedTo(told, at, stuck) == [told EXCEPT !.at = at, !.stuck = stuck]

LEMMA WithinGap ==
  ASSUME NEW told, NEW at, MayStandAt(told, at), NEW stuck \in Nat
  PROVE  LET next == MovedTo(told, at, stuck) IN
         /\ next \in WorkerRecord
         /\ next.phase = "fetching" /\ next.at = at
         /\ next.known = told.known /\ next.cached = told.cached
         /\ WorkerInv(next)
<1> DEFINE next == MovedTo(told, at, stuck)
<1> SUFFICES /\ next \in WorkerRecord
             /\ next.phase = "fetching" /\ next.at = at
             /\ next.known = told.known /\ next.cached = told.cached
             /\ WorkerInv(next)
  OBVIOUS
<1>0. /\ told \in WorkerRecord /\ told.phase = "fetching"
      /\ told.todo # {} /\ First(told.todo) <= told.at
      /\ at \in Moments /\ told.at <= at /\ at <= Target(told)
      /\ \A t \in Trades : t.id <= told.last => t.time <= at
      /\ told.torn \/ \A t \in Unsent(told) :
           t.time \in Gaps(told) \cap told.todo /\ at <= t.time /\ told.last < t.id
  BY DEF MayStandAt
<1>1. at \in 0..(LastMoment + 1) /\ at \in Int
  BY <1>0, CacheAssumption DEF Moments
<1>2. next \in WorkerRecord
  BY <1>0, <1>1 DEF WorkerRecord, MovedTo
<1>3. /\ next.phase = "fetching" /\ next.at = at /\ next.todo = told.todo
      /\ next.known = told.known /\ next.cached = told.cached
      /\ next.fetched = told.fetched /\ next.missed = told.missed
      /\ next.last = told.last /\ next.torn = told.torn
      /\ next.from = told.from /\ next.to = told.to
  BY <1>0 DEF WorkerRecord, MovedTo
<1> HIDE DEF next
<1>4. Unsent(next) = Unsent(told) /\ Gaps(next) = Gaps(told)
  BY <1>3 DEF Unsent, Gaps, Asked
<1>5. First(told.todo) <= at
  <2>1. told.todo \in SUBSET Moments /\ told.at \in Int
    BY <1>0 DEF WorkerRecord
  <2>2. First(told.todo) \in Int
    BY <1>0, <2>1, FirstIsLeast DEF Moments
  <2>3. QED
    BY <1>0, <1>1, <2>1, <2>2
<1>6. InFirstGap(next)
  BY <1>0, <1>3, <1>5 DEF InFirstGap, Target
<1>7. BeforeAnswer(next) /\ UnsentIsAhead(next)
  BY <1>0, <1>3, <1>4 DEF BeforeAnswer, UnsentIsAhead
<1>8. QED
  BY <1>2, <1>3, <1>6, <1>7 DEF WorkerInv

(* A page moves the worker on, with everything unsent still ahead of it.   *)
LEMMA PageMovesOn ==
  ASSUME NEW me \in WorkerRecord, WorkerInv(me), me.phase = "fetching",
         PageFrom(me.at) # {}
  PROVE  LET next == Advance(Took(me), Latest(me), Target(me)) IN
         /\ next \in WorkerRecord
         /\ next.phase \in {"fetching", "done"}
         /\ next.known = me.known /\ next.cached = me.cached
         /\ next.phase = "fetching" => next.at > me.at
         /\ WorkerInv(next)
<1> DEFINE told == Took(me)
           latest == Latest(me)
           target == Target(me)
           next == Advance(told, latest, target)
<1> SUFFICES /\ next \in WorkerRecord
             /\ next.phase \in {"fetching", "done"}
             /\ next.known = me.known /\ next.cached = me.cached
             /\ next.phase = "fetching" => next.at > me.at
             /\ WorkerInv(next)
  OBVIOUS
<1>1. InFirstGap(me) /\ UnsentIsAhead(me)
  BY DEF WorkerInv
<1>2. /\ me.at \in Moments /\ target \in Moments /\ me.at <= target
      /\ First(me.todo) \in Moments /\ First(me.todo) <= target
      /\ me.todo \subseteq Moments /\ \A n \in me.todo : First(me.todo) <= n
  BY <1>1, WhereItStands
<1>3. latest \in Moments /\ me.at <= latest
  BY <1>2, PageFacts DEF Latest
<1>4. /\ told \in WorkerRecord
      /\ told.phase = "fetching" /\ told.known = me.known
      /\ told.cached = me.cached /\ told.todo = me.todo /\ told.at = me.at
      /\ told.torn = me.torn /\ told.stuck = me.stuck /\ Gaps(told) = Gaps(me)
      /\ Unsent(told) \subseteq Unsent(me) \ Cut(me)
      /\ Unsent(told) \cap {t \in Batch(me) : t.time \in Gaps(me)} = {}
      /\ \A t \in Trades : t.id <= told.last => t.time <= latest
  BY <1>1, TookFacts
<1>5. /\ told.todo # {} /\ First(told.todo) <= told.at
      /\ target = Target(told)
  BY <1>1, <1>4 DEF InFirstGap, Target
<1>6. ASSUME ~me.torn, NEW t \in Unsent(told)
      PROVE  /\ t \in Trades /\ t.time \in Moments
             /\ t.time \in Gaps(told) \cap told.todo
             /\ me.at <= t.time
             /\ (IF latest < target THEN latest ELSE target) < t.time
  <2>1. t \in Unsent(me) /\ t \notin Cut(me)
    BY <1>4
  <2>2. t \in Trades /\ t.time \in Moments /\ t.time \in Int
    BY <2>1, TradeFacts DEF Unsent
  <2>3. t.time \in Gaps(me) \cap me.todo /\ me.at <= t.time /\ me.last < t.id
    BY <2>1, <1>1, <1>6 DEF UnsentIsAhead
  <2>4. t \notin Batch(me)
    BY <2>3, <1>4
  <2>5. t \notin Overlap(me)
    <3>1. me.last \in Int /\ t.id \in Int
      BY <2>2, TradeFacts DEF WorkerRecord
    <3>2. QED
      BY <2>3, <3>1 DEF Overlap
  <2>6. t.time \notin Stored(me)
    BY <2>1, <2>2, <2>4, <2>5, <1>1, PageCovers
  <2>7. (IF latest < target THEN latest ELSE target) < t.time
    BY <2>2, <2>3, <2>6, <1>2, <1>3 DEF Stored, Moments
  <2>8. QED
    BY <2>2, <2>3, <2>7, <1>4
<1>7. told.last \in Int /\ \A t \in Trades : t.id \in Int /\ t.time \in Int
  BY <1>4, TradeFacts DEF WorkerRecord
<1>8. me.at \in Int /\ latest \in Int /\ target \in Int
  BY <1>2, <1>3 DEF Moments
<1> HIDE DEF told, latest, target
<1>9. CASE latest = me.at
  <2>1. next = NoProgress(told, target)
    BY <1>4, <1>9 DEF Advance
  <2>2. me.at + 1 \in 0..(LastMoment + 1)
    BY <1>2, CacheAssumption DEF Moments
  <2>3. told.torn \/ \A t \in Unsent(told) : me.at + 1 <= t.time
    BY <1>4, <1>6, <1>7, <1>8, <1>9, <1>2
  <2>4. CASE next = End(told, me.at + 1)
    <3>1. /\ next \in WorkerRecord /\ next.phase = "done"
          /\ next.known = told.known /\ next.cached = told.cached
          /\ WorkerInv(next)
      <4> HIDE DEF next
      <4>1. QED
        BY <2>2, <2>3, <2>4, <1>4, EndFacts
    <3> HIDE DEF next
    <3>2. QED
      BY <3>1, <1>4
  <2>5. CASE next # End(told, me.at + 1)
    <3>1. /\ next = MovedTo(told, me.at + 1, told.stuck + 1)
          /\ ~(me.at + 1 >= target)
      BY <2>1, <2>5, <1>4 DEF NoProgress, MovedTo
    <3>2. me.at + 1 \in Moments /\ me.at + 1 <= target /\ told.stuck + 1 \in Nat
            /\ told.at <= me.at + 1
      BY <3>1, <1>2, <1>4, <1>8, CacheAssumption DEF Moments, WorkerRecord
    <3>3. \A t \in Trades : t.id <= told.last => t.time <= me.at + 1
      BY <1>4, <1>7, <1>8, <1>9
    <3>4. told.torn \/ \A t \in Unsent(told) :
             /\ t.time \in Gaps(told) \cap told.todo
             /\ me.at + 1 <= t.time
             /\ told.last < t.id
      <4>1. SUFFICES ASSUME ~me.torn, NEW t \in Unsent(told)
                     PROVE  /\ t.time \in Gaps(told) \cap told.todo
                            /\ me.at + 1 <= t.time
                            /\ told.last < t.id
        BY <1>4
      <4>2. /\ t \in Trades /\ me.at < t.time
            /\ t.time \in Gaps(told) \cap told.todo
        BY <4>1, <1>6, <1>2, <1>8, <1>9
      <4>3. t.id \in Int /\ t.time \in Int /\ told.last \in Int
        BY <4>2, <1>7
      <4>4. told.last < t.id
        BY <4>2, <4>3, <1>4, <1>8, <1>9
      <4>5. QED
        BY <4>2, <4>3, <4>4, <1>8
    <3>5. /\ next \in WorkerRecord /\ next.phase = "fetching"
          /\ next.at = me.at + 1
          /\ next.known = told.known /\ next.cached = told.cached
          /\ WorkerInv(next)
      <4> HIDE DEF next
      <4>1. MayStandAt(told, me.at + 1)
        BY <3>2, <3>3, <3>4, <1>4, <1>5, <1>8 DEF MayStandAt
      <4>2. QED
        BY <3>1, <3>2, <4>1, WithinGap
    <3> HIDE DEF next
    <3>6. QED
      BY <3>5, <1>3, <1>4, <1>8
  <2>6. QED
    BY <2>4, <2>5
<1>10. CASE latest # me.at /\ latest >= target
  <2> DEFINE rest == me.todo \ (First(me.todo)..target)
  <2>1. next = NextGap(told, rest)
    BY <1>4, <1>10 DEF Advance
  <2>2. rest \in SUBSET Moments
    BY <1>2
  <2>3. told.torn \/ \A t \in Unsent(told) : t.time \in Gaps(told) \cap rest
    <3>1. SUFFICES ASSUME ~me.torn, NEW t \in Unsent(told)
                   PROVE  t.time \in Gaps(told) \cap rest
      BY <1>4
    <3>2. target < t.time /\ t.time \in Int
      BY <3>1, <1>6, <1>7, <1>8, <1>10
    <3>3. QED
      BY <3>1, <3>2, <1>4, <1>6, <1>8
  <2>4. \A n \in rest : n > me.at
    <3>1. TAKE n \in rest
    <3>2. n \in Int /\ First(me.todo) \in Int /\ First(me.todo) <= n
      BY <1>2 DEF Moments
    <3>3. n > target
      BY <3>2, <1>8
    <3>4. QED
      BY <3>2, <3>3, <1>2, <1>8
  <2> HIDE DEF rest
  <2>5. /\ next \in WorkerRecord
        /\ next.phase \in {"fetching", "done"}
        /\ next.known = told.known /\ next.cached = told.cached
        /\ next.phase = "fetching" => next.at \in rest
        /\ WorkerInv(next)
    <3> HIDE DEF next
    <3>1. QED
      BY <2>1, <2>2, <2>3, <1>4, NextGapFacts
  <2> HIDE DEF next
  <2>6. QED
    BY <2>4, <2>5, <1>4
<1>11. CASE latest # me.at /\ latest < target
  <2>1. next = MovedTo(told, latest, 0)
    BY <1>4, <1>8, <1>11 DEF Advance, MovedTo
  <2>2. told.at <= latest /\ latest <= Target(told) /\ 0 \in Nat
    BY <1>3, <1>4, <1>5, <1>8, <1>11
  <2>3. told.torn \/ \A t \in Unsent(told) :
           /\ t.time \in Gaps(told) \cap told.todo
           /\ latest <= t.time
           /\ told.last < t.id
    <3>1. SUFFICES ASSUME ~me.torn, NEW t \in Unsent(told)
                   PROVE  /\ t.time \in Gaps(told) \cap told.todo
                          /\ latest <= t.time
                          /\ told.last < t.id
      BY <1>4
    <3>2. t \in Trades /\ latest < t.time /\ t.time \in Gaps(told) \cap told.todo
      BY <3>1, <1>6, <1>11
    <3>3. t.id \in Int /\ t.time \in Int /\ told.last \in Int
      BY <3>2, <1>7
    <3>4. told.last < t.id
      BY <3>2, <3>3, <1>4, <1>8
    <3>5. QED
      BY <3>2, <3>3, <3>4, <1>8
  <2>4. /\ next \in WorkerRecord /\ next.phase = "fetching"
        /\ next.at = latest
        /\ next.known = told.known /\ next.cached = told.cached
        /\ WorkerInv(next)
    <3> HIDE DEF next
    <3>1. MayStandAt(told, latest)
      BY <2>2, <2>3, <1>3, <1>4, <1>5 DEF MayStandAt
    <3>2. QED
      BY <2>1, <2>2, <3>1, WithinGap
  <2> HIDE DEF next
  <2>5. QED
    BY <2>4, <1>3, <1>4, <1>8, <1>11
<1>12. QED
  BY <1>8, <1>9, <1>10, <1>11

-----------------------------------------------------------------------------
(* The tables *)

TablesOK ==
  /\ coverage \in SUBSET Moments
  /\ present \in SUBSET Buckets
  /\ contents \in [Buckets -> SUBSET Trades]
  /\ damaged \in SUBSET (Buckets \cup {Coverage})
  /\ unbacked \in SUBSET Trades

(* Held in the tables: a trade of a readable bucket, its own.              *)
LEMMA HeldFacts ==
  ASSUME InPlace, NEW t
  PROVE  t \in Held <=> /\ BucketFor(t.time) \in Buckets
                        /\ Readable(BucketFor(t.time))
                        /\ t \in contents[BucketFor(t.time)]
<1>1. ASSUME t \in Held
      PROVE  \E b \in Buckets : Readable(b) /\ t \in contents[b]
  BY <1>1 DEF Held
<1>2. QED
  BY <1>1 DEF Held, InPlace

(* The record of a store, when the page is worth storing.                  *)
LEMMA StoreFacts ==
  ASSUME NEW S, NEW page, NEW leftOut, Store(S, page, leftOut), page # {}
  PROVE  LET touched == Touched(S, page) IN
         /\ coverage' = Claimed \cup S
         /\ present' = present \cup touched
         /\ \A b \in Buckets \ touched : contents'[b] = contents[b]
         /\ \A b \in Buckets \cap touched :
              contents'[b] = (IF Readable(b) THEN contents[b] ELSE {})
                               \cup {t \in page : BucketFor(t.time) = b}
         /\ damaged' = damaged \ (touched \cup {Coverage})
         /\ Claimed' = Claimed \cup S
BY DEF Store, WorthStoring, Claimed

LEMMA StoreTables ==
  ASSUME TablesOK, InPlace,
         NEW S \in SUBSET Moments, NEW page \in SUBSET Trades,
         NEW leftOut \in SUBSET Trades, Store(S, page, leftOut)
  PROVE  TablesOK' /\ InPlace'
<1>1. CASE page = {}
  BY <1>1 DEF Store, WorthStoring, TablesOK, InPlace, tableVars
<1>2. CASE page # {}
  <2> DEFINE touched == Touched(S, page)
             lost == {t \in Trades : BucketFor(t.time) \in touched \cap damaged}
  <2>1. touched \subseteq Buckets
    BY BucketFacts, TradeFacts DEF Touched, BucketStarts
  <2>2. /\ coverage' = Claimed \cup S
        /\ present' = present \cup touched
        /\ contents' = [b \in Buckets |->
              IF b \in touched
                THEN (IF Readable(b) THEN contents[b] ELSE {})
                       \cup {t \in page : BucketFor(t.time) = b}
                ELSE contents[b]]
        /\ damaged' = damaged \ (touched \cup {Coverage})
        /\ unbacked' = (unbacked \cup lost \cup leftOut) \ (page \cup Held)
    BY <1>2 DEF Store, WorthStoring
  <2>3. lost \subseteq Trades
    OBVIOUS
  <2> HIDE DEF touched, lost
  <2>4. coverage' \in SUBSET Moments /\ present' \in SUBSET Buckets
    BY <2>1, <2>2 DEF TablesOK, Claimed
  <2>5. contents' \in [Buckets -> SUBSET Trades]
    BY <2>2 DEF TablesOK
  <2>6. damaged' \in SUBSET (Buckets \cup {Coverage}) /\ unbacked' \in SUBSET Trades
    BY <2>2, <2>3 DEF TablesOK
  <2>7. InPlace'
    <3>1. SUFFICES ASSUME NEW b \in Buckets, NEW t \in contents'[b]
                   PROVE  BucketFor(t.time) = b
      BY DEF InPlace
    <3>2. t \in contents[b] \/ BucketFor(t.time) = b
      BY <2>2, <3>1
    <3>3. QED
      BY <3>2 DEF InPlace
  <2>8. QED
    BY <2>4, <2>5, <2>6, <2>7 DEF TablesOK
<1>3. QED
  BY <1>1, <1>2

(* A store takes nothing away from what was backed, and backs its range    *)
(* when each trade of it is passed on or counted as left out.              *)
LEMMA StoreKeepsBacked ==
  ASSUME TablesOK, InPlace,
         NEW S \in SUBSET Moments, NEW page \in SUBSET Trades,
         NEW leftOut \in SUBSET Trades, Store(S, page, leftOut),
         NEW K \in SUBSET Moments,
         BucketStarts(K) \subseteq present \cup Touched(S, page),
         \A t \in Trades : t.time \in K =>
            \/ t \in page \cup leftOut
            \/ /\ BucketFor(t.time) \in present
               /\ BucketFor(t.time) \notin damaged
                    => t \in contents[BucketFor(t.time)] \cup unbacked,
         page # {}
  PROVE  /\ BucketStarts(K) \subseteq present'
         /\ \A t \in Trades : t.time \in K /\ BucketFor(t.time) \notin damaged'
              => t \in contents'[BucketFor(t.time)] \cup unbacked'
<1> DEFINE touched == Touched(S, page)
           lost == {t \in Trades : BucketFor(t.time) \in touched \cap damaged}
<1>1. /\ present' = present \cup touched
      /\ \A b \in Buckets \ touched : contents'[b] = contents[b]
      /\ \A b \in Buckets \cap touched :
           contents'[b] = (IF Readable(b) THEN contents[b] ELSE {})
                            \cup {t \in page : BucketFor(t.time) = b}
      /\ damaged' = damaged \ (touched \cup {Coverage})
  BY StoreFacts
<1>2. unbacked' = (unbacked \cup lost \cup leftOut) \ (page \cup Held)
  BY DEF Store, WorthStoring
<1>3. \A t \in page : BucketFor(t.time) \in touched
  BY DEF Touched, BucketStarts
<1>4. ASSUME NEW t \in Trades, t.time \in K, BucketFor(t.time) \notin damaged'
      PROVE  t \in contents'[BucketFor(t.time)] \cup unbacked'
  <2> DEFINE b == BucketFor(t.time)
  <2>1. b \in Buckets /\ b # Coverage
    BY BucketFacts, TradeFacts
  <2>2. CASE t \in page
    BY <2>1, <2>2, <1>1, <1>3
  <2>3. CASE t \notin page /\ t \in Held
    <3>1. Readable(b) /\ t \in contents[b]
      BY <2>3, HeldFacts
    <3>2. QED
      BY <2>1, <3>1, <1>1
  <2>4. CASE t \notin page /\ t \notin Held
    <3>1. t \in unbacked \cup lost \cup leftOut
      <4>1. CASE t \in leftOut
        BY <4>1
      <4>2. CASE b \in damaged
        BY <4>2, <2>1, <1>1, <1>4
      <4>3. CASE t \notin leftOut /\ b \notin damaged
        <5>1. b \in present /\ t \in contents[b] \cup unbacked
          BY <2>4, <4>3, <1>4
        <5>2. Readable(b)
          BY <5>1, <4>3 DEF Readable
        <5>3. QED
          BY <5>1, <5>2, <2>1, <2>4, HeldFacts
      <4>4. QED
        BY <4>1, <4>2, <4>3
    <3>2. QED
      BY <3>1, <2>4, <1>2
  <2>5. QED
    BY <2>2, <2>3, <2>4
<1>5. QED
  BY <1>1, <1>4

(* Removing buckets together with all coverage.                            *)
LEMMA DropFacts ==
  ASSUME TablesOK, InPlace, NEW keys, Drop(keys)
  PROVE  /\ TablesOK' /\ InPlace' /\ Claimed' = {} /\ (Backed(Claimed))'
         /\ Held' \subseteq Held
         /\ keys = Buckets => Held' = {}
<1>1. /\ coverage' = {} /\ unbacked' = {}
      /\ present' = present \ keys
      /\ contents' = [b \in Buckets |-> IF b \in keys THEN {} ELSE contents[b]]
      /\ damaged' = damaged \ (keys \cup {Coverage})
  BY DEF Drop
<1>2. TablesOK'
  BY <1>1 DEF TablesOK
<1>3. InPlace'
  BY <1>1 DEF InPlace
<1>4. Claimed' = {}
  BY <1>1 DEF Claimed
<1>5. (Backed(Claimed))'
  BY <1>4 DEF Backed, BucketStarts
<1>6. ASSUME NEW t \in Held'
      PROVE  t \in Held /\ keys # Buckets
  <2>1. PICK b \in Buckets : Readable(b)' /\ t \in contents'[b]
    BY <1>6 DEF Held
  <2>2. b \notin keys /\ t \in contents[b] /\ b \in present
    BY <2>1, <1>1 DEF Readable
  <2>3. b \notin damaged
    BY <2>1, <2>2, <1>1, BucketFacts DEF Readable
  <2>4. QED
    BY <2>2, <2>3 DEF Held, Readable
<1>7. QED
  BY <1>2, <1>3, <1>4, <1>5, <1>6

-----------------------------------------------------------------------------
(* Every step keeps the invariant *)

BackedNext(K) ==
  /\ BucketStarts(K) \subseteq present'
  /\ \A t \in Trades : t.time \in K /\ BucketFor(t.time) \notin damaged'
                         => t \in contents'[BucketFor(t.time)] \cup unbacked'

(* What a step must do to the tables.                                      *)
TablesKept ==
  /\ TablesOK' /\ InPlace' /\ (Backed(Claimed))'
  /\ faults' \in Nat

KeepsBacked == \A K \in SUBSET Moments : Backed(K) => BackedNext(K)

LEMMA CacheInvTables ==
  CacheInv => /\ TablesOK /\ InPlace /\ Backed(Claimed)
              /\ Claimed \in SUBSET Moments /\ faults \in Nat
              /\ workers \in [Workers -> WorkerRecord]
BY DEF CacheInv, TypeOK, TablesOK, Claimed

LEMMA UnchangedTables ==
  ASSUME CacheInv, UNCHANGED tableVars, faults' \in Nat
  PROVE  TablesKept /\ KeepsBacked /\ Claimed' = Claimed /\ Held' = Held
<1>1. /\ coverage' = coverage /\ present' = present /\ contents' = contents
      /\ damaged' = damaged /\ unbacked' = unbacked
  BY DEF tableVars
<1>2. Claimed' = Claimed
  BY <1>1 DEF Claimed
<1>3. Held' = Held
  BY <1>1 DEF Held, Readable
<1>4. TablesOK' /\ InPlace'
  BY <1>1, CacheInvTables DEF TablesOK, InPlace
<1>5. (Backed(Claimed))'
  BY <1>1, <1>2, CacheInvTables DEF Backed
<1>6. KeepsBacked
  BY <1>1 DEF KeepsBacked, Backed, BackedNext
<1>7. QED
  BY <1>2, <1>3, <1>4, <1>5, <1>6 DEF TablesKept

LEMMA StoredTables ==
  ASSUME CacheInv, faults' \in Nat,
         NEW S \in SUBSET Moments, NEW page \in SUBSET Trades,
         NEW leftOut \in SUBSET Trades, Store(S, page, leftOut),
         \A t \in Trades : t.time \in S => t \in page \cup leftOut
  PROVE  TablesKept /\ KeepsBacked
<1>1. CASE page = {}
  <2>1. UNCHANGED tableVars
    BY <1>1 DEF Store, WorthStoring
  <2>2. QED
    BY <2>1, UnchangedTables
<1>2. CASE page # {}
  <2>1. TablesOK /\ InPlace /\ Backed(Claimed) /\ Claimed \in SUBSET Moments
    BY CacheInvTables
  <2>2. TablesOK' /\ InPlace'
    BY <2>1, StoreTables
  <2>3. Claimed' = Claimed \cup S
    BY <1>2, StoreFacts
  <2>4. BackedNext(Claimed \cup S)
    <3> DEFINE K == Claimed \cup S
    <3>1. K \in SUBSET Moments
      BY <2>1
    <3>2. BucketStarts(K) \subseteq present \cup Touched(S, page)
      BY <2>1 DEF Backed, BucketStarts, Touched
    <3>3. \A t \in Trades : t.time \in K =>
            \/ t \in page \cup leftOut
            \/ /\ BucketFor(t.time) \in present
               /\ BucketFor(t.time) \notin damaged
                    => t \in contents[BucketFor(t.time)] \cup unbacked
      BY <2>1 DEF Backed, BucketStarts
    <3> HIDE DEF K
    <3>4. BackedNext(K)
      BY <1>2, <2>1, <3>1, <3>2, <3>3, StoreKeepsBacked DEF BackedNext
    <3>5. QED
      BY <3>4 DEF K
  <2>5. (Backed(Claimed))'
    BY <2>3, <2>4 DEF Backed, BackedNext
  <2>6. KeepsBacked
    <3>1. SUFFICES ASSUME NEW K \in SUBSET Moments, Backed(K)
                   PROVE  BackedNext(K)
      BY DEF KeepsBacked
    <3>2. BucketStarts(K) \subseteq present \cup Touched(S, page)
      BY <3>1 DEF Backed
    <3>3. \A t \in Trades : t.time \in K =>
            /\ BucketFor(t.time) \in present
            /\ BucketFor(t.time) \notin damaged
                 => t \in contents[BucketFor(t.time)] \cup unbacked
      BY <3>1 DEF Backed, BucketStarts
    <3>4. QED
      BY <1>2, <2>1, <3>2, <3>3, StoreKeepsBacked DEF BackedNext
  <2>7. QED
    BY <2>2, <2>5, <2>6 DEF TablesKept
<1>3. QED
  BY <1>1, <1>2

(* One worker becomes next.                                                *)
LEMMA OneMoves ==
  ASSUME CacheInv, TablesKept, KeepsBacked, NEW w \in Workers,
         NEW next \in WorkerRecord, WorkerInv(next), Become(w, next),
         next.phase = "asking" /\ ~next.torn => BackedNext(next.known)
  PROVE  CacheInv'
<1>1. workers' = [workers EXCEPT ![w] = next]
  BY DEF Become
<1>2. workers \in [Workers -> WorkerRecord]
  BY CacheInvTables
<1>3. workers' \in [Workers -> WorkerRecord]
  BY <1>1, <1>2
<1>4. workers'[w] = next /\ \A v \in Workers \ {w} : workers'[v] = workers[v]
  BY <1>1, <1>2
<1>5. TypeOK'
  BY <1>3 DEF TypeOK, TablesKept, TablesOK
<1>6. ASSUME NEW v \in Workers
      PROVE  (WorkerInv(workers[v]) /\ ToldIsBacked(v))'
  <2>1. CASE v = w
    <3>1. WorkerInv(workers'[v])
      BY <1>4, <2>1
    <3>2. ToldIsBacked(v)'
      BY <1>4, <2>1 DEF ToldIsBacked, Backed, BackedNext
    <3>3. QED
      BY <3>1, <3>2
  <2>2. CASE v # w
    <3>1. workers'[v] = workers[v]
      BY <1>4, <2>2
    <3>2. WorkerInv(workers[v]) /\ ToldIsBacked(v)
      BY DEF CacheInv
    <3>3. workers[v].known \in SUBSET Moments
      BY <1>2 DEF WorkerRecord
    <3>4. ToldIsBacked(v)'
      BY <3>1, <3>2, <3>3 DEF ToldIsBacked, KeepsBacked, Backed, BackedNext
    <3>5. QED
      BY <3>1, <3>2, <3>4
  <2>3. QED
    BY <2>1, <2>2
<1>7. QED
  BY <1>5, <1>6 DEF CacheInv, TablesKept

(* A removal tears the answers that are being put together.                *)
LEMMA AllTorn ==
  ASSUME CacheInv, TablesKept, NEW ws \in [Workers -> WorkerRecord],
         \A v \in Workers : WorkerInv(ws[v]), workers' = TornBy(ws)
  PROVE  CacheInv'
<1> DEFINE torn(v) == [ws[v] EXCEPT !.torn = TRUE]
<1>1. \A v \in Workers :
        workers'[v] = IF ws[v].phase = "asking" THEN torn(v) ELSE ws[v]
  BY DEF TornBy
<1>2. ASSUME NEW v \in Workers
      PROVE  /\ workers'[v] \in WorkerRecord
             /\ WorkerInv(workers'[v])
             /\ ~(workers'[v].phase = "asking" /\ ~workers'[v].torn)
  <2>1. CASE ws[v].phase # "asking"
    BY <1>1, <2>1
  <2>2. CASE ws[v].phase = "asking"
    <3>1. workers'[v] = torn(v) /\ ws[v] \in WorkerRecord /\ WorkerInv(ws[v])
      BY <1>1, <2>2
    <3>2. torn(v) \in WorkerRecord
      BY <3>1 DEF WorkerRecord
    <3>3. /\ torn(v).phase = "asking" /\ torn(v).torn = TRUE
          /\ torn(v).cached = ws[v].cached /\ torn(v).fetched = ws[v].fetched
          /\ torn(v).missed = ws[v].missed /\ torn(v).known = ws[v].known
          /\ torn(v).from = ws[v].from /\ torn(v).to = ws[v].to
      BY <2>2, <3>1 DEF WorkerRecord
    <3> HIDE DEF torn
    <3>4. WorkerInv(torn(v))
      BY <2>2, <3>1, <3>3 DEF WorkerInv, BeforeAnswer, InFirstGap, UnsentIsAhead,
                              Asked
    <3>5. QED
      BY <3>1, <3>2, <3>3, <3>4
  <2>3. QED
    BY <2>1, <2>2
<1>3. workers' \in [Workers -> WorkerRecord]
  BY <1>2 DEF TornBy
<1>4. TypeOK'
  BY <1>3 DEF TypeOK, TablesKept, TablesOK
<1>5. QED
  BY <1>2, <1>4 DEF CacheInv, TablesKept, ToldIsBacked

LEMMA InitInv == Init => CacheInv
<1> SUFFICES ASSUME Init PROVE CacheInv
  OBVIOUS
<1>1. TypeOK
  BY IdleIsWorker DEF Init, TypeOK
<1>2. InPlace
  BY DEF Init, InPlace
<1>3. Backed(Claimed)
  BY DEF Init, Claimed, Backed, BucketStarts
<1>4. \A w \in Workers : WorkerInv(workers[w]) /\ ToldIsBacked(w)
  BY IdleIsWorker DEF Init, ToldIsBacked, Idle
<1>5. QED
  BY <1>1, <1>2, <1>3, <1>4 DEF CacheInv

LEMMA FaultType == faults \in Nat /\ Fault => faults' \in Nat
BY DEF Fault

LEMMA ReadCoverageInv ==
  ASSUME CacheInv, NEW w \in Workers, NEW r \in Ranges, ReadCoverage(w, r[1], r[2])
  PROVE  CacheInv'
<1> DEFINE me == [Idle EXCEPT !.from = r[1], !.to = r[2]]
           known == Claimed \cap (r[1]..r[2])
<1>1. r[1] \in Moments /\ r[2] \in Moments
  BY CacheAssumption
<1>2. me \in WorkerRecord
  BY <1>1, IdleIsWorker DEF WorkerRecord
<1>3. /\ me.from = r[1] /\ me.to = r[2] /\ me.phase = "idle" /\ me.torn = FALSE
      /\ me.cached = {} /\ me.fetched = {} /\ me.missed = {} /\ me.known = {}
  BY DEF Idle
<1>4. Asked(me) = r[1]..r[2]
  <2> HIDE DEF me
  <2>1. QED
    BY <1>3 DEF Asked
<1>5. TablesKept /\ KeepsBacked
  BY UnchangedTables, CacheInvTables DEF ReadCoverage
<1>6. Claimed \in SUBSET Moments /\ Backed(Claimed)
  BY CacheInvTables
<1>7. CASE Become(w, [me EXCEPT !.phase = "invalidating"])
  <2> DEFINE next == [me EXCEPT !.phase = "invalidating"]
  <2>1. next \in WorkerRecord
    BY <1>2 DEF WorkerRecord, Phases
  <2>2. /\ next.phase = "invalidating" /\ next.cached = {} /\ next.fetched = {}
        /\ next.missed = {} /\ next.known = {}
    BY DEF Idle
  <2> HIDE DEF next
  <2>3. WorkerInv(next)
    BY <2>2 DEF WorkerInv, BeforeAnswer, InFirstGap, UnsentIsAhead
  <2>4. Become(w, next)
    BY <1>7 DEF next
  <2>5. QED
    BY <2>1, <2>2, <2>3, <2>4, <1>5, OneMoves
<1>8. CASE Become(w, Answered(me, {}, {}))
  <2> DEFINE next == Answered(me, {}, {})
  <2>1. TypeOK
    BY DEF CacheInv
  <2>2. /\ next \in WorkerRecord /\ next.phase \in {"fetching", "done"}
        /\ WorkerInv(next)
    <3> HIDE DEF me
    <3>1. {} \in SUBSET Asked(me) /\ {} \in SUBSET Trades
      OBVIOUS
    <3>2. QED
      BY <2>1, <3>1, <1>2, <1>3, AnsweredFacts
  <2> HIDE DEF next
  <2>3. Become(w, next)
    BY <1>8 DEF next
  <2>4. QED
    BY <2>2, <2>3, <1>5, OneMoves
<1>9. CASE Become(w, [me EXCEPT !.phase = "asking", !.known = known])
  <2> DEFINE next == [me EXCEPT !.phase = "asking", !.known = known]
  <2>1. known \in SUBSET Moments /\ known \subseteq Asked(me)
    BY <1>4, <1>6
  <2>2. next \in WorkerRecord
    <3> HIDE DEF known
    <3>1. QED
      BY <1>2, <2>1 DEF WorkerRecord, Phases
  <2>3. /\ next.phase = "asking" /\ next.cached = {} /\ next.fetched = {}
        /\ next.missed = {} /\ next.known = known
        /\ next.from = me.from /\ next.to = me.to
    <3> HIDE DEF known
    <3>1. QED
      BY DEF Idle
  <2>4. Asked(next) = Asked(me)
    <3> HIDE DEF next, me
    <3>1. QED
      BY <2>3 DEF Asked
  <2>5. BackedNext(known)
    <3>1. Backed(known)
      BY <1>6 DEF Backed, BucketStarts
    <3>2. QED
      BY <3>1, <2>1, <1>5 DEF KeepsBacked
  <2>6. Become(w, next)
    BY <1>9
  <2> HIDE DEF next, known
  <2>7. WorkerInv(next)
    BY <2>1, <2>3, <2>4 DEF WorkerInv, BeforeAnswer, InFirstGap, UnsentIsAhead
  <2>8. QED
    BY <2>2, <2>3, <2>5, <2>6, <2>7, <1>5, OneMoves
<1>10. QED
  BY <1>7, <1>8, <1>9 DEF ReadCoverage

LEMMA ReadBucketsInv ==
  ASSUME CacheInv, NEW w \in Workers, ReadBuckets(w)
  PROVE  CacheInv'
<1> DEFINE me == workers[w]
           required == Required(me.known)
           bad == {b \in required : ~Readable(b)}
           cached == {t \in UNION {contents[b] : b \in required} :
                        t.time \in Asked(me)}
<1>1. me \in WorkerRecord /\ WorkerInv(me) /\ ToldIsBacked(w) /\ me.phase = "asking"
  BY CacheInvTables DEF CacheInv, ReadBuckets
<1>2. /\ me.known \in SUBSET Moments /\ me.known \subseteq Asked(me)
      /\ me.fetched = {} /\ me.cached = {} /\ me.missed = {}
  BY <1>1 DEF WorkerInv, BeforeAnswer, WorkerRecord
<1>3. required \in SUBSET Buckets
  BY <1>2, BucketFacts DEF Required
<1>4. TablesOK /\ TypeOK /\ Backed(Claimed)
  BY CacheInvTables DEF CacheInv
<1>5. cached \in SUBSET Trades
  BY <1>3, <1>4 DEF TablesOK
<1>6. TablesKept /\ KeepsBacked
  BY UnchangedTables, CacheInvTables DEF ReadBuckets
<1>7. CASE bad = {}
  <2> DEFINE next == Answered(me, me.known, cached)
  <2>1. Become(w, next)
    BY <1>7 DEF ReadBuckets
  <2>2. me.torn \/ \A t \in Trades : t.time \in me.known => t \in cached \cup unbacked
    <3>1. SUFFICES ASSUME ~me.torn, NEW t \in Trades, t.time \in me.known
                   PROVE  t \in cached \cup unbacked
      BY <1>1 DEF WorkerRecord
    <3>2. BucketFor(t.time) \in required
      BY <3>1 DEF Required, BucketStarts
    <3>3. BucketFor(t.time) \notin damaged
      BY <3>2, <1>7 DEF Readable
    <3>4. t \in contents[BucketFor(t.time)] \cup unbacked
      BY <3>1, <3>3, <1>1 DEF ToldIsBacked, Backed
    <3>5. QED
      BY <3>1, <3>2, <3>4, <1>2
  <2>3. /\ next \in WorkerRecord /\ next.phase \in {"fetching", "done"}
        /\ WorkerInv(next)
    <3> HIDE DEF cached
    <3>1. QED
      BY <1>1, <1>2, <1>4, <1>5, <2>2, AnsweredFacts
  <2> HIDE DEF next
  <2>4. QED
    BY <2>1, <2>3, <1>6, OneMoves
<1>8. CASE bad # {}
  <2> DEFINE next == [me EXCEPT !.phase = "invalidating", !.bad = {First(bad)}]
  <2>1. Become(w, next)
    BY <1>8 DEF ReadBuckets
  <2>2. First(bad) \in bad
    <3>1. required \in SUBSET Int
      BY <1>2, CacheAssumption DEF Required, BucketStarts, BucketFor, Moments
    <3>2. IsFiniteSet(required)
      <4> DEFINE f == [m \in me.known |-> BucketFor(m)]
      <4>1. f \in Surjection(me.known, required)
        BY DEF Surjection, Required, BucketStarts
      <4>2. QED
        BY <4>1, <1>2, MomentsFinite, FS_Surjection
    <3>3. bad \subseteq Int /\ IsFiniteSet(bad)
      BY <3>1, <3>2, FS_Subset
    <3> HIDE DEF bad
    <3>4. \E m \in bad : \A n \in bad : m <= n
      BY <3>3, <1>8, LeastExists
    <3>5. QED
      BY <3>4 DEF First
  <2>3. {First(bad)} \in SUBSET Buckets
    BY <2>2, <1>3
  <2> HIDE DEF bad
  <2>4. next \in WorkerRecord
    BY <2>3, <1>1 DEF WorkerRecord, Phases
  <2>5. /\ next.phase = "invalidating" /\ next.cached = {} /\ next.fetched = {}
        /\ next.missed = {} /\ next.known = me.known
        /\ next.from = me.from /\ next.to = me.to
    BY <1>1, <1>2 DEF WorkerRecord
  <2> HIDE DEF next
  <2>6. Asked(next) = Asked(me)
    BY <2>5 DEF Asked
  <2>7. WorkerInv(next)
    BY <2>5, <2>6, <1>2 DEF WorkerInv, BeforeAnswer, InFirstGap, UnsentIsAhead
  <2>8. QED
    BY <2>1, <2>4, <2>5, <2>7, <1>6, OneMoves
<1>9. QED
  BY <1>7, <1>8

LEMMA DroppedTables ==
  ASSUME CacheInv, faults' \in Nat, NEW keys, Drop(keys)
  PROVE  TablesKept
BY CacheInvTables, DropFacts DEF TablesKept

LEMMA InvalidateInv ==
  ASSUME CacheInv, NEW w \in Workers, Invalidate(w)
  PROVE  CacheInv'
<1> DEFINE me == workers[w]
           next == Answered(me, {}, {})
           ws == [workers EXCEPT ![w] = next]
<1>1. /\ me \in WorkerRecord /\ WorkerInv(me) /\ me.phase = "invalidating"
      /\ workers \in [Workers -> WorkerRecord] /\ TypeOK /\ faults \in Nat
  BY CacheInvTables DEF CacheInv, Invalidate
<1>2. me.fetched = {} /\ {} \in SUBSET Asked(me) /\ {} \in SUBSET Trades
  BY <1>1 DEF WorkerInv, BeforeAnswer
<1>3. /\ next \in WorkerRecord /\ next.phase \in {"fetching", "done"}
      /\ WorkerInv(next)
  BY <1>1, <1>2, AnsweredFacts
<1>4. CASE Drop(me.bad) /\ workers' = TornBy(ws) /\ UNCHANGED faults
  <2>1. TablesKept
    BY <1>1, <1>4, DroppedTables
  <2> HIDE DEF next
  <2>2. ws \in [Workers -> WorkerRecord]
    BY <1>1, <1>3
  <2>3. \A v \in Workers : WorkerInv(ws[v])
    BY <1>1, <1>3 DEF CacheInv
  <2> HIDE DEF ws
  <2>4. QED
    BY <1>4, <2>1, <2>2, <2>3, AllTorn
<1>5. CASE WriteFails /\ workers' = ws
  <2>1. TablesKept /\ KeepsBacked
    BY <1>1, <1>5, FaultType, UnchangedTables DEF WriteFails
  <2>2. Become(w, next)
    BY <1>5 DEF Become
  <2> HIDE DEF next
  <2>3. QED
    BY <1>3, <2>1, <2>2, OneMoves
<1>6. QED
  BY <1>4, <1>5 DEF Invalidate

(* A page that is stored, or that fails to be.                             *)
LEMMA PageTables ==
  ASSUME CacheInv, NEW w \in Workers, Page(w)
  PROVE  /\ TablesKept /\ KeepsBacked
         /\ workers[w] \in WorkerRecord /\ WorkerInv(workers[w])
         /\ InFirstGap(workers[w])
         /\ workers[w].phase = "fetching" /\ PageFrom(workers[w].at) # {}
<1> DEFINE me == workers[w]
<1>1. /\ me \in WorkerRecord /\ WorkerInv(me) /\ me.phase = "fetching"
      /\ PageFrom(me.at) # {} /\ faults \in Nat
  BY CacheInvTables DEF CacheInv, Page
<1>2. InFirstGap(me)
  BY <1>1 DEF WorkerInv
<1>3. CASE Store(Stored(me), Batch(me), Cut(me) \cup Overlap(me)) /\ UNCHANGED faults
  <2>1. /\ Stored(me) \in SUBSET Moments
        /\ Batch(me) \in SUBSET Trades /\ Cut(me) \cup Overlap(me) \in SUBSET Trades
        /\ \A t \in Trades : t.time \in Stored(me)
             => t \in Batch(me) \cup (Cut(me) \cup Overlap(me))
    BY <1>1, <1>2, PageCovers
  <2>2. QED
    BY <1>1, <1>2, <1>3, <2>1, StoredTables
<1>4. CASE WriteFails
  BY <1>1, <1>2, <1>4, FaultType, UnchangedTables DEF WriteFails
<1>5. QED
  BY <1>3, <1>4 DEF Page

LEMMA PageInv ==
  ASSUME CacheInv, NEW w \in Workers, Page(w)
  PROVE  CacheInv'
<1> DEFINE me == workers[w]
           next == Advance(Took(me), Latest(me), Target(me))
<1>1. /\ TablesKept /\ KeepsBacked /\ me \in WorkerRecord /\ WorkerInv(me)
      /\ me.phase = "fetching" /\ PageFrom(me.at) # {}
  BY PageTables
<1>2. /\ next \in WorkerRecord /\ next.phase \in {"fetching", "done"}
      /\ WorkerInv(next)
  BY <1>1, PageMovesOn
<1>3. Become(w, next)
  BY DEF Page
<1> HIDE DEF next
<1>4. QED
  BY <1>1, <1>2, <1>3, OneMoves

(* The worker reports what it has, or is gone; the tables stay.            *)
LEMMA EndInv ==
  ASSUME CacheInv, UNCHANGED <<tableVars, faults>>, NEW w \in Workers,
         \/ Become(w, Idle)
         \/ workers[w].phase = "fetching" /\ Become(w, End(workers[w], workers[w].at))
  PROVE  CacheInv'
<1> DEFINE me == workers[w]
           next == End(me, me.at)
<1>1. TablesKept /\ KeepsBacked
  BY UnchangedTables, CacheInvTables
<1>2. CASE Become(w, Idle)
  <2>1. Idle.phase = "idle"
    BY DEF Idle
  <2>2. QED
    BY <1>1, <1>2, <2>1, IdleIsWorker, OneMoves
<1>3. CASE me.phase = "fetching" /\ Become(w, next)
  <2>1. me \in WorkerRecord /\ WorkerInv(me)
    BY CacheInvTables DEF CacheInv
  <2>2. me.at \in 0..(LastMoment + 1) /\ me.torn \in BOOLEAN
    BY <2>1 DEF WorkerRecord
  <2>3. me.torn \/ \A t \in Unsent(me) : me.at <= t.time
    BY <2>1, <2>2, <1>3 DEF WorkerInv, UnsentIsAhead
  <2>4. next \in WorkerRecord /\ next.phase = "done" /\ WorkerInv(next)
    BY <2>1, <2>2, <2>3, EndFacts
  <2> HIDE DEF next
  <2>5. QED
    BY <1>1, <1>3, <2>4, OneMoves
<1>4. QED
  BY <1>2, <1>3

LEMMA ClearAllInv == CacheInv /\ ClearAll => CacheInv'
<1> SUFFICES ASSUME CacheInv, ClearAll PROVE CacheInv'
  OBVIOUS
<1>1. TablesKept
  BY CacheInvTables, FaultType, DroppedTables DEF ClearAll
<1>2. workers' = TornBy(workers) /\ workers \in [Workers -> WorkerRecord]
        /\ \A v \in Workers : WorkerInv(workers[v])
  BY CacheInvTables DEF ClearAll, CacheInv
<1>3. QED
  BY <1>1, <1>2, AllTorn

LEMMA DamageInv ==
  ASSUME CacheInv, NEW blob \in Buckets \cup {Coverage}, Damage(blob)
  PROVE  CacheInv'
<1>1. /\ TablesOK /\ InPlace /\ Backed(Claimed)
      /\ workers \in [Workers -> WorkerRecord] /\ faults' \in Nat
  BY CacheInvTables, FaultType DEF Damage
<1>2. /\ coverage' = coverage /\ present' = present /\ contents' = contents
      /\ unbacked' = unbacked /\ workers' = workers
      /\ damaged' = damaged \cup {blob}
  BY DEF Damage
<1>3. Claimed' \subseteq Claimed
  BY <1>2 DEF Claimed
<1>4. TablesOK' /\ InPlace'
  BY <1>1, <1>2 DEF TablesOK, InPlace
<1>5. (Backed(Claimed))'
  BY <1>1, <1>2, <1>3 DEF Backed, BucketStarts
<1>6. TypeOK'
  BY <1>1, <1>2, <1>4 DEF TypeOK, TablesOK
<1>7. \A w \in Workers : (WorkerInv(workers[w]) /\ ToldIsBacked(w))'
  <2>1. TAKE w \in Workers
  <2>2. WorkerInv(workers[w]) /\ ToldIsBacked(w)
    BY DEF CacheInv
  <2>3. ToldIsBacked(w)'
    BY <1>2, <2>2 DEF ToldIsBacked, Backed
  <2>4. QED
    BY <1>2, <2>2, <2>3
<1>8. QED
  BY <1>4, <1>5, <1>6, <1>7 DEF CacheInv

LEMMA RestartInv == CacheInv /\ Restart => CacheInv'
<1> SUFFICES ASSUME CacheInv, Restart PROVE CacheInv'
  OBVIOUS
<1>1. workers' = [w \in Workers |-> Idle]
  BY DEF Restart
<1>2. TablesKept
  BY CacheInvTables, FaultType, UnchangedTables, DroppedTables DEF Restart
<1>3. TypeOK'
  BY <1>1, <1>2, IdleIsWorker DEF TypeOK, TablesKept, TablesOK
<1>4. \A w \in Workers : (WorkerInv(workers[w]) /\ ToldIsBacked(w))'
  BY <1>1, IdleIsWorker DEF ToldIsBacked, Idle
<1>5. QED
  BY <1>2, <1>3, <1>4 DEF CacheInv, TablesKept

LEMMA StepInv == CacheInv /\ [Next]_vars => CacheInv'
<1> SUFFICES ASSUME CacheInv, [Next]_vars PROVE CacheInv'
  OBVIOUS
<1>1. ASSUME NEW w \in Workers, NEW r \in Ranges, ReadCoverage(w, r[1], r[2])
      PROVE  CacheInv'
  BY <1>1, ReadCoverageInv
<1>2. ASSUME NEW w \in Workers, ReadBuckets(w) PROVE CacheInv'
  BY <1>2, ReadBucketsInv
<1>3. ASSUME NEW w \in Workers, Invalidate(w) PROVE CacheInv'
  BY <1>3, InvalidateInv
<1>4. ASSUME NEW w \in Workers, Page(w) PROVE CacheInv'
  BY <1>4, PageInv
<1>5. ASSUME NEW w \in Workers, EmptyPage(w) \/ Interrupted(w) \/ Stop(w)
      PROVE  CacheInv'
  BY <1>5, EndInv DEF EmptyPage, Interrupted, Stop
<1>6. CASE ClearAll
  BY <1>6, ClearAllInv
<1>7. ASSUME NEW blob \in Buckets \cup {Coverage}, Damage(blob) PROVE CacheInv'
  BY <1>7, DamageInv
<1>8. CASE Restart
  BY <1>8, RestartInv
<1>9. CASE UNCHANGED vars
  <2>1. UNCHANGED <<tableVars, workers, faults>>
    BY <1>9 DEF vars
  <2>2. TablesKept /\ KeepsBacked
    BY <2>1, UnchangedTables, CacheInvTables
  <2>3. TypeOK'
    BY <2>1, <2>2, CacheInvTables DEF TypeOK, TablesKept, TablesOK
  <2>4. \A w \in Workers : (WorkerInv(workers[w]) /\ ToldIsBacked(w))'
    BY <2>1 DEF CacheInv, ToldIsBacked, Backed, tableVars
  <2>5. QED
    BY <2>2, <2>3, <2>4 DEF CacheInv, TablesKept
<1>10. QED
  BY <1>1, <1>2, <1>3, <1>4, <1>5, <1>6, <1>7, <1>8, <1>9 DEF Next, WorkerStep

THEOREM AlwaysCacheInv == Spec => []CacheInv
BY InitInv, StepInv, PTL DEF Spec

-----------------------------------------------------------------------------
(* What the runs check *)

(* The tables and the workers keep their types.                            *)
THEOREM TypeCorrect == Spec => []TypeOK
<1>1. CacheInv => TypeOK
  BY DEF CacheInv
<1>2. QED
  BY <1>1, AlwaysCacheInv, PTL

(* Every bucket that coverage points to has a blob.                        *)
THEOREM BucketsAreThere == Spec => []CoveredHasBucket
<1>1. CacheInv => CoveredHasBucket
  BY DEF CacheInv, Backed, CoveredHasBucket
<1>2. QED
  BY <1>1, AlwaysCacheInv, PTL

(* A claimed trade is stored, with the three exceptions it names.          *)
THEOREM ClaimsAreStored == Spec => []CoveredIsStored
<1>1. CacheInv => CoveredIsStored
  BY DEF CacheInv, Backed, CoveredIsStored
<1>2. QED
  BY <1>1, AlwaysCacheInv, PTL

(* The outcome of a worker claims nothing it has not sent.                 *)
THEOREM OutcomesAreHonest == Spec => []OutcomeIsHonest
<1>1. CacheInv => OutcomeIsHonest
  <2> SUFFICES ASSUME CacheInv, NEW w \in Workers,
                      workers[w].phase = "done", ~workers[w].torn,
                      NEW t \in Trades,
                      workers[w].from <= t.time, t.time < workers[w].at,
                      t.time <= workers[w].to
               PROVE  t \in workers[w].cached \cup workers[w].fetched
                              \cup workers[w].missed
    BY DEF OutcomeIsHonest
  <2> DEFINE me == workers[w]
  <2>1. me \in WorkerRecord /\ WorkerInv(me)
    BY CacheInvTables DEF CacheInv
  <2>2. t.time \in Int /\ me.at \in Int
    BY <2>1, TradeFacts DEF WorkerRecord
  <2>3. t.time \in Asked(me)
    BY <2>1, <2>2 DEF Asked, WorkerRecord, Moments
  <2>4. t \notin Unsent(me)
    BY <2>1, <2>2 DEF WorkerInv, UnsentIsAhead
  <2>5. QED
    BY <2>3, <2>4 DEF Unsent
<1>2. QED
  BY <1>1, AlwaysCacheInv, PTL

(* A downloading worker moves on with every page.                          *)
THEOREM PagesDiffer == Spec => NeverAsksTwice
<1> DEFINE MovesOn == \A w \in Workers :
             workers[w].phase = "fetching" /\ workers'[w].phase = "fetching"
               /\ workers'[w] # workers[w]
               => workers'[w].at > workers[w].at
<1>1. CacheInv /\ Next => MovesOn
  <2> SUFFICES ASSUME CacheInv, Next, NEW w \in Workers,
                      workers[w].phase = "fetching", workers'[w].phase = "fetching",
                      workers'[w] # workers[w]
               PROVE  workers'[w].at > workers[w].at
    OBVIOUS
  <2>1. workers \in [Workers -> WorkerRecord] /\ Idle.phase = "idle"
    BY CacheInvTables DEF Idle
  <2>2. \A v \in Workers : \A next : Become(v, next) =>
          v = w /\ workers'[w] = next
    BY <2>1 DEF Become
  <2>3. ASSUME NEW v \in Workers, Page(v)
        PROVE  workers'[w].at > workers[w].at
    <3>1. v = w /\ workers'[w] = Advance(Took(workers[w]), Latest(workers[w]),
                                         Target(workers[w]))
      BY <2>2, <2>3 DEF Page
    <3>2. QED
      BY <2>3, <3>1, PageTables, PageMovesOn
  <2>4. ASSUME NEW v \in Workers, EmptyPage(v) \/ Interrupted(v) \/ Stop(v)
        PROVE  FALSE
    <3>1. (End(workers[w], workers[w].at)).phase = "done"
      BY <2>1 DEF End, WorkerRecord
    <3>2. workers'[w] = End(workers[w], workers[w].at) \/ workers'[w] = Idle
      BY <2>2, <2>4 DEF EmptyPage, Interrupted, Stop
    <3>3. QED
      BY <2>1, <3>1, <3>2
  <2>5. ASSUME NEW v \in Workers,
               (\E r \in Ranges : ReadCoverage(v, r[1], r[2])) \/ ReadBuckets(v)
        PROVE  FALSE
    <3>1. workers[v].phase # "fetching"
      BY <2>5 DEF ReadCoverage, ReadBuckets
    <3>2. v = w
      BY <2>2, <2>5 DEF ReadCoverage, ReadBuckets
    <3>3. QED
      BY <3>1, <3>2
  <2>6. ASSUME NEW v \in Workers, Invalidate(v)
        PROVE  FALSE
    <3>1. v # w
      BY <2>6 DEF Invalidate
    <3>2. workers'[w] = workers[w]
      BY <2>1, <2>6, <3>1 DEF Invalidate, TornBy
    <3>3. QED
      BY <3>2
  <2>7. CASE ClearAll
    BY <2>1, <2>7 DEF ClearAll, TornBy
  <2>8. ASSUME NEW blob, Damage(blob) PROVE FALSE
    BY <2>8 DEF Damage
  <2>9. CASE Restart
    BY <2>1, <2>9 DEF Restart
  <2>10. QED
    BY <2>3, <2>4, <2>5, <2>6, <2>7, <2>8, <2>9 DEF Next, WorkerStep
<1>2. CacheInv /\ [Next]_vars => [MovesOn]_vars
  BY <1>1
<1>3. QED
  BY <1>2, AlwaysCacheInv, PTL DEF Spec, NeverAsksTwice

-----------------------------------------------------------------------------
(* The contract *)

StageOf(me) ==
  CASE me.phase = "idle" -> "away"
    [] me.phase \in {"asking", "invalidating"} -> "asking"
    [] OTHER -> "answered"

(* What the clients of the contract see when one worker becomes next.      *)
LEMMA ClientMoves ==
  ASSUME CacheInv, NEW w \in Workers, NEW next, Become(w, next)
  PROVE  /\ Stage' = [Stage EXCEPT ![w] = StageOf(next)]
         /\ KnownTo' = [KnownTo EXCEPT ![w] = next.known]
         /\ RepliedTo' = [RepliedTo EXCEPT ![w] = next.cached]
         /\ Stage[w] = StageOf(workers[w])
         /\ KnownTo[w] = workers[w].known /\ RepliedTo[w] = workers[w].cached
         /\ Stage'[w] = StageOf(next)
         /\ KnownTo'[w] = next.known /\ RepliedTo'[w] = next.cached
<1>1. workers \in [Workers -> WorkerRecord]
  BY CacheInvTables
<1>2. workers'[w] = next /\ \A v \in Workers \ {w} : workers'[v] = workers[v]
  BY <1>1 DEF Become
<1>3. /\ Stage = [v \in Workers |-> StageOf(workers[v])]
      /\ Stage' = [v \in Workers |-> StageOf(workers'[v])]
  BY DEF Stage, StageOf
<1>4. Stage' = [Stage EXCEPT ![w] = StageOf(next)]
  BY <1>2, <1>3
<1>5. KnownTo' = [KnownTo EXCEPT ![w] = next.known]
  BY <1>2 DEF KnownTo
<1>6. RepliedTo' = [RepliedTo EXCEPT ![w] = next.cached]
  BY <1>2 DEF RepliedTo
<1>7. QED
  BY <1>2, <1>3, <1>4, <1>5, <1>6 DEF KnownTo, RepliedTo

(* They see nothing when its stage and its reply stay what they were.      *)
LEMMA ClientSeesNothing ==
  ASSUME CacheInv, NEW w \in Workers, NEW next, Become(w, next),
         StageOf(next) = StageOf(workers[w]), next.known = workers[w].known,
         next.cached = workers[w].cached
  PROVE  UNCHANGED <<Stage, KnownTo, RepliedTo>>
<1>1. workers \in [Workers -> WorkerRecord]
  BY CacheInvTables
<1>2. workers'[w] = next /\ \A v \in Workers \ {w} : workers'[v] = workers[v]
  BY <1>1 DEF Become
<1>3. \A v \in Workers : /\ StageOf(workers'[v]) = StageOf(workers[v])
                         /\ workers'[v].known = workers[v].known
                         /\ workers'[v].cached = workers[v].cached
  BY <1>2
<1>4. /\ Stage = [v \in Workers |-> StageOf(workers[v])]
      /\ Stage' = [v \in Workers |-> StageOf(workers'[v])]
  BY DEF Stage, StageOf
<1>5. Stage' = Stage
  BY <1>3, <1>4
<1>6. KnownTo' = KnownTo /\ RepliedTo' = RepliedTo
  BY <1>3 DEF KnownTo, RepliedTo
<1>7. QED
  BY <1>5, <1>6

LEMMA TearingIsUnseen ==
  ASSUME NEW ws \in [Workers -> WorkerRecord], workers' = TornBy(ws)
  PROVE  /\ Stage' = [v \in Workers |-> StageOf(ws[v])]
         /\ KnownTo' = [v \in Workers |-> ws[v].known]
         /\ RepliedTo' = [v \in Workers |-> ws[v].cached]
<1>1. \A v \in Workers : /\ workers'[v].phase = ws[v].phase
                         /\ workers'[v].known = ws[v].known
                         /\ workers'[v].cached = ws[v].cached
  BY DEF TornBy, WorkerRecord
<1>2. /\ Stage' = [v \in Workers |-> StageOf(workers'[v])]
      /\ \A v \in Workers : StageOf(workers'[v]) = StageOf(ws[v])
  BY <1>1 DEF Stage, StageOf
<1>3. QED
  BY <1>1, <1>2 DEF KnownTo, RepliedTo

(* A stored page is learned.                                               *)
LEMMA StoreLearns ==
  ASSUME CacheInv, NEW a \in Moments, NEW z \in Moments,
         NEW page \in SUBSET Trades, page # {}, NEW leftOut,
         \A t \in page : t.time \in a..z,
         Store(a..z, page, leftOut),
         UNCHANGED <<Stage, KnownTo, RepliedTo>>
  PROVE  Abstract!Learn
<1> DEFINE S == a..z
           touched == Touched(S, page)
<1>1. /\ present' = present \cup touched
      /\ \A b \in Buckets \ touched : contents'[b] = contents[b]
      /\ \A b \in Buckets \cap touched :
           contents'[b] = (IF Readable(b) THEN contents[b] ELSE {})
                            \cup {t \in page : BucketFor(t.time) = b}
      /\ damaged' = damaged \ (touched \cup {Coverage})
      /\ Claimed' = Claimed \cup (a..z)
  <2>1. Store(S, page, leftOut)
    OBVIOUS
  <2> HIDE DEF S
  <2>2. Claimed' = Claimed \cup S
    BY <2>1, StoreFacts
  <2>3. QED
    BY <2>1, <2>2, StoreFacts DEF S
<1>2. \A t \in page : BucketFor(t.time) \in touched /\ BucketFor(t.time) \in Buckets
  BY BucketFacts, TradeFacts DEF Touched, BucketStarts
<1> HIDE DEF touched
<1>3. ASSUME NEW t, t \in Held
      PROVE  t \in Held'
  <2>1. PICK b \in Buckets : Readable(b) /\ t \in contents[b]
    BY <1>3 DEF Held
  <2>2. t \in contents'[b] /\ Readable(b)'
    BY <2>1, <1>1 DEF Readable
  <2>3. QED
    BY <2>2 DEF Held
<1>4. ASSUME NEW t, t \in Held' \ Held
      PROVE  t \in page
  <2>1. PICK b \in Buckets : Readable(b)' /\ t \in contents'[b]
    BY <1>4 DEF Held
  <2>2. CASE b \notin touched
    <3>1. Readable(b) /\ t \in contents[b]
      BY <2>1, <2>2, <1>1, BucketFacts DEF Readable
    <3>2. QED
      BY <3>1, <1>4 DEF Held
  <2>3. CASE b \in touched
    <3>1. t \in (IF Readable(b) THEN contents[b] ELSE {}) \cup page
      BY <2>1, <2>3, <1>1
    <3>2. QED
      BY <3>1, <1>4 DEF Held
  <2>4. QED
    BY <2>2, <2>3
<1>5. page \subseteq Held'
  <2>1. SUFFICES ASSUME NEW t \in page PROVE t \in Held'
    OBVIOUS
  <2>2. /\ BucketFor(t.time) \in Buckets /\ t \in contents'[BucketFor(t.time)]
        /\ Readable(BucketFor(t.time))'
    BY <1>1, <1>2 DEF Readable
  <2>3. QED
    BY <2>2 DEF Held
<1>6. a \in Abstract!Moments /\ z \in Abstract!Moments
  BY DEF Abstract!Moments, Moments
<1>7. page \subseteq Abstract!At(a..z)
  BY DEF Abstract!At
<1>8. /\ Held \subseteq Held' /\ Held' \ Held \subseteq Abstract!At(a..z)
      /\ Held' \cap Abstract!At(a..z) # {}
  BY <1>3, <1>4, <1>5, <1>7
<1>9. QED
  BY <1>1, <1>6, <1>8 DEF Abstract!Learn, Abstract!clientVars

LEMMA InitRefines == Init => Abstract!ContractInit
<1> SUFFICES ASSUME Init PROVE Abstract!ContractInit
  OBVIOUS
<1>1. \A w \in Workers : workers[w] = Idle
  BY DEF Init
<1>2. Claimed = {} /\ Held = {}
  BY DEF Init, Claimed, Held
<1>3. Idle.phase = "idle" /\ Idle.known = {} /\ Idle.cached = {}
  BY DEF Idle
<1>4. Stage = [c \in Workers |-> "away"]
  BY <1>1, <1>3 DEF Stage
<1>5. KnownTo = [c \in Workers |-> {}] /\ RepliedTo = [c \in Workers |-> {}]
  BY <1>1, <1>3 DEF KnownTo, RepliedTo
<1>6. QED
  BY <1>2, <1>4, <1>5 DEF Abstract!ContractInit

LEMMA ReadCoverageRefines ==
  ASSUME CacheInv, NEW w \in Workers, NEW r \in Ranges, ReadCoverage(w, r[1], r[2])
  PROVE  Abstract!Ask(w) \/ Abstract!Miss(w)
<1> DEFINE me == [Idle EXCEPT !.from = r[1], !.to = r[2]]
           known == Claimed \cap (r[1]..r[2])
<1>1. workers[w].phase = "idle" /\ workers[w] = Idle /\ UNCHANGED tableVars
  BY DEF CacheInv, WorkerInv, BeforeAnswer, ReadCoverage
<1>2. Claimed' = Claimed /\ Held' = Held
  BY <1>1, UnchangedTables, CacheInvTables DEF ReadCoverage
<1>3. Idle.phase = "idle" /\ Idle.known = {} /\ Idle.cached = {}
  BY DEF Idle
<1>4. StageOf(workers[w]) = "away"
  BY <1>1 DEF StageOf
<1>5. CASE \/ Become(w, [me EXCEPT !.phase = "invalidating"])
           \/ Become(w, [me EXCEPT !.phase = "asking", !.known = known])
  <2>1. PICK next : /\ Become(w, next)
                    /\ next.phase \in {"asking", "invalidating"}
                    /\ next.known \subseteq Claimed
                    /\ next.cached = {}
    <3>1. CASE Become(w, [me EXCEPT !.phase = "invalidating"])
      <4> DEFINE next == [me EXCEPT !.phase = "invalidating"]
      <4>1. next.phase = "invalidating" /\ next.known = {} /\ next.cached = {}
        BY DEF Idle
      <4>2. Become(w, next)
        BY <3>1
      <4> HIDE DEF next
      <4>3. QED
        BY <4>1, <4>2
    <3>2. CASE Become(w, [me EXCEPT !.phase = "asking", !.known = known])
      <4> DEFINE next == [me EXCEPT !.phase = "asking", !.known = known]
      <4>1. next.phase = "asking" /\ next.known = known /\ next.cached = {}
        <5> HIDE DEF known
        <5>1. QED
          BY DEF Idle
      <4>2. Become(w, next)
        BY <3>2
      <4> HIDE DEF next
      <4>3. QED
        BY <4>1, <4>2
    <3>3. QED
      BY <1>5, <3>1, <3>2
  <2>2. StageOf(next) = "asking"
    BY <2>1 DEF StageOf
  <2>3. /\ Stage[w] = "away"
        /\ Stage' = [Stage EXCEPT ![w] = "asking"]
        /\ KnownTo'[w] = next.known
        /\ KnownTo' = [KnownTo EXCEPT ![w] = KnownTo'[w]]
    BY <2>1, <2>2, <1>4, ClientMoves
  <2>4. RepliedTo' = RepliedTo
    <3>1. RepliedTo' = [RepliedTo EXCEPT ![w] = {}] /\ RepliedTo[w] = {}
      BY <2>1, <1>1, <1>3, ClientMoves
    <3>2. QED
      BY <3>1 DEF RepliedTo
  <2>5. QED
    BY <1>2, <2>1, <2>3, <2>4 DEF Abstract!Ask
<1>6. CASE Become(w, Answered(me, {}, {}))
  <2> DEFINE next == Answered(me, {}, {})
  <2>1. me \in WorkerRecord /\ me.fetched = {}
    <3>1. r[1] \in Moments /\ r[2] \in Moments
      BY CacheAssumption
    <3>2. QED
      BY <3>1, IdleIsWorker DEF WorkerRecord, Idle
  <2>2. next.phase \in {"fetching", "done"} /\ next.known = {} /\ next.cached = {}
    <3> HIDE DEF me
    <3>1. {} \in SUBSET Asked(me) /\ {} \in SUBSET Trades /\ TypeOK
      BY DEF CacheInv
    <3>2. QED
      BY <2>1, <3>1, AnsweredFacts
  <2>3. Become(w, next)
    BY <1>6
  <2> HIDE DEF next
  <2>4. StageOf(next) = "answered"
    BY <2>2 DEF StageOf
  <2>5. /\ Stage[w] = "away"
        /\ Stage' = [Stage EXCEPT ![w] = "answered"]
        /\ KnownTo' = [KnownTo EXCEPT ![w] = {}]
        /\ RepliedTo' = [RepliedTo EXCEPT ![w] = {}] /\ RepliedTo[w] = {}
    BY <2>2, <2>3, <2>4, <1>1, <1>3, <1>4, ClientMoves
  <2>6. RepliedTo' = RepliedTo
    BY <2>5 DEF RepliedTo
  <2>7. QED
    BY <1>2, <2>5, <2>6 DEF Abstract!Miss
<1>7. QED
  BY <1>5, <1>6 DEF ReadCoverage

LEMMA ReadBucketsRefines ==
  ASSUME CacheInv, NEW w \in Workers, ReadBuckets(w)
  PROVE  Abstract!Reply(w) \/ UNCHANGED Abstract!contractVars
<1> DEFINE me == workers[w]
           required == Required(me.known)
           bad == {b \in required : ~Readable(b)}
           cached == {t \in UNION {contents[b] : b \in required} :
                        t.time \in Asked(me)}
<1>1. me \in WorkerRecord /\ WorkerInv(me) /\ me.phase = "asking"
        /\ InPlace /\ TablesOK /\ TypeOK
  BY CacheInvTables DEF CacheInv, ReadBuckets
<1>2. /\ me.known \in SUBSET Moments /\ me.known \subseteq Asked(me)
      /\ me.fetched = {} /\ me.cached = {}
  BY <1>1 DEF WorkerInv, BeforeAnswer, WorkerRecord
<1>3. Claimed' = Claimed /\ Held' = Held
  BY UnchangedTables, CacheInvTables DEF ReadBuckets
<1>4. StageOf(me) = "asking"
  BY <1>1 DEF StageOf
<1>5. required \in SUBSET Buckets
  BY <1>2, BucketFacts DEF Required
<1>6. cached \in SUBSET Trades
  BY <1>1, <1>5 DEF TablesOK
<1>7. CASE bad = {}
  <2> DEFINE next == Answered(me, me.known, cached)
  <2>1. Become(w, next)
    BY <1>7 DEF ReadBuckets
  <2>2. next.phase \in {"fetching", "done"} /\ next.known = me.known
          /\ next.cached = cached
    <3> HIDE DEF cached
    <3>1. QED
      BY <1>1, <1>2, <1>6, AnsweredFacts
  <2>3. Held \cap Abstract!At(me.known) \subseteq cached
    <3>1. SUFFICES ASSUME NEW t \in Held, t \in Abstract!At(me.known)
                   PROVE  t \in cached
      OBVIOUS
    <3>2. t.time \in me.known /\ BucketFor(t.time) \in required
      BY <3>1 DEF Abstract!At, Required, BucketStarts
    <3>3. t \in contents[BucketFor(t.time)]
      BY <1>1, HeldFacts
    <3>4. QED
      BY <3>2, <3>3, <1>2
  <2>4. cached \subseteq Held
    <3>1. \A b \in required : b \in Buckets /\ Readable(b)
      BY <1>5, <1>7
    <3>2. QED
      BY <3>1 DEF Held
  <2> HIDE DEF next, cached
  <2>5. StageOf(next) = "answered"
    BY <2>2 DEF StageOf
  <2>6. /\ Stage[w] = "asking" /\ KnownTo[w] = me.known
        /\ Stage' = [Stage EXCEPT ![w] = "answered"]
        /\ KnownTo' = [KnownTo EXCEPT ![w] = me.known]
        /\ RepliedTo' = [RepliedTo EXCEPT ![w] = cached] /\ RepliedTo'[w] = cached
    BY <2>1, <2>2, <2>5, <1>4, ClientMoves
  <2>7. KnownTo' = KnownTo
    BY <2>6 DEF KnownTo
  <2>8. QED
    BY <1>3, <2>3, <2>4, <2>6, <2>7 DEF Abstract!Reply
<1>8. CASE bad # {}
  <2> DEFINE next == [me EXCEPT !.phase = "invalidating", !.bad = {First(bad)}]
  <2>1. Become(w, next)
    BY <1>8 DEF ReadBuckets
  <2> HIDE DEF bad
  <2>2. /\ next.phase = "invalidating" /\ next.cached = me.cached
        /\ next.known = me.known
    BY <1>1 DEF WorkerRecord
  <2> HIDE DEF next
  <2>3. StageOf(next) = StageOf(me)
    BY <2>2, <1>4 DEF StageOf
  <2>4. UNCHANGED <<Stage, KnownTo, RepliedTo>>
    BY <2>1, <2>2, <2>3, ClientSeesNothing
  <2>5. QED
    BY <1>3, <2>4 DEF Abstract!contractVars
<1>9. QED
  BY <1>7, <1>8

LEMMA InvalidateRefines ==
  ASSUME CacheInv, NEW w \in Workers, Invalidate(w)
  PROVE  Abstract!Miss(w)
<1> DEFINE me == workers[w]
           next == Answered(me, {}, {})
           ws == [workers EXCEPT ![w] = next]
<1>1. /\ me \in WorkerRecord /\ WorkerInv(me) /\ me.phase = "invalidating"
      /\ workers \in [Workers -> WorkerRecord] /\ TypeOK /\ TablesOK /\ InPlace
  BY CacheInvTables DEF CacheInv, Invalidate
<1>2. /\ me.fetched = {} /\ me.cached = {}
      /\ {} \in SUBSET Asked(me) /\ {} \in SUBSET Trades
  BY <1>1 DEF WorkerInv, BeforeAnswer
<1>3. /\ next \in WorkerRecord /\ next.phase \in {"fetching", "done"}
      /\ next.known = {} /\ next.cached = {}
  BY <1>1, <1>2, AnsweredFacts
<1>4. StageOf(me) = "asking" /\ StageOf(next) = "answered"
  BY <1>1, <1>3 DEF StageOf
<1> HIDE DEF next
<1>5. ws \in [Workers -> WorkerRecord] /\ ws[w] = next
        /\ \A v \in Workers \ {w} : ws[v] = workers[v]
  BY <1>1, <1>3
<1>6. CASE Drop(me.bad) /\ workers' = TornBy(ws)
  <2>1. Claimed' = {} /\ Held' \subseteq Held
    BY <1>1, <1>6, DropFacts
  <2>2. /\ Stage' = [v \in Workers |-> StageOf(ws[v])]
        /\ KnownTo' = [v \in Workers |-> ws[v].known]
        /\ RepliedTo' = [v \in Workers |-> ws[v].cached]
    BY <1>5, <1>6, TearingIsUnseen
  <2>3. Stage = [v \in Workers |-> StageOf(workers[v])]
    BY DEF Stage, StageOf
  <2> HIDE DEF ws
  <2>4. /\ Stage[w] # "answered"
        /\ Stage' = [Stage EXCEPT ![w] = "answered"]
    BY <2>2, <2>3, <1>4, <1>5
  <2>5. KnownTo' = [KnownTo EXCEPT ![w] = {}] /\ RepliedTo' = RepliedTo
    BY <2>2, <1>2, <1>3, <1>5 DEF KnownTo, RepliedTo
  <2>6. QED
    BY <2>1, <2>4, <2>5 DEF Abstract!Miss
<1>7. CASE WriteFails /\ workers' = ws
  <2>1. UNCHANGED tableVars /\ faults' \in Nat
    BY <1>7, FaultType, CacheInvTables DEF WriteFails
  <2>2. Claimed' = Claimed /\ Held' = Held
    BY <2>1, UnchangedTables
  <2>3. Become(w, next)
    BY <1>7 DEF Become
  <2>4. /\ Stage[w] # "answered"
        /\ Stage' = [Stage EXCEPT ![w] = "answered"]
        /\ KnownTo' = [KnownTo EXCEPT ![w] = {}]
        /\ RepliedTo' = [RepliedTo EXCEPT ![w] = {}] /\ RepliedTo[w] = {}
    BY <2>3, <1>2, <1>3, <1>4, ClientMoves
  <2>5. RepliedTo' = RepliedTo
    BY <2>4 DEF RepliedTo
  <2>6. QED
    BY <2>2, <2>4, <2>5 DEF Abstract!Miss
<1>8. QED
  BY <1>6, <1>7 DEF Invalidate, next

LEMMA PageRefines ==
  ASSUME CacheInv, NEW w \in Workers, Page(w)
  PROVE  Abstract!Learn \/ UNCHANGED Abstract!contractVars
<1> DEFINE me == workers[w]
           next == Advance(Took(me), Latest(me), Target(me))
<1>1. /\ me \in WorkerRecord /\ WorkerInv(me) /\ InFirstGap(me)
      /\ me.phase = "fetching" /\ PageFrom(me.at) # {}
  BY PageTables
<1>2. /\ next.phase \in {"fetching", "done"}
      /\ next.known = me.known /\ next.cached = me.cached
  BY <1>1, PageMovesOn
<1>3. Become(w, next)
  BY DEF Page
<1> HIDE DEF next
<1>4. StageOf(me) = "answered" /\ StageOf(next) = "answered"
  BY <1>1, <1>2 DEF StageOf
<1>5. UNCHANGED <<Stage, KnownTo, RepliedTo>>
  BY <1>2, <1>3, <1>4, ClientSeesNothing
<1>6. CASE Store(Stored(me), Batch(me), Cut(me) \cup Overlap(me)) /\ Batch(me) # {}
  <2> DEFINE z == IF Latest(me) < Target(me) THEN Latest(me) ELSE Target(me)
  <2>1. /\ me.at \in Moments /\ Target(me) \in Moments
    BY <1>1, WhereItStands
  <2>2. z \in Moments
    BY <1>1, <2>1, PageFacts DEF Latest
  <2>3. Stored(me) = me.at..z
    BY DEF Stored
  <2>4. Batch(me) \in SUBSET Trades /\ \A t \in Batch(me) : t.time \in Stored(me)
    BY <1>1, PageCovers
  <2> HIDE DEF z
  <2>5. Abstract!Learn
    BY <1>5, <1>6, <2>1, <2>2, <2>3, <2>4, StoreLearns
  <2>6. QED
    BY <2>5
<1>7. CASE UNCHANGED tableVars
  <2>1. Claimed' = Claimed /\ Held' = Held
    BY <1>7 DEF tableVars, Claimed, Held, Readable
  <2>2. QED
    BY <1>5, <2>1 DEF Abstract!contractVars
<1>8. QED
  BY <1>6, <1>7 DEF Page, Store, WorthStoring, WriteFails

LEMMA EndRefines ==
  ASSUME CacheInv, UNCHANGED <<tableVars, faults>>, NEW w \in Workers,
         \/ Become(w, Idle)
         \/ workers[w].phase = "fetching" /\ Become(w, End(workers[w], workers[w].at))
  PROVE  Abstract!Leave(w) \/ UNCHANGED Abstract!contractVars
<1> DEFINE me == workers[w]
           next == End(me, me.at)
<1>1. Claimed' = Claimed /\ Held' = Held
  BY DEF tableVars, Claimed, Held, Readable
<1>2. CASE Become(w, Idle)
  <2>1. Idle.known = {} /\ Idle.cached = {} /\ StageOf(Idle) = "away"
    BY DEF Idle, StageOf
  <2>2. /\ Stage' = [Stage EXCEPT ![w] = "away"]
        /\ KnownTo' = [KnownTo EXCEPT ![w] = {}]
        /\ RepliedTo' = [RepliedTo EXCEPT ![w] = {}]
    BY <1>2, <2>1, ClientMoves
  <2>3. QED
    BY <1>1, <2>2 DEF Abstract!Leave
<1>3. CASE me.phase = "fetching" /\ Become(w, next)
  <2>1. me \in WorkerRecord /\ me.at \in 0..(LastMoment + 1)
    BY CacheInvTables DEF WorkerRecord
  <2>2. next.phase = "done" /\ next.known = me.known /\ next.cached = me.cached
    BY <2>1, EndFacts
  <2> HIDE DEF next
  <2>3. StageOf(me) = StageOf(next)
    BY <1>3, <2>2 DEF StageOf
  <2>4. UNCHANGED <<Stage, KnownTo, RepliedTo>>
    BY <1>3, <2>2, <2>3, ClientSeesNothing
  <2>5. QED
    BY <1>1, <2>4 DEF Abstract!contractVars
<1>4. QED
  BY <1>2, <1>3

LEMMA ClearAllRefines == CacheInv /\ ClearAll => Abstract!Forget
<1> SUFFICES ASSUME CacheInv, ClearAll PROVE Abstract!Forget
  OBVIOUS
<1>1. Claimed' = {} /\ Held' \subseteq Held
  BY CacheInvTables, DropFacts DEF ClearAll
<1>2. workers \in [Workers -> WorkerRecord] /\ workers' = TornBy(workers)
  BY CacheInvTables DEF ClearAll
<1>3. UNCHANGED <<Stage, KnownTo, RepliedTo>>
  BY <1>2, TearingIsUnseen DEF Stage, StageOf, KnownTo, RepliedTo
<1>4. QED
  BY <1>1, <1>3 DEF Abstract!Forget, Abstract!clientVars

LEMMA DamageRefines ==
  ASSUME CacheInv, NEW blob \in Buckets \cup {Coverage}, Damage(blob)
  PROVE  Abstract!Forget \/ Abstract!Lose
<1>1. UNCHANGED <<Stage, KnownTo, RepliedTo>>
  BY DEF Damage, Stage, KnownTo, RepliedTo
<1>2. /\ coverage' = coverage /\ present' = present /\ contents' = contents
      /\ damaged' = damaged \cup {blob}
  BY DEF Damage
<1>3. Held' \subseteq Held
  BY <1>2 DEF Held, Readable
<1>4. CASE blob = Coverage
  <2>1. Claimed' = {}
    BY <1>2, <1>4 DEF Claimed
  <2>2. QED
    BY <1>1, <1>3, <2>1 DEF Abstract!Forget, Abstract!clientVars
<1>5. CASE blob # Coverage
  <2>1. Claimed' = Claimed
    BY <1>2, <1>5 DEF Claimed
  <2>2. QED
    BY <1>1, <1>3, <2>1 DEF Abstract!Lose, Abstract!clientVars
<1>6. QED
  BY <1>4, <1>5

LEMMA RestartRefines == CacheInv /\ Restart => Abstract!Restart
<1> SUFFICES ASSUME CacheInv, Restart PROVE Abstract!Restart
  OBVIOUS
<1>1. Idle.known = {} /\ Idle.cached = {} /\ Idle.phase = "idle"
  BY DEF Idle
<1>2. \A w \in Workers : workers'[w] = Idle
  BY DEF Restart
<1>3. Stage' = [c \in Workers |-> "away"]
  BY <1>1, <1>2 DEF Stage
<1>4. /\ KnownTo' = [c \in Workers |-> {}]
      /\ RepliedTo' = [c \in Workers |-> {}]
  BY <1>1, <1>2 DEF KnownTo, RepliedTo
<1>5. \/ Claimed' = Claimed /\ Held' = Held
      \/ Claimed' = {} /\ Held' = {}
  BY CacheInvTables, DropFacts DEF Restart, tableVars, Claimed, Held, Readable
<1>6. QED
  BY <1>3, <1>4, <1>5 DEF Abstract!Restart

(* The cache implements its contract: whatever the interleaving, what is   *)
(* known grows with the records that back it, is given up as a whole, and  *)
(* a reply brings every record held of the moments it calls covered.       *)
THEOREM Implements == Spec => Contract
<1>1. CacheInv /\ [Next]_vars => [Abstract!ContractNext]_(Abstract!contractVars)
  <2> SUFFICES ASSUME CacheInv, [Next]_vars
               PROVE  Abstract!ContractNext \/ UNCHANGED Abstract!contractVars
    OBVIOUS
  <2>1. ASSUME NEW w \in Workers, NEW r \in Ranges, ReadCoverage(w, r[1], r[2])
        PROVE  Abstract!ContractNext
    BY <2>1, ReadCoverageRefines DEF Abstract!ContractNext
  <2>2. ASSUME NEW w \in Workers, ReadBuckets(w)
        PROVE  Abstract!ContractNext \/ UNCHANGED Abstract!contractVars
    BY <2>2, ReadBucketsRefines DEF Abstract!ContractNext
  <2>3. ASSUME NEW w \in Workers, Invalidate(w)
        PROVE  Abstract!ContractNext
    BY <2>3, InvalidateRefines DEF Abstract!ContractNext
  <2>4. ASSUME NEW w \in Workers, Page(w)
        PROVE  Abstract!ContractNext \/ UNCHANGED Abstract!contractVars
    BY <2>4, PageRefines DEF Abstract!ContractNext
  <2>5. ASSUME NEW w \in Workers, EmptyPage(w) \/ Interrupted(w) \/ Stop(w)
        PROVE  Abstract!ContractNext \/ UNCHANGED Abstract!contractVars
    <3>1. /\ UNCHANGED <<tableVars, faults>>
          /\ \/ Become(w, Idle)
             \/ /\ workers[w].phase = "fetching"
                /\ Become(w, End(workers[w], workers[w].at))
      BY <2>5 DEF EmptyPage, Interrupted, Stop
    <3>2. QED
      BY <3>1, EndRefines DEF Abstract!ContractNext
  <2>6. CASE ClearAll
    BY <2>6, ClearAllRefines DEF Abstract!ContractNext
  <2>7. ASSUME NEW blob \in Buckets \cup {Coverage}, Damage(blob)
        PROVE  Abstract!ContractNext
    BY <2>7, DamageRefines DEF Abstract!ContractNext
  <2>8. CASE Restart
    BY <2>8, RestartRefines DEF Abstract!ContractNext
  <2>9. CASE UNCHANGED vars
    BY <2>9 DEF vars, tableVars, Abstract!contractVars, Claimed, Held, Readable,
                Stage, KnownTo, RepliedTo
  <2>10. QED
    BY <2>1, <2>2, <2>3, <2>4, <2>5, <2>6, <2>7, <2>8, <2>9 DEF Next, WorkerStep
<1>2. QED
  BY <1>1, InitRefines, AlwaysCacheInv, PTL DEF Spec, Contract, Abstract!Contract
=============================================================================
