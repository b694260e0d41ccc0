----------------------- MODULE IcebergDetectorProofs -----------------------
(***************************************************************************)
(* The detector of replenished bids, for any market, any bounds and any    *)
(* use of its registry: its state is well formed, its levels are never     *)
(* stale, it does not detect while the depth stream is out of step, and    *)
(* what it counts as refilled was added.                                   *)
(***************************************************************************)
EXTENDS IcebergDetector, SequenceTheorems, TradeRangesProofs, TLAPS

-----------------------------------------------------------------------------
(* Types *)

Quantities == {b \in [Prices -> Nat] : \A p \in Prices : b[p] <= MaxQty[p]}
Totals == [Prices -> Nat]

Trades == [type: {"Trade"}, at: Times, price: Prices, change: Nat]

Books == [type: {"Book"}, at: Times, boundary: BOOLEAN, id: Nat, prices: SUBSET Prices,
          book: Quantities, added: Totals, change: Nat]

Told == [type: {"Quality"}, at: Times, quality: {"Synchronizing", "Healthy"}]

Breaks(source) == [type: {"Break"}, quality: {"Gap", "Degraded"}, source: {source}]

DepthEvent == Books \cup Told \cup Breaks("depth")
TradeEvent == Trades \cup Breaks("trade")
Buffered == Trades \cup Books \cup Told
Entry == [event: Buffered, recv: Nat]

Detectors ==
  [quality: Qualities, levels: [Prices -> Level \cup {NoLevel}],
   episodes: [Prices -> Episode \cup {NoEpisode}], trades: Seq(Times), touches: Seq(Times),
   seen: SUBSET Nat]

DetectorOK(d) ==
  /\ d \in Detectors
  /\ Len(d.trades) <= MaxSamples /\ Len(d.touches) <= MaxSamples
  /\ Cardinality(Open(d)) <= MaxEpisodes

IsBook(e) == e.type = "Book"
IsBreak(e) == e.type = "Break"
IsBoundary(e) == e.type = "Book" /\ e.boundary
IsHealthy(e) == e.type = "Quality" /\ e.quality = "Healthy"

TypeInv ==
  /\ now \in Times /\ changedAt \in Times /\ changedAt <= now
  /\ changes \in Nat /\ updateId \in Nat /\ breaks \in Nat
  /\ market \in Quantities /\ added \in Totals /\ changed \in SUBSET Prices
  /\ feed \in {"down", "syncing", "live"}
  /\ depthQueue \in Seq(DepthEvent) /\ tradeQueue \in Seq(TradeEvent)
  /\ buffer \in Seq(Entry) /\ Len(buffer) <= MaxReorder /\ latest \in Times
  /\ consumed \in BOOLEAN /\ toggles \in Nat /\ releasedAt \in Nat /\ missed \in BOOLEAN
  /\ resyncing \in BOOLEAN
  /\ seenBook \in Totals
  /\ seenChange \in [trade: Nat, book: Nat, added: Totals, disordered: BOOLEAN]
  /\ DetectorOK(detector)

-----------------------------------------------------------------------------
(* What an event makes of the detector *)

(* Episodes only end.                                                      *)
Fewer(d, e) == \A p \in Prices : e.episodes[p] \in {d.episodes[p], NoEpisode}

LEMMA OpenIsFinite ==
  ASSUME NEW d
  PROVE  IsFiniteSet(Open(d)) /\ Cardinality(Open(d)) \in Nat
<1>1. Open(d) \in SUBSET Prices
  BY DEF Open
<1>2. QED
  BY <1>1, DetectorAssumption, FS_Subset, FS_CardinalityType DEF DetectorAssumption

LEMMA FewerOpen ==
  ASSUME NEW d, NEW e, Open(e) \subseteq Open(d), Cardinality(Open(d)) <= MaxEpisodes
  PROVE  Cardinality(Open(e)) <= MaxEpisodes
<1>1. Cardinality(Open(e)) <= Cardinality(Open(d))
  BY OpenIsFinite, FS_Subset
<1>2. QED
  BY <1>1, OpenIsFinite, DetectorAssumption DEF DetectorAssumption

LEMMA ExpiredIs ==
  ASSUME NEW d, DetectorOK(d), NEW at \in Times
  PROVE  /\ DetectorOK(Expired(d, at))
         /\ Expired(d, at).levels = d.levels /\ Expired(d, at).quality = d.quality
         /\ Expired(d, at).seen = d.seen
         /\ Fewer(d, Expired(d, at)) /\ Open(Expired(d, at)) \subseteq Open(d)
<1> DEFINE x == Expired(d, at)
<1>1. /\ d.episodes \in [Prices -> Episode \cup {NoEpisode}]
      /\ d \in Detectors
  BY DEF DetectorOK, Detectors
<1>2. /\ x = [d EXCEPT !.episodes = x.episodes]
      /\ x.episodes = [p \in Prices |->
           IF p \in Open(d) /\ (\/ at - d.episodes[p].last > IdleTimeout
                                \/ at - d.episodes[p].started > MaxDuration)
           THEN NoEpisode ELSE d.episodes[p]]
  BY <1>1 DEF Expired, Detectors
<1>3. /\ x.episodes \in [Prices -> Episode \cup {NoEpisode}]
      /\ Fewer(d, x)
  BY <1>1, <1>2 DEF Fewer
<1>4. /\ x \in Detectors /\ x.levels = d.levels /\ x.quality = d.quality /\ x.seen = d.seen
      /\ x.trades = d.trades /\ x.touches = d.touches
  <2> HIDE DEF x
  <2> QED
    BY <1>1, <1>2, <1>3 DEF Detectors
<1>5. Open(x) \subseteq Open(d)
  BY <1>3 DEF Fewer, Open
<1>6. QED
  BY <1>3, <1>4, <1>5, FewerOpen DEF DetectorOK

LEMMA RecentIs ==
  ASSUME NEW s \in Seq(Times), NEW at \in Times
  PROVE  Recent(s, at) \in Seq(Times) /\ Len(Recent(s, at)) <= Len(s)
<1> DEFINE young == {i \in 1..Len(s) : at - s[i] <= RollingWindow}
           first == CHOOSE i \in young : \A j \in young : i <= j
<1>1. CASE young = {}
  BY <1>1, EmptySeq DEF Recent
<1>2. CASE young # {}
  <2>1. Len(s) \in Nat /\ young \in SUBSET (1..Len(s))
    OBVIOUS
  <2>2. \E i \in young : \A j \in young : i <= j
    <3> HIDE DEF young
    <3>1. Len(s) \in Int /\ 1 \in Int
      BY <2>1
    <3>2. QED
      BY <1>2, <2>1, <3>1, BoundedHasEnds
  <2>3. first \in young
    BY <2>2
  <2>4. first \in 1..Len(s)
    BY <2>1, <2>3
  <2>5. \A i \in first..Len(s) : s[i] \in Times
    BY <2>1, <2>4, ElementOfSeq
  <2>6. /\ SubSeq(s, first, Len(s)) \in Seq(Times)
        /\ Len(SubSeq(s, first, Len(s))) = IF first <= Len(s) THEN Len(s) - first + 1 ELSE 0
    <3> HIDE DEF first, young
    <3> QED
      BY <2>1, <2>4, <2>5, SubSeqProperties
  <2>7. Recent(s, at) = SubSeq(s, first, Len(s))
    BY <1>2 DEF Recent
  <2> HIDE DEF first
  <2>8. QED
    BY <2>1, <2>4, <2>6, <2>7
<1>3. QED
  BY <1>1, <1>2

LEMMA SampledIs ==
  ASSUME NEW s \in Seq(Times), Len(s) <= MaxSamples, NEW at \in Times, MaxSamples > 0
  PROVE  Sampled(s, at) \in Seq(Times) /\ Len(Sampled(s, at)) <= MaxSamples
<1>1. MaxSamples \in Nat
  BY DetectorAssumption DEF DetectorAssumption
<1>2. CASE Len(s) = MaxSamples
  <2>1. s # <<>>
    BY <1>1, <1>2, EmptySeq
  <2>2. Tail(s) \in Seq(Times) /\ Len(Tail(s)) = Len(s) - 1
    BY <2>1, HeadTailProperties
  <2>3. QED
    BY <1>1, <1>2, <2>2, AppendProperties DEF Sampled
<1>3. CASE Len(s) # MaxSamples
  <2>1. Len(s) \in Nat
    OBVIOUS
  <2>2. QED
    BY <1>1, <1>3, <2>1, AppendProperties DEF Sampled
<1>4. QED
  BY <1>2, <1>3

LEMMA SamplesExist == MaxSamples > 0 /\ MaxSamples \in Nat
  BY DetectorAssumption DEF DetectorAssumption

LEMMA OlderSamples ==
  ASSUME NEW s \in Seq(Times), Len(s) <= MaxSamples, NEW at \in Times
  PROVE  Recent(s, at) \in Seq(Times) /\ Len(Recent(s, at)) <= MaxSamples
<1>1. Recent(s, at) \in Seq(Times) /\ Len(Recent(s, at)) <= Len(s)
  BY RecentIs
<1>2. Len(s) \in Nat /\ Len(Recent(s, at)) \in Nat
  BY <1>1
<1>3. QED
  BY <1>1, <1>2, SamplesExist

LEMMA FreshSamples ==
  ASSUME NEW s \in Seq(Times), Len(s) <= MaxSamples, NEW at \in Times
  PROVE  /\ Recent(Sampled(s, at), at) \in Seq(Times)
         /\ Len(Recent(Sampled(s, at), at)) <= MaxSamples
<1>1. Sampled(s, at) \in Seq(Times) /\ Len(Sampled(s, at)) <= MaxSamples
  BY SampledIs, SamplesExist
<1>2. QED
  BY <1>1, OlderSamples

(* The samples change, and nothing else.                                   *)
SameButSamples(d, x) ==
  /\ x.levels = d.levels /\ x.quality = d.quality /\ x.seen = d.seen /\ x.episodes = d.episodes

LEMMA WithTradeIs ==
  ASSUME NEW d, DetectorOK(d), NEW at \in Times
  PROVE  DetectorOK(WithTrade(d, at)) /\ SameButSamples(d, WithTrade(d, at))
<1> DEFINE x == WithTrade(d, at)
           t == Recent(Sampled(d.trades, at), at)
           u == Recent(d.touches, at)
<1>1. d \in Detectors /\ Len(d.trades) <= MaxSamples /\ Len(d.touches) <= MaxSamples
      /\ d.trades \in Seq(Times) /\ d.touches \in Seq(Times)
  BY DEF DetectorOK, Detectors
<1>2. t \in Seq(Times) /\ Len(t) <= MaxSamples
  BY <1>1, FreshSamples
<1>3. u \in Seq(Times) /\ Len(u) <= MaxSamples
  BY <1>1, OlderSamples
<1>4. x = [d EXCEPT !.trades = t, !.touches = u]
  BY DEF WithTrade
<1> HIDE DEF x, t, u
<1>5. /\ x \in Detectors /\ x.trades = t /\ x.touches = u /\ SameButSamples(d, x)
  BY <1>1, <1>2, <1>3, <1>4 DEF Detectors, SameButSamples
<1>6. Open(x) = Open(d)
  BY <1>5 DEF Open, SameButSamples
<1>7. QED
  BY <1>2, <1>3, <1>5, <1>6 DEF DetectorOK, x

LEMMA WithTouchIs ==
  ASSUME NEW d, DetectorOK(d), NEW at \in Times
  PROVE  DetectorOK(WithTouch(d, at)) /\ SameButSamples(d, WithTouch(d, at))
<1> DEFINE x == WithTouch(d, at)
           t == Recent(d.trades, at)
           u == Recent(Sampled(d.touches, at), at)
<1>1. d \in Detectors /\ Len(d.trades) <= MaxSamples /\ Len(d.touches) <= MaxSamples
      /\ d.trades \in Seq(Times) /\ d.touches \in Seq(Times)
  BY DEF DetectorOK, Detectors
<1>2. t \in Seq(Times) /\ Len(t) <= MaxSamples
  BY <1>1, OlderSamples
<1>3. u \in Seq(Times) /\ Len(u) <= MaxSamples
  BY <1>1, FreshSamples
<1>4. x = d \/ x = [d EXCEPT !.trades = t, !.touches = u]
  BY DEF WithTouch
<1> HIDE DEF x, t, u
<1>5. /\ x \in Detectors /\ SameButSamples(d, x)
      /\ Len(x.trades) <= MaxSamples /\ Len(x.touches) <= MaxSamples
  BY <1>1, <1>2, <1>3, <1>4 DEF Detectors, SameButSamples
<1>6. Open(x) = Open(d)
  BY <1>5 DEF Open, SameButSamples
<1>7. QED
  BY <1>5, <1>6 DEF DetectorOK, x

LEMMA QuantityIs ==
  /\ \A q \in UNION {Qty(p) : p \in Prices} : q \in Nat
  /\ \A p \in Prices, q \in Nat : q <= MaxQty[p] => q \in UNION {Qty(r) : r \in Prices}
  BY DetectorAssumption DEF DetectorAssumption, Qty

LEMMA LevelIs ==
  /\ NoLevel \notin Level /\ NoEpisode \notin Episode
  /\ \A l \in Level : l.visible \in Nat /\ l.pending \in Nat
<1>1. Level \subseteq [visible: Nat, pending: Nat]
  BY QuantityIs DEF Level
<1>2. Episode \subseteq [started: Nat, last: Nat, replenished: Nat, base: Nat]
  BY DEF Episode, Times
<1>3. QED
  BY <1>1, <1>2, DetectorAssumption DEF DetectorAssumption

IsTrade(e) == e.type = "Trade"

(* What an event makes of a level, of an episode and of the rest.          *)
LevelEffect(d, e, x, p) ==
  IF IsBook(e) /\ e.id \notin d.seen
  THEN x.levels[p] # NoLevel =>
         \/ p \in e.prices /\ x.levels[p] = [visible |-> e.book[p], pending |-> 0]
         \/ p \notin e.prices /\ ~e.boundary /\ x.levels[p] = d.levels[p]
  ELSE /\ x.levels[p] = NoLevel <=> d.levels[p] = NoLevel
       /\ d.levels[p] # NoLevel =>
            /\ x.levels[p].visible = d.levels[p].visible
            /\ \/ x.levels[p].pending = d.levels[p].pending
               \/ IsTrade(e) /\ p = e.price /\ x.levels[p].pending = d.levels[p].pending + 1

EpisodeEffect(d, e, x, p) ==
  \/ /\ p \in Open(d) /\ x.episodes[p].base = d.episodes[p].base
     /\ \/ x.episodes[p].replenished = d.episodes[p].replenished
        \/ /\ IsBook(e) /\ e.id \notin d.seen /\ ~e.boundary
           /\ p \in e.prices /\ d.levels[p] # NoLevel
           /\ x.episodes[p].replenished =
                d.episodes[p].replenished + Replenished(d.levels[p], e.book[p])
  \/ /\ IsTrade(e) /\ p = e.price
     /\ x.episodes[p].replenished = 0 /\ x.episodes[p].base = seenChange.added[p]

Effect(d, e, x) ==
  /\ x.seen = IF IsBook(e) THEN d.seen \cup {e.id} ELSE d.seen
  /\ d.quality # "Healthy" /\ ~IsBook(e) /\ ~IsHealthy(e)
       => x.quality # "Healthy" /\ Open(x) \subseteq Open(d)
  /\ \A p \in Prices : LevelEffect(d, e, x, p)
  /\ \A p \in Open(x) : EpisodeEffect(d, e, x, p)

(* A detector that differs in nothing but samples and ended episodes.      *)
Worn(d, t) ==
  /\ t.levels = d.levels /\ t.quality = d.quality /\ t.seen = d.seen
  /\ Fewer(d, t)

LEMMA WornTrade ==
  ASSUME NEW d, DetectorOK(d), NEW at \in Times
  PROVE  LET t == WithTrade(Expired(d, at), at) IN DetectorOK(t) /\ Worn(d, t)
  BY ExpiredIs, WithTradeIs DEF Worn, SameButSamples, Fewer

LEMMA HitIs ==
  ASSUME NEW d, DetectorOK(d), NEW e \in Trades, seenChange.added \in Totals,
         d.levels[e.price] # NoLevel
  PROVE  LET x == WithHit(d, e)
         IN  /\ DetectorOK(x) /\ x.quality = d.quality /\ x.seen = d.seen
             /\ \A p \in Prices : LevelEffect(d, e, x, p)
             /\ \A p \in Open(x) : EpisodeEffect(d, e, x, p)
<1> DEFINE x == WithHit(d, e)
           r == e.price
           level == [d.levels[r] EXCEPT !.pending = @ + 1]
           L == [d.levels EXCEPT ![r] = level]
           h == [d EXCEPT !.levels = L]
<1>1. /\ d \in Detectors /\ d.levels \in [Prices -> Level \cup {NoLevel}]
      /\ d.episodes \in [Prices -> Episode \cup {NoEpisode}]
      /\ r \in Prices /\ d.levels[r] \in Level /\ e.at \in Times
  BY DEF DetectorOK, Detectors, Trades
<1>2. /\ level \in Level /\ level.visible = d.levels[r].visible
      /\ level.pending = d.levels[r].pending + 1
  BY <1>1 DEF Level
<1>3. h = [d EXCEPT !.levels[r].pending = @ + 1]
  BY <1>1
<1> HIDE DEF level
<1>4. L \in [Prices -> Level \cup {NoLevel}] /\ L[r] = level
      /\ \A p \in Prices : p # r => L[p] = d.levels[p]
  BY <1>1, <1>2
<1> HIDE DEF L
<1>5. /\ h \in Detectors /\ h.levels = L /\ h.episodes = d.episodes /\ h.quality = d.quality
      /\ h.seen = d.seen /\ h.trades = d.trades /\ h.touches = d.touches /\ Open(h) = Open(d)
  BY <1>1, <1>4 DEF Detectors, Open
<1> HIDE DEF h
<1>6. \A p \in Prices : L[p] = NoLevel <=> d.levels[p] = NoLevel
  BY <1>1, <1>2, <1>4, LevelIs
<1>7. ASSUME NEW y, y.levels = L
      PROVE  \A p \in Prices : LevelEffect(d, e, y, p)
  <2>1. ~IsBook(e) /\ IsTrade(e)
    BY DEF Trades, IsBook, IsTrade
  <2>2. QED
    BY <1>2, <1>4, <1>6, <1>7, <2>1 DEF LevelEffect
<1>8. CASE x = h
  <2>1. \A p \in Open(x) : EpisodeEffect(d, e, x, p)
    BY <1>5, <1>8 DEF EpisodeEffect
  <2>2. DetectorOK(x)
    BY <1>5, <1>8 DEF DetectorOK
  <2>3. QED
    BY <1>5, <1>7, <1>8, <2>1, <2>2
<1>9. ASSUME NEW E, x = [h EXCEPT !.episodes = E],
             E \in [Prices -> Episode \cup {NoEpisode}],
             \A p \in Prices : p # r => E[p] = d.episodes[p],
             \/ r \in Open(d) /\ E[r].base = d.episodes[r].base
                  /\ E[r].replenished = d.episodes[r].replenished
             \/ Cardinality(Open(d)) < MaxEpisodes
                  /\ E[r].replenished = 0 /\ E[r].base = seenChange.added[r]
      PROVE  /\ DetectorOK(x) /\ x.quality = d.quality /\ x.seen = d.seen
             /\ \A p \in Prices : LevelEffect(d, e, x, p)
             /\ \A p \in Open(x) : EpisodeEffect(d, e, x, p)
  <2> HIDE DEF x
  <2>1. /\ x \in Detectors /\ x.levels = L /\ x.episodes = E /\ x.quality = d.quality
        /\ x.seen = d.seen /\ x.trades = d.trades /\ x.touches = d.touches
    BY <1>5, <1>9 DEF Detectors
  <2>2. Open(x) \subseteq Open(d) \cup {r}
    BY <1>9, <2>1 DEF Open
  <2>3. Cardinality(Open(x)) <= MaxEpisodes
    <3>1. CASE r \in Open(d)
      BY <2>2, <3>1, FewerOpen DEF DetectorOK
    <3>2. CASE r \notin Open(d)
      <4>1. Cardinality(Open(d)) < MaxEpisodes
        BY <1>9, <3>2
      <4>2. Cardinality(Open(d) \cup {r}) = Cardinality(Open(d)) + 1
            /\ IsFiniteSet(Open(d) \cup {r})
        BY <3>2, OpenIsFinite, FS_AddElement
      <4>3. Cardinality(Open(x)) <= Cardinality(Open(d) \cup {r})
        BY <2>2, <4>2, FS_Subset
      <4>4. QED
        BY <4>1, <4>2, <4>3, OpenIsFinite, DetectorAssumption DEF DetectorAssumption
    <3>3. QED
      BY <3>1, <3>2
  <2>4. \A p \in Open(x) : EpisodeEffect(d, e, x, p)
    <3>1. IsTrade(e)
      BY DEF Trades, IsTrade
    <3>2. EpisodeEffect(d, e, x, r)
      BY <1>9, <2>1, <3>1 DEF EpisodeEffect
    <3>3. ASSUME NEW p \in Open(x), p # r
          PROVE  EpisodeEffect(d, e, x, p)
      <4>1. p \in Open(d) /\ p \in Prices
        BY <2>2, <3>3 DEF Open
      <4>2. x.episodes[p] = d.episodes[p]
        BY <1>9, <2>1, <3>3, <4>1
      <4>3. QED
        BY <4>1, <4>2 DEF EpisodeEffect
    <3>4. QED
      BY <3>2, <3>3
  <2>5. DetectorOK(x)
    BY <2>1, <2>3 DEF DetectorOK
  <2>6. QED
    BY <1>7, <2>1, <2>4, <2>5
<1>10. CASE r \in Open(d)
  <2> DEFINE E == [d.episodes EXCEPT ![r] = [d.episodes[r] EXCEPT !.last = e.at]]
  <2>1. d.episodes[r] \in Episode
    BY <1>1, <1>10 DEF Open
  <2>2. [d.episodes[r] EXCEPT !.last = e.at] \in Episode
    BY <1>1, <2>1 DEF Episode
  <2>3. E \in [Prices -> Episode \cup {NoEpisode}] /\ E[r].base = d.episodes[r].base
        /\ E[r].replenished = d.episodes[r].replenished
        /\ \A p \in Prices : p # r => E[p] = d.episodes[p]
    BY <1>1, <2>1, <2>2 DEF Episode
  <2>4. x = [h EXCEPT !.episodes[r].last = e.at]
    BY <1>3, <1>10 DEF WithHit
  <2>5. x = [h EXCEPT !.episodes = E]
    BY <1>5, <2>4
  <2> HIDE DEF E, x
  <2>6. QED
    BY <1>9, <1>10, <2>3, <2>5 DEF x
<1>11. CASE r \notin Open(d) /\ Cardinality(Open(d)) >= MaxEpisodes
  BY <1>3, <1>8, <1>11 DEF WithHit
<1>12. CASE r \notin Open(d) /\ ~(Cardinality(Open(d)) >= MaxEpisodes)
  <2> DEFINE E == [d.episodes EXCEPT ![r] = Opened(e)]
  <2>1. Opened(e) \in Episode /\ Opened(e).replenished = 0 /\ Opened(e).base = seenChange.added[r]
    BY <1>1 DEF Opened, Episode, Totals
  <2>2. E \in [Prices -> Episode \cup {NoEpisode}] /\ E[r] = Opened(e)
        /\ \A p \in Prices : p # r => E[p] = d.episodes[p]
    BY <1>1, <2>1
  <2>3. x = [h EXCEPT !.episodes[r] = Opened(e)]
    BY <1>3, <1>12 DEF WithHit
  <2>4. x = [h EXCEPT !.episodes = E]
    BY <1>5, <2>3
  <2>5. Cardinality(Open(d)) < MaxEpisodes
    BY <1>12, OpenIsFinite, DetectorAssumption DEF DetectorAssumption
  <2> HIDE DEF E, x
  <2>6. QED
    BY <1>9, <2>1, <2>2, <2>4, <2>5 DEF x
<1>13. QED
  BY <1>10, <1>11, <1>12

(* An event's effect on a worn detector is its effect on the detector.     *)
LEMMA WornEffect ==
  ASSUME NEW d, NEW t, Worn(d, t), NEW e, NEW x,
         \A p \in Prices : LevelEffect(t, e, x, p),
         \A p \in Open(x) : EpisodeEffect(t, e, x, p)
  PROVE  /\ \A p \in Prices : LevelEffect(d, e, x, p)
         /\ \A p \in Open(x) : EpisodeEffect(d, e, x, p)
<1>1. \A p \in Prices : LevelEffect(d, e, x, p)
  BY DEF Worn, LevelEffect
<1>2. ASSUME NEW p \in Open(x), p \in Open(t)
      PROVE  p \in Open(d) /\ t.episodes[p] = d.episodes[p]
  BY <1>2 DEF Worn, Fewer, Open
<1>3. \A p \in Open(x) : EpisodeEffect(d, e, x, p)
  BY <1>2 DEF Worn, EpisodeEffect
<1>4. QED
  BY <1>1, <1>3

(* A detector that is only worn has the effect of an event that is not an  *)
(* update.                                                                 *)
LEMMA WornIs ==
  ASSUME NEW d, DetectorOK(d), NEW t, Worn(d, t), NEW e, ~IsBook(e) \/ e.id \in d.seen
  PROVE  Effect(d, e, t)
<1>1. \A p \in Prices : LevelEffect(d, e, t, p)
  BY DEF Worn, LevelEffect
<1>2. \A p \in Open(t) : p \in Open(d) /\ t.episodes[p] = d.episodes[p]
  BY DEF Worn, Fewer, Open
<1>3. \A p \in Open(t) : EpisodeEffect(d, e, t, p)
  BY <1>2 DEF EpisodeEffect
<1>4. t.seen = IF IsBook(e) THEN d.seen \cup {e.id} ELSE d.seen
  BY DEF Worn
<1>5. QED
  BY <1>1, <1>2, <1>3, <1>4 DEF Effect, Worn

LEMMA TradeIs ==
  ASSUME NEW d, DetectorOK(d), NEW e \in Trades, seenChange.added \in Totals, NEW s
  PROVE  LET x == ProcessTrade(Expired(d, e.at), e, s)
         IN  DetectorOK(x) /\ Effect(d, e, x)
<1> DEFINE t == WithTrade(Expired(d, e.at), e.at)
           x == ProcessTrade(Expired(d, e.at), e, s)
<1>1. e.at \in Times /\ e.price \in Prices /\ IsTrade(e) /\ ~IsBook(e) /\ ~IsHealthy(e)
  BY DEF Trades, IsTrade, IsBook, IsHealthy
<1>2. DetectorOK(t) /\ Worn(d, t)
  BY <1>1, WornTrade
<1>3. x = IF Hits(t, e, s) THEN WithHit(t, e) ELSE t
  BY DEF ProcessTrade
<1> HIDE DEF t, x
<1>4. CASE ~Hits(t, e, s)
  BY <1>1, <1>2, <1>3, <1>4, WornIs DEF x
<1>5. CASE Hits(t, e, s)
  <2>1. t.levels[e.price] # NoLevel /\ t.quality = "Healthy"
    BY <1>5 DEF Hits, Visible
  <2>2. /\ DetectorOK(x) /\ x.seen = t.seen
        /\ \A p \in Prices : LevelEffect(t, e, x, p)
        /\ \A p \in Open(x) : EpisodeEffect(t, e, x, p)
    BY <1>2, <1>3, <1>5, <2>1, HitIs
  <2>3. /\ \A p \in Prices : LevelEffect(d, e, x, p)
        /\ \A p \in Open(x) : EpisodeEffect(d, e, x, p)
    BY <1>2, <2>2, WornEffect
  <2>4. d.quality = "Healthy" /\ x.seen = d.seen
    BY <1>2, <2>1, <2>2 DEF Worn
  <2>5. QED
    BY <1>1, <2>2, <2>3, <2>4 DEF Effect, x
<1>6. QED
  BY <1>4, <1>5

LEMMA QualityIs ==
  ASSUME NEW d, DetectorOK(d), NEW e \in Told
  PROVE  LET x == ProcessQuality(Expired(d, e.at), e)
         IN  DetectorOK(x) /\ Effect(d, e, x)
<1> DEFINE t == Expired(d, e.at)
           E == IF e.quality = "Healthy" THEN t.episodes ELSE NoEpisodes
           x == ProcessQuality(t, e)
<1>1. e.at \in Times /\ ~IsTrade(e) /\ ~IsBook(e) /\ e.quality \in {"Synchronizing", "Healthy"}
      /\ (~IsHealthy(e) => e.quality # "Healthy")
  BY DEF Told, IsTrade, IsBook, IsHealthy
<1>2. DetectorOK(t) /\ Worn(d, t)
  BY <1>1, ExpiredIs DEF Worn
<1>3. x = [t EXCEPT !.quality = e.quality, !.episodes = E]
  BY DEF ProcessQuality
<1> HIDE DEF t, x
<1>4. E \in [Prices -> Episode \cup {NoEpisode}] /\ \A p \in Prices : E[p] \in {t.episodes[p], NoEpisode}
  BY <1>2 DEF DetectorOK, Detectors, NoEpisodes
<1> HIDE DEF E
<1>5. t \in Detectors /\ Len(t.trades) <= MaxSamples /\ Len(t.touches) <= MaxSamples
      /\ Cardinality(Open(t)) <= MaxEpisodes
  BY <1>2 DEF DetectorOK
<1>6. /\ x \in Detectors /\ x.levels = t.levels /\ x.quality = e.quality /\ x.seen = t.seen
      /\ x.episodes = E /\ x.trades = t.trades /\ x.touches = t.touches
  BY <1>1, <1>3, <1>4, <1>5 DEF Detectors, Qualities
<1>7. Open(x) \subseteq Open(t)
  BY <1>4, <1>6 DEF Open
<1>8. DetectorOK(x)
  BY <1>5, <1>6, <1>7, FewerOpen DEF DetectorOK
<1>9. /\ \A p \in Prices : LevelEffect(d, e, x, p)
      /\ \A p \in Open(x) : EpisodeEffect(d, e, x, p)
  <2>1. \A p \in Prices : LevelEffect(t, e, x, p)
    BY <1>1, <1>6 DEF LevelEffect
  <2>2. \A p \in Open(x) : EpisodeEffect(t, e, x, p)
    BY <1>4, <1>6, <1>7 DEF EpisodeEffect, Open
  <2>3. QED
    BY <1>2, <2>1, <2>2, WornEffect
<1>10. Open(x) \subseteq Open(d) /\ x.seen = d.seen
  BY <1>2, <1>6, <1>7 DEF Worn, Fewer, Open
<1>11. ~IsHealthy(e) => x.quality # "Healthy"
  BY <1>1, <1>6
<1>12. x.seen = IF IsBook(e) THEN d.seen \cup {e.id} ELSE d.seen
  BY <1>1, <1>10
<1>13. Effect(d, e, x)
  BY <1>9, <1>10, <1>11, <1>12 DEF Effect
<1>14. QED
  BY <1>8, <1>13 DEF x, t

LEMMA AppliedIs ==
  ASSUME NEW c, DetectorOK(c), NEW e \in Books
  PROVE  LET l == WithLevels(c, e)
         IN  /\ DetectorOK(l) /\ l.seen = c.seen /\ l.quality = c.quality
             /\ Open(l) \subseteq Open(c)
             /\ \A p \in Prices :
                  l.levels[p] = IF p \in e.prices THEN LevelAfter(c, e, p) ELSE c.levels[p]
             /\ \A p \in Open(l) :
                  /\ l.episodes[p].base = c.episodes[p].base
                  /\ \/ l.episodes[p].replenished = c.episodes[p].replenished
                     \/ /\ p \in e.prices /\ c.levels[p] # NoLevel
                        /\ l.episodes[p].replenished =
                             c.episodes[p].replenished + Replenished(c.levels[p], e.book[p])
<1> DEFINE L == [p \in Prices |-> IF p \in e.prices THEN LevelAfter(c, e, p) ELSE c.levels[p]]
           V(p) == LevelBefore(c, p)
           refill(p) == Replenished(V(p), e.book[p])
           counted(p) == V(p).pending > 0 /\ refill(p) >= RefillThreshold
           more(p) == IF counted(p) THEN refill(p) ELSE 0
           E == [p \in Prices |-> IF p \in e.prices /\ p \in Open(c)
                                  THEN EpisodeAfter(c, e, p) ELSE c.episodes[p]]
           l == WithLevels(c, e)
<1>1. /\ c \in Detectors /\ c.levels \in [Prices -> Level \cup {NoLevel}]
      /\ c.episodes \in [Prices -> Episode \cup {NoEpisode}]
      /\ \A p \in Prices : e.book[p] \in Nat /\ e.book[p] <= MaxQty[p]
      /\ e.at \in Times
  BY DEF DetectorOK, Detectors, Books, Quantities
<1>2. l = [c EXCEPT !.levels = L, !.episodes = E]
  BY DEF WithLevels
<1>3. \A p \in Prices : LevelAfter(c, e, p) \in Level \cup {NoLevel}
  <2>1. TAKE p \in Prices
  <2>2. e.book[p] \in UNION {Qty(r) : r \in Prices}
    BY <1>1, QuantityIs
  <2>3. [visible |-> e.book[p], pending |-> 0] \in Level
    BY <2>2 DEF Level
  <2>4. QED
    BY <2>3 DEF LevelAfter
<1>4. L \in [Prices -> Level \cup {NoLevel}]
  BY <1>1, <1>3
<1>5. ASSUME NEW p \in Prices
      PROVE  V(p).visible \in Nat /\ V(p).pending \in Nat
  BY <1>1, LevelIs DEF LevelBefore
<1>6. ASSUME NEW p \in Prices
      PROVE  refill(p) \in Nat
  BY <1>1, <1>5 DEF Replenished, Max2
<1>7. ASSUME NEW p \in Open(c)
      PROVE  /\ EpisodeAfter(c, e, p) \in Episode
             /\ EpisodeAfter(c, e, p).base = c.episodes[p].base
             /\ EpisodeAfter(c, e, p).replenished = c.episodes[p].replenished + more(p)
  <2>1. p \in Prices /\ c.episodes[p] \in Episode
    BY <1>1, <1>7 DEF Open
  <2>2. more(p) \in Nat
    BY <1>6, <2>1
  <2>3. EpisodeAfter(c, e, p) = [c.episodes[p] EXCEPT !.last = e.at, !.replenished = @ + more(p)]
    BY DEF EpisodeAfter
  <2>4. ASSUME NEW n \in Nat, NEW o \in Episode
        PROVE  LET o2 == [o EXCEPT !.last = e.at, !.replenished = @ + n]
               IN  /\ o2 \in Episode /\ o2.base = o.base /\ o2.replenished = o.replenished + n
    <3>1. o.replenished + n \in Nat
      BY DEF Episode
    <3>2. QED
      BY <1>1, <3>1 DEF Episode
  <2> HIDE DEF more
  <2>5. LET o2 == [c.episodes[p] EXCEPT !.last = e.at, !.replenished = @ + more(p)]
        IN  /\ o2 \in Episode /\ o2.base = c.episodes[p].base
            /\ o2.replenished = c.episodes[p].replenished + more(p)
    BY <2>1, <2>2, <2>4
  <2>6. QED
    BY <2>3, <2>5
<1>8. ASSUME NEW p \in Prices, counted(p)
      PROVE  c.levels[p] # NoLevel /\ V(p) = c.levels[p]
  BY <1>8 DEF LevelBefore
<1>9. E \in [Prices -> Episode \cup {NoEpisode}]
  BY <1>1, <1>7
<1>10. \A p \in Prices : E[p] = IF p \in e.prices /\ p \in Open(c)
                                THEN EpisodeAfter(c, e, p) ELSE c.episodes[p]
  OBVIOUS
<1>11. \A p \in Prices : L[p] = IF p \in e.prices THEN LevelAfter(c, e, p) ELSE c.levels[p]
  OBVIOUS
<1> HIDE DEF l, L, E
<1>12. /\ l \in Detectors /\ l.levels = L /\ l.episodes = E /\ l.seen = c.seen
       /\ l.quality = c.quality /\ l.trades = c.trades /\ l.touches = c.touches
  BY <1>1, <1>2, <1>4, <1>9 DEF Detectors
<1>13. Open(l) \subseteq Open(c)
  BY <1>10, <1>12 DEF Open
<1>14. DetectorOK(l)
  BY <1>12, <1>13, FewerOpen DEF DetectorOK
<1>15. ASSUME NEW p \in Open(l)
       PROVE  /\ l.episodes[p].base = c.episodes[p].base
              /\ \/ l.episodes[p].replenished = c.episodes[p].replenished
                 \/ /\ p \in e.prices /\ c.levels[p] # NoLevel
                    /\ l.episodes[p].replenished =
                         c.episodes[p].replenished + Replenished(c.levels[p], e.book[p])
  <2>1. p \in Open(c) /\ p \in Prices /\ c.episodes[p] \in Episode
    BY <1>1, <1>13 DEF Open
  <2>2. c.episodes[p].replenished \in Nat
    BY <2>1 DEF Episode
  <2>3. CASE p \notin e.prices
    BY <1>10, <1>12, <2>1, <2>3
  <2>4. CASE p \in e.prices /\ ~counted(p)
    BY <1>7, <1>10, <1>12, <2>1, <2>2, <2>4
  <2>5. CASE p \in e.prices /\ counted(p)
    BY <1>7, <1>8, <1>10, <1>12, <2>1, <2>5
  <2>6. QED
    BY <2>3, <2>4, <2>5
<1>16. QED
  BY <1>11, <1>12, <1>13, <1>14, <1>15 DEF l

LEMMA AdverseIs ==
  ASSUME NEW d, DetectorOK(d)
  PROVE  DetectorOK(WithoutAdverse(d)) /\ Worn(d, WithoutAdverse(d))
<1> DEFINE E == [p \in Prices |-> IF Bids(d) # {} /\ p - BestBid(d) > MaxAdverse
                                  THEN NoEpisode ELSE d.episodes[p]]
           x == WithoutAdverse(d)
<1>1. d \in Detectors /\ d.episodes \in [Prices -> Episode \cup {NoEpisode}]
  BY DEF DetectorOK, Detectors
<1>2. x = [d EXCEPT !.episodes = E]
  BY <1>1 DEF WithoutAdverse
<1>3. E \in [Prices -> Episode \cup {NoEpisode}] /\ \A p \in Prices : E[p] \in {d.episodes[p], NoEpisode}
  BY <1>1
<1> HIDE DEF x, E
<1>4. /\ x \in Detectors /\ x.levels = d.levels /\ x.quality = d.quality /\ x.seen = d.seen
      /\ x.episodes = E /\ x.trades = d.trades /\ x.touches = d.touches
  BY <1>1, <1>2, <1>3 DEF Detectors
<1>5. Open(x) \subseteq Open(d)
  BY <1>3, <1>4 DEF Open
<1>6. QED
  BY <1>3, <1>4, <1>5, FewerOpen DEF DetectorOK, Worn, Fewer, x

LEMMA BookIs ==
  ASSUME NEW d, DetectorOK(d), NEW e \in Books
  PROVE  LET x == ProcessBook(Expired(d, e.at), e)
         IN  DetectorOK(x) /\ Effect(d, e, x)
<1> DEFINE t == Expired(d, e.at)
           c == IF e.boundary THEN [t EXCEPT !.levels = NoLevels, !.episodes = NoEpisodes] ELSE t
           l == WithLevels(c, e)
           u == WithTouch(l, e.at)
           w == WithoutAdverse(u)
           q == IF e.boundary \/ t.quality = "Degraded" THEN "Healthy" ELSE t.quality
           x == ProcessBook(t, e)
<1>1. /\ e.at \in Times /\ ~IsTrade(e) /\ IsBook(e) /\ e.boundary \in BOOLEAN
      /\ e.id \in Nat /\ e.prices \subseteq Prices
      /\ \A p \in Prices : e.book[p] \in Nat /\ e.book[p] <= MaxQty[p]
  BY DEF Books, Quantities, IsTrade, IsBook
<1>2. DetectorOK(t) /\ Worn(d, t)
  BY <1>1, ExpiredIs DEF Worn
<1>3. x = IF e.id \in t.seen THEN t
          ELSE [w EXCEPT !.seen = @ \cup {e.id}, !.quality = q]
  BY DEF ProcessBook
<1>4. t.seen = d.seen
  BY <1>2 DEF Worn
<1>5. CASE e.id \in d.seen
  <2> HIDE DEF t, x
  <2>1. x = t
    BY <1>3, <1>4, <1>5
  <2>2. Effect(d, e, x)
    BY <1>2, <1>5, <2>1, WornIs
  <2>3. QED
    BY <1>2, <2>1, <2>2 DEF x, t
<1>6. CASE e.id \notin d.seen
  <2> HIDE DEF t
  <2>1. /\ t \in Detectors /\ t.levels \in [Prices -> Level \cup {NoLevel}]
        /\ t.episodes \in [Prices -> Episode \cup {NoEpisode}]
    BY <1>2 DEF DetectorOK, Detectors
  <2>2. /\ DetectorOK(c) /\ c.seen = t.seen /\ c.quality = t.quality
        /\ c.levels = IF e.boundary THEN NoLevels ELSE t.levels
        /\ c.episodes = IF e.boundary THEN NoEpisodes ELSE t.episodes
    <3>1. CASE ~e.boundary
      BY <1>2, <3>1
    <3>2. CASE e.boundary
      <4>1. /\ NoLevels \in [Prices -> Level \cup {NoLevel}]
            /\ NoEpisodes \in [Prices -> Episode \cup {NoEpisode}]
        BY DEF NoLevels, NoEpisodes
      <4>2. c = [t EXCEPT !.levels = NoLevels, !.episodes = NoEpisodes]
        BY <3>2
      <4> HIDE DEF c
      <4>3. /\ c \in Detectors /\ c.levels = NoLevels /\ c.episodes = NoEpisodes
            /\ c.seen = t.seen /\ c.quality = t.quality
            /\ c.trades = t.trades /\ c.touches = t.touches
        BY <2>1, <4>1, <4>2 DEF Detectors
      <4>4. Open(c) \subseteq Open(t)
        BY <4>3 DEF Open, NoEpisodes
      <4>5. QED
        BY <1>2, <3>2, <4>3, <4>4, FewerOpen DEF DetectorOK
    <3>3. QED
      BY <1>1, <3>1, <3>2
  <2> HIDE DEF c
  <2>3. /\ c \in Detectors /\ c.levels \in [Prices -> Level \cup {NoLevel}]
        /\ c.episodes \in [Prices -> Episode \cup {NoEpisode}]
    BY <2>2 DEF DetectorOK, Detectors
  <2>4. /\ DetectorOK(l) /\ l.seen = c.seen /\ l.quality = c.quality
        /\ Open(l) \subseteq Open(c)
        /\ \A p \in Prices : l.levels[p] = IF p \in e.prices THEN LevelAfter(c, e, p) ELSE c.levels[p]
        /\ \A p \in Open(l) :
             /\ l.episodes[p].base = c.episodes[p].base
             /\ \/ l.episodes[p].replenished = c.episodes[p].replenished
                \/ /\ p \in e.prices /\ c.levels[p] # NoLevel
                   /\ l.episodes[p].replenished =
                        c.episodes[p].replenished + Replenished(c.levels[p], e.book[p])
    BY <1>1, <2>2, <2>3, AppliedIs
  <2> HIDE DEF l
  <2>5. DetectorOK(u) /\ SameButSamples(l, u)
    BY <1>1, <2>4, WithTouchIs
  <2> HIDE DEF u
  <2>6. DetectorOK(w) /\ Worn(u, w)
    BY <2>5, AdverseIs
  <2> HIDE DEF w
  <2>7. q \in Qualities
    BY <2>1 DEF Detectors, Qualities
  <2> HIDE DEF q
  <2>8. x = [w EXCEPT !.seen = @ \cup {e.id}, !.quality = q]
    BY <1>3, <1>4, <1>6
  <2> HIDE DEF x
  <2>9. /\ x \in Detectors /\ x.levels = w.levels /\ x.episodes = w.episodes
        /\ x.trades = w.trades /\ x.touches = w.touches /\ x.seen = w.seen \cup {e.id}
    BY <1>1, <2>6, <2>7, <2>8 DEF DetectorOK, Detectors
  <2>10. DetectorOK(x)
    BY <2>6, <2>9 DEF DetectorOK, Open
  <2>11. x.seen = d.seen \cup {e.id}
    BY <1>4, <2>2, <2>4, <2>5, <2>6, <2>9 DEF Worn, SameButSamples
  <2>12. \A p \in Prices : LevelEffect(d, e, x, p)
    <3>1. TAKE p \in Prices
    <3>2. x.levels[p] = l.levels[p]
      BY <2>5, <2>6, <2>9 DEF Worn, SameButSamples
    <3>3. c.levels[p] # NoLevel => ~e.boundary /\ c.levels[p] = d.levels[p]
      BY <1>1, <1>2, <2>2 DEF NoLevels, Worn
    <3>4. LevelAfter(c, e, p) \in {NoLevel, [visible |-> e.book[p], pending |-> 0]}
      BY DEF LevelAfter
    <3>5. QED
      BY <1>1, <1>6, <2>4, <3>2, <3>3, <3>4 DEF LevelEffect
  <2>13. \A p \in Open(x) : EpisodeEffect(d, e, x, p)
    <3>1. TAKE p \in Open(x)
    <3>2. /\ p \in Prices /\ p \in Open(l) /\ x.episodes[p] = l.episodes[p]
      BY <2>5, <2>6, <2>9 DEF Worn, SameButSamples, Fewer, Open
    <3>3. p \in Open(c)
      BY <2>4, <3>2
    <3>4. ~e.boundary /\ p \in Open(d) /\ c.episodes[p] = d.episodes[p] /\ c.levels[p] = d.levels[p]
      BY <1>1, <1>2, <2>2, <3>2, <3>3 DEF NoEpisodes, Worn, Fewer, Open
    <3>5. QED
      BY <1>1, <1>6, <2>4, <3>2, <3>4 DEF EpisodeEffect
  <2>14. QED
    BY <1>1, <2>10, <2>11, <2>12, <2>13 DEF Effect, x, t
<1>7. QED
  BY <1>5, <1>6

LEMMA ProcessIs ==
  ASSUME TypeInv, NEW e \in Buffered, NEW x \in Process(detector, e)
  PROVE  DetectorOK(x) /\ Effect(detector, e, x)
<1>1. DetectorOK(detector) /\ seenChange.added \in Totals
  BY DEF TypeInv
<1>2. CASE e \in Trades
  <2>1. e.type = "Trade"
    BY <1>2 DEF Trades
  <2>2. PICK s \in BOOLEAN : x = ProcessTrade(Expired(detector, e.at), e, s)
    BY <2>1 DEF Process
  <2>3. QED
    BY <1>1, <1>2, <2>2, TradeIs
<1>3. CASE e \in Books
  <2>1. e.type = "Book"
    BY <1>3 DEF Books
  <2>2. x = ProcessBook(Expired(detector, e.at), e)
    BY <2>1 DEF Process
  <2>3. QED
    BY <1>1, <1>3, <2>2, BookIs
<1>4. CASE e \in Told
  <2>1. e.type = "Quality"
    BY <1>4 DEF Told
  <2>2. x = ProcessQuality(Expired(detector, e.at), e)
    BY <2>1 DEF Process
  <2>3. QED
    BY <1>1, <1>4, <2>2, QualityIs
<1>5. QED
  BY <1>2, <1>3, <1>4 DEF Buffered

-----------------------------------------------------------------------------
(* The reorder buffer and the queues *)

LEMMA LessIs ==
  ASSUME NEW k, NEW l
  PROVE  Less(k, l) <=>
           \/ k[1] < l[1]
           \/ k[1] = l[1] /\ k[2] < l[2]
           \/ k[1] = l[1] /\ k[2] = l[2] /\ k[3] < l[3]
           \/ k[1] = l[1] /\ k[2] = l[2] /\ k[3] = l[3] /\ k[4] < l[4]
<1>1. 1..4 = {1, 2, 3, 4}
  OBVIOUS
<1>2. /\ 1..(1 - 1) = {} /\ 1..(2 - 1) = {1} /\ 1..(3 - 1) = {1, 2} /\ 1..(4 - 1) = {1, 2, 3}
  OBVIOUS
<1> DEFINE At(i) == k[i] < l[i] /\ \A j \in 1..(i - 1) : k[j] = l[j]
<1>3. Less(k, l) <=> At(1) \/ At(2) \/ At(3) \/ At(4)
  <2>1. Less(k, l) <=> \E i \in {1, 2, 3, 4} : At(i)
    BY <1>1 DEF Less
  <2> HIDE DEF At
  <2>2. QED
    BY <2>1
<1>4. /\ At(1) <=> k[1] < l[1]
      /\ At(2) <=> k[1] = l[1] /\ k[2] < l[2]
      /\ At(3) <=> k[1] = l[1] /\ k[2] = l[2] /\ k[3] < l[3]
      /\ At(4) <=> k[1] = l[1] /\ k[2] = l[2] /\ k[3] = l[3] /\ k[4] < l[4]
  BY <1>2
<1>5. QED
  BY <1>3, <1>4

LEMMA KeyIs ==
  ASSUME NEW b \in Entry
  PROVE  /\ Key(b)[1] = b.event.at /\ Key(b)[2] = b.recv
         /\ Key(b)[3] = TypeOrder(b.event) /\ Key(b)[4] = Sequence(b.event)
         /\ Key(b)[1] \in Int /\ Key(b)[2] \in Int /\ Key(b)[3] \in Int /\ Key(b)[4] \in Int
<1>1. b.event \in Buffered /\ b.recv \in Nat
  BY DEF Entry
<1>2. b.event.at \in Int /\ TypeOrder(b.event) \in Int
  BY <1>1, DetectorAssumption
     DEF Buffered, Trades, Books, Told, Times, TypeOrder, DetectorAssumption
<1>3. Sequence(b.event) \in Int
  BY <1>1 DEF Buffered, Trades, Books, Told, Sequence
<1>4. QED
  BY <1>1, <1>2, <1>3 DEF Key

(* What is not after something that is not after b is not after b.         *)
LEMMA NotAfter ==
  ASSUME NEW b \in Entry, NEW c \in Entry, NEW d \in Entry,
         ~Less(Key(b), Key(d)), ~Less(Key(d), Key(c))
  PROVE  ~Less(Key(b), Key(c))
  BY KeyIs, LessIs

LEMMA NotBoth ==
  ASSUME NEW b \in Entry, NEW c \in Entry, Less(Key(b), Key(c))
  PROVE  ~Less(Key(c), Key(b))
  BY KeyIs, LessIs

(* A new event is put behind what is not after it and before the rest.     *)
Put(s, b, t, k) ==
  /\ k \in 0..Len(s)
  /\ t \in Seq(Entry) /\ Len(t) = Len(s) + 1 /\ t[k + 1] = b
  /\ \A i \in 1..k : t[i] = s[i] /\ ~Less(Key(b), Key(s[i]))
  /\ \A i \in (k + 1)..Len(s) : t[i + 1] = s[i] /\ Less(Key(b), Key(s[i]))

LEMMA SortedIs ==
  ASSUME NEW s \in Seq(Entry), NEW b \in Entry,
         \A i, j \in 1..Len(s) : i < j => ~Less(Key(s[j]), Key(s[i]))
  PROVE  \E k : Put(s, b, Sorted(s, b), k)
<1> DEFINE A == {i \in 1..Len(s) : ~Less(Key(b), Key(s[i]))}
           k == Cardinality(A)
<1>1. Len(s) \in Nat /\ \A i \in 1..Len(s) : s[i] \in Entry
  BY ElementOfSeq
<1>2. ASSUME NEW j \in A, NEW i \in 1..Len(s), i < j
      PROVE  i \in A
  <2>1. j \in 1..Len(s) /\ ~Less(Key(b), Key(s[j]))
    OBVIOUS
  <2>2. ~Less(Key(s[j]), Key(s[i]))
    BY <1>2, <2>1
  <2>3. s[i] \in Entry /\ s[j] \in Entry
    BY <1>1, <2>1
  <2> HIDE DEF A
  <2>4. ~Less(Key(b), Key(s[i]))
    BY <2>1, <2>2, <2>3, NotAfter
  <2>5. QED
    BY <2>4 DEF A
<1>3. \E n \in 0..Len(s) : A = 1..n
  <2>1. CASE A = {}
    BY <1>1, <2>1
  <2>2. CASE A # {}
    <3>1. A \in SUBSET (1..Len(s)) /\ 1 \in Int /\ Len(s) \in Int
      BY <1>1
    <3> HIDE DEF A
    <3>2. PICK n \in A : \A m \in A : m <= n
      BY <2>2, <3>1, BoundedHasEnds
    <3>3. n \in 1..Len(s) /\ n \in Nat /\ n <= Len(s)
      BY <1>1, <3>1, <3>2
    <3>4. ASSUME NEW i \in 1..n
          PROVE  i \in A
      <4>1. i \in 1..Len(s) /\ (i = n \/ i < n)
        BY <1>1, <3>3
      <4>2. QED
        BY <1>2, <3>2, <4>1
    <3>5. ASSUME NEW i \in A
          PROVE  i \in 1..n
      BY <1>1, <3>1, <3>2, <3>3
    <3>6. A = 1..n
      BY <3>4, <3>5
    <3>7. n \in 0..Len(s)
      BY <1>1, <3>3
    <3>8. QED
      BY <3>6, <3>7
  <2>3. QED
    BY <2>1, <2>2
<1>4. A = 1..k /\ k \in 0..Len(s)
  <2> HIDE DEF A
  <2>1. PICK n \in 0..Len(s) : A = 1..n
    BY <1>3
  <2>2. Cardinality(1..n) = n
    BY <1>1, <2>1, FS_Interval
  <2>3. QED
    BY <2>1, <2>2
<1>5. \A i \in 1..Len(s) : i <= k <=> ~Less(Key(b), Key(s[i]))
  <2>1. \A i \in 1..Len(s) : i \in A <=> ~Less(Key(b), Key(s[i]))
    OBVIOUS
  <2> HIDE DEF A, k
  <2>2. QED
    BY <1>1, <1>4, <2>1
<1> DEFINE t == Sorted(s, b)
           front == SubSeq(s, 1, k)
           back == SubSeq(s, k + 1, Len(s))
<1>6. t = front \o <<b>> \o back
  BY DEF Sorted
<1> HIDE DEF t, A, k
<1>7. front \in Seq(Entry) /\ Len(front) = k /\ \A i \in 1..k : front[i] = s[i]
  <2>1. k \in Int /\ 1 \in Int /\ \A i \in 1..k : s[i] \in Entry
    BY <1>1, <1>4
  <2>2. QED
    BY <1>1, <1>4, <2>1, SubSeqProperties
<1>8. back \in Seq(Entry) /\ Len(back) = Len(s) - k
      /\ \A i \in 1..(Len(s) - k) : back[i] = s[k + i]
  <2>1. k + 1 \in Int /\ Len(s) \in Int /\ \A i \in (k + 1)..Len(s) : s[i] \in Entry
    BY <1>1, <1>4
  <2>2. QED
    BY <1>1, <1>4, <2>1, SubSeqProperties
<1> HIDE DEF front, back
<1>9. /\ front \o <<b>> \in Seq(Entry) /\ Len(front \o <<b>>) = k + 1
      /\ \A i \in 1..k : (front \o <<b>>)[i] = s[i]
      /\ (front \o <<b>>)[k + 1] = b
  BY <1>4, <1>7, ConcatProperties
<1>10. /\ t \in Seq(Entry) /\ Len(t) = Len(s) + 1
       /\ \A i \in 1..(k + 1) : t[i] = (front \o <<b>>)[i]
       /\ \A i \in (k + 2)..(Len(s) + 1) : t[i] = back[i - (k + 1)]
  <2> DEFINE f == front \o <<b>>
  <2>1. f \in Seq(Entry) /\ Len(f) = k + 1 /\ t = f \o back
    BY <1>6, <1>9
  <2> HIDE DEF f
  <2>2. /\ t \in Seq(Entry) /\ Len(t) = Len(f) + Len(back)
        /\ \A i \in 1..(Len(f) + Len(back)) :
             t[i] = IF i <= Len(f) THEN f[i] ELSE back[i - Len(f)]
    BY <1>8, <2>1, ConcatProperties
  <2>3. /\ t \in Seq(Entry) /\ Len(t) = Len(s) + 1
        /\ \A i \in 1..(k + 1) : t[i] = f[i]
        /\ \A i \in (k + 2)..(Len(s) + 1) : t[i] = back[i - (k + 1)]
    <3>1. Len(f) + Len(back) = Len(s) + 1
      BY <1>1, <1>4, <1>8, <2>1
    <3>2. \A i \in 1..(k + 1) : i \in 1..(Len(s) + 1) /\ i <= k + 1
      BY <1>1, <1>4
    <3>3. \A i \in (k + 2)..(Len(s) + 1) : i \in 1..(Len(s) + 1) /\ ~(i <= k + 1)
      BY <1>1, <1>4
    <3>4. QED
      BY <2>1, <2>2, <3>1, <3>2, <3>3
  <2>4. QED
    BY <2>3 DEF f
<1>11. \A i \in (k + 1)..Len(s) : t[i + 1] = s[i]
  <2>1. TAKE i \in (k + 1)..Len(s)
  <2>2. /\ i + 1 \in (k + 2)..(Len(s) + 1) /\ (i + 1) - (k + 1) = i - k
        /\ i - k \in 1..(Len(s) - k) /\ k + (i - k) = i
    BY <1>1, <1>4
  <2>3. t[i + 1] = back[i - k]
    BY <1>10, <2>2
  <2>4. back[i - k] = s[i]
    BY <1>8, <2>2
  <2>5. QED
    BY <2>3, <2>4
<1>12. Put(s, b, t, k)
  BY <1>1, <1>4, <1>5, <1>9, <1>10, <1>11 DEF Put
<1>13. QED
  BY <1>12 DEF t

-----------------------------------------------------------------------------
(* The depth updates that wait in the buffer, come in the queue, or both.  *)

Waiting(b) == {b[i].event : i \in {j \in 1..Len(b) : IsBook(b[j].event)}}
Coming(q) == {q[i] : i \in {j \in 1..Len(q) : IsBook(q[j])}}
Ahead(b, q) == Waiting(b) \cup Coming(q)

JustBook(e) == IF IsBook(e) THEN {e} ELSE {}

LEMMA WaitingIs ==
  ASSUME NEW b, NEW e
  PROVE  e \in Waiting(b) <=> IsBook(e) /\ \E i \in 1..Len(b) : b[i].event = e
  BY DEF Waiting

LEMMA ComingIs ==
  ASSUME NEW q, NEW e
  PROVE  e \in Coming(q) <=> IsBook(e) /\ \E i \in 1..Len(q) : q[i] = e
  BY DEF Coming

LEMMA TailIs ==
  ASSUME NEW S, NEW s \in Seq(S), s # <<>>
  PROVE  /\ Tail(s) \in Seq(S) /\ Len(Tail(s)) = Len(s) - 1 /\ Len(s) \in Nat \ {0}
         /\ Head(s) = s[1] /\ s[1] \in S /\ 1 \in 1..Len(s)
         /\ \A i \in 1..Len(Tail(s)) : i + 1 \in 1..Len(s) /\ Tail(s)[i] = s[i + 1]
         /\ \A i \in 1..Len(s) : i # 1 => i - 1 \in 1..Len(Tail(s)) /\ Tail(s)[i - 1] = s[i]
<1>1. /\ Tail(s) \in Seq(S) /\ Len(Tail(s)) = Len(s) - 1 /\ Head(s) = s[1] /\ s[1] \in S
      /\ \A i \in 1..Len(Tail(s)) : Tail(s)[i] = s[i + 1]
  BY HeadTailProperties
<1>2. Len(s) \in Nat \ {0}
  BY EmptySeq, LenProperties
<1>3. QED
  BY <1>1, <1>2

LEMMA AppendIs ==
  ASSUME NEW S, NEW s \in Seq(S), NEW e \in S
  PROVE  /\ Append(s, e) \in Seq(S) /\ Len(Append(s, e)) = Len(s) + 1 /\ Len(s) \in Nat
         /\ Append(s, e)[Len(s) + 1] = e /\ Len(s) + 1 \in 1..(Len(s) + 1)
         /\ \A i \in 1..Len(s) : Append(s, e)[i] = s[i] /\ i \in 1..(Len(s) + 1)
  BY AppendProperties, LenProperties

LEMMA PoppedBuffer ==
  ASSUME NEW b \in Seq(Entry), b # <<>>
  PROVE  Waiting(b) = Waiting(Tail(b)) \cup JustBook(Head(b).event)
<1>1. ASSUME NEW e
      PROVE  e \in Waiting(b) <=> e \in Waiting(Tail(b)) \/ e \in JustBook(Head(b).event)
  <2>1. (\E i \in 1..Len(b) : b[i].event = e)
          <=> (e = Head(b).event \/ \E i \in 1..Len(Tail(b)) : Tail(b)[i].event = e)
    BY TailIs
  <2>2. /\ e \in Waiting(b) <=> IsBook(e) /\ \E i \in 1..Len(b) : b[i].event = e
        /\ e \in Waiting(Tail(b))
             <=> IsBook(e) /\ \E i \in 1..Len(Tail(b)) : Tail(b)[i].event = e
    BY WaitingIs
  <2>3. e \in JustBook(Head(b).event) <=> IsBook(e) /\ e = Head(b).event
    BY DEF JustBook
  <2>4. QED
    BY <2>1, <2>2, <2>3
<1>2. QED
  BY <1>1

LEMMA PoppedQueue ==
  ASSUME NEW q \in Seq(DepthEvent), q # <<>>
  PROVE  Coming(q) = Coming(Tail(q)) \cup JustBook(Head(q))
<1>1. ASSUME NEW e
      PROVE  e \in Coming(q) <=> e \in Coming(Tail(q)) \/ e \in JustBook(Head(q))
  <2>1. (\E i \in 1..Len(q) : q[i] = e)
          <=> (e = Head(q) \/ \E i \in 1..Len(Tail(q)) : Tail(q)[i] = e)
    BY TailIs
  <2>2. QED
    BY <2>1, ComingIs DEF JustBook
<1>2. QED
  BY <1>1

LEMMA AppendedQueue ==
  ASSUME NEW q \in Seq(DepthEvent), NEW f \in DepthEvent
  PROVE  Coming(Append(q, f)) = Coming(q) \cup JustBook(f)
<1>1. ASSUME NEW e
      PROVE  e \in Coming(Append(q, f)) <=> e \in Coming(q) \/ e \in JustBook(f)
  <2>1. (\E i \in 1..Len(Append(q, f)) : Append(q, f)[i] = e)
          <=> (e = f \/ \E i \in 1..Len(q) : q[i] = e)
    BY AppendIs
  <2>2. QED
    BY <2>1, ComingIs DEF JustBook
<1>2. QED
  BY <1>1

(* Where the events of a buffer are after another one was put into it.     *)
LEMMA PutIs ==
  ASSUME NEW s \in Seq(Entry), NEW b \in Entry, NEW t, NEW k, Put(s, b, t, k)
  PROVE  /\ Len(s) \in Nat /\ k \in Nat
         /\ \A i \in 1..Len(t) : i <= k \/ i = k + 1 \/ i > k + 1
         /\ \A i \in 1..Len(t) : i <= k => i \in 1..Len(s) /\ t[i] = s[i] /\ ~Less(Key(b), Key(s[i]))
         /\ \A i \in 1..Len(t) : i > k + 1 =>
              i - 1 \in 1..Len(s) /\ t[i] = s[i - 1] /\ Less(Key(b), Key(s[i - 1]))
         /\ k + 1 \in 1..Len(t) /\ t[k + 1] = b
         /\ \A i \in 1..Len(s) : \E j \in 1..Len(t) : t[j] = s[i]
<1>1. Len(s) \in Nat /\ k \in 0..Len(s) /\ Len(t) = Len(s) + 1
  BY LenProperties DEF Put
<1>2. \A i \in 1..k : t[i] = s[i] /\ ~Less(Key(b), Key(s[i]))
  BY DEF Put
<1>3. \A i \in (k + 1)..Len(s) : t[i + 1] = s[i] /\ Less(Key(b), Key(s[i]))
  BY DEF Put
<1>4. ASSUME NEW i \in 1..Len(t), i > k + 1
      PROVE  i - 1 \in 1..Len(s) /\ t[i] = s[i - 1] /\ Less(Key(b), Key(s[i - 1]))
  <2>1. i - 1 \in (k + 1)..Len(s) /\ (i - 1) + 1 = i /\ i - 1 \in 1..Len(s)
    BY <1>1, <1>4
  <2>2. QED
    BY <1>3, <2>1
<1>5. ASSUME NEW i \in 1..Len(s)
      PROVE  \E j \in 1..Len(t) : t[j] = s[i]
  <2>1. CASE i <= k
    BY <1>1, <1>2, <2>1
  <2>2. CASE ~(i <= k)
    <3>1. i \in (k + 1)..Len(s) /\ i + 1 \in 1..Len(t)
      BY <1>1, <2>2
    <3>2. QED
      BY <1>3, <3>1
  <2>3. QED
    BY <2>1, <2>2
<1>6. k + 1 \in 1..Len(t) /\ t[k + 1] = b
  BY <1>1 DEF Put
<1>7. k \in Nat /\ \A i \in 1..Len(t) : i <= k \/ i = k + 1 \/ i > k + 1
  BY <1>1
<1>8. ASSUME NEW i \in 1..Len(t), i <= k
      PROVE  i \in 1..Len(s) /\ t[i] = s[i] /\ ~Less(Key(b), Key(s[i]))
  <2>1. i \in 1..Len(s) /\ i \in 1..k
    BY <1>1, <1>8
  <2>2. QED
    BY <1>2, <2>1
<1>9. QED
  BY <1>1, <1>4, <1>5, <1>6, <1>7, <1>8

LEMMA PutBuffer ==
  ASSUME NEW s \in Seq(Entry), NEW b \in Entry, NEW t, NEW k, Put(s, b, t, k)
  PROVE  Waiting(t) = Waiting(s) \cup JustBook(b.event)
<1>1. ASSUME NEW e
      PROVE  e \in Waiting(t) <=> e \in Waiting(s) \/ e \in JustBook(b.event)
  <2>1. (\E i \in 1..Len(t) : t[i].event = e)
          <=> (e = b.event \/ \E i \in 1..Len(s) : s[i].event = e)
    <3>1. ASSUME NEW i \in 1..Len(t), t[i].event = e
          PROVE  e = b.event \/ \E j \in 1..Len(s) : s[j].event = e
      <4>1. \/ i \in 1..Len(s) /\ t[i] = s[i]
            \/ t[i] = b
            \/ i - 1 \in 1..Len(s) /\ t[i] = s[i - 1]
        BY PutIs
      <4>2. QED
        BY <3>1, <4>1
    <3>2. e = b.event => \E i \in 1..Len(t) : t[i].event = e
      BY PutIs
    <3>3. ASSUME NEW i \in 1..Len(s), s[i].event = e
          PROVE  \E j \in 1..Len(t) : t[j].event = e
      BY <3>3, PutIs
    <3>4. QED
      BY <3>1, <3>2, <3>3
  <2>2. QED
    BY <2>1, WaitingIs DEF JustBook
<1>2. QED
  BY <1>1

(* The books among the events.                                             *)
LEMMA BooksAre ==
  /\ \A b \in Seq(Entry) : \A e \in Waiting(b) : e \in Books /\ IsBook(e)
  /\ \A q \in Seq(DepthEvent) : \A e \in Coming(q) : e \in Books /\ IsBook(e)
<1>1. ASSUME NEW e \in DepthEvent \cup Buffered, IsBook(e)
      PROVE  e \in Books
  BY <1>1 DEF DepthEvent, Buffered, IsBook, Trades, Told, Breaks
<1>2. ASSUME NEW b \in Seq(Entry), NEW e \in Waiting(b)
      PROVE  e \in Books /\ IsBook(e)
  <2>1. PICK i \in 1..Len(b) : b[i].event = e /\ IsBook(e)
    BY WaitingIs
  <2>2. b[i] \in Entry
    BY ElementOfSeq
  <2>3. e \in Buffered
    BY <2>1, <2>2 DEF Entry
  <2>4. QED
    BY <1>1, <2>1, <2>3
<1>3. ASSUME NEW q \in Seq(DepthEvent), NEW e \in Coming(q)
      PROVE  e \in Books /\ IsBook(e)
  <2>1. PICK i \in 1..Len(q) : q[i] = e /\ IsBook(e)
    BY ComingIs
  <2>2. q[i] \in DepthEvent
    BY ElementOfSeq
  <2>3. QED
    BY <1>1, <2>1, <2>2
<1>4. QED
  BY <1>2, <1>3

-----------------------------------------------------------------------------
(* Types *)

LEMMA FreshIs ==
  ASSUME NEW q \in Qualities, NEW seen \in SUBSET Nat
  PROVE  /\ DetectorOK(Fresh(q, seen)) /\ Open(Fresh(q, seen)) = {}
         /\ \A p \in Prices : Fresh(q, seen).levels[p] = NoLevel
         /\ Fresh(q, seen).quality = q /\ Fresh(q, seen).seen = seen
<1> DEFINE x == Fresh(q, seen)
<1>1. /\ x.quality = q /\ x.seen = seen /\ x.levels = NoLevels /\ x.episodes = NoEpisodes
      /\ x.trades = <<>> /\ x.touches = <<>>
  BY DEF Fresh
<1>2. x \in Detectors
  <2>1. /\ NoLevels \in [Prices -> Level \cup {NoLevel}]
        /\ NoEpisodes \in [Prices -> Episode \cup {NoEpisode}]
    BY DEF NoLevels, NoEpisodes
  <2>2. <<>> \in Seq(Times)
    BY EmptySeq
  <2>3. QED
    BY <2>1, <2>2 DEF Fresh, Detectors
<1>3. Open(x) = {}
  BY <1>1 DEF Open, NoEpisodes
<1>4. Cardinality(Open(x)) <= MaxEpisodes
  BY <1>3, FS_EmptySet, DetectorAssumption DEF DetectorAssumption
<1>5. Len(x.trades) <= MaxSamples /\ Len(x.touches) <= MaxSamples
  BY <1>1, EmptySeq, SamplesExist
<1>6. \A p \in Prices : x.levels[p] = NoLevel
  BY <1>1 DEF NoLevels
<1> HIDE DEF x
<1>7. DetectorOK(x)
  BY <1>2, <1>4, <1>5 DEF DetectorOK
<1>8. QED
  BY <1>1, <1>3, <1>6, <1>7 DEF x

LEMMA DegradedIs ==
  ASSUME NEW d, NEW e, NEW x, DetectorOK(x), Effect(d, e, x)
  PROVE  LET y == [x EXCEPT !.quality = "Degraded"] IN DetectorOK(y) /\ Effect(d, e, y)
<1> DEFINE y == [x EXCEPT !.quality = "Degraded"]
<1>1. x \in Detectors
  BY DEF DetectorOK
<1>2. /\ y \in Detectors /\ y.levels = x.levels /\ y.episodes = x.episodes /\ y.seen = x.seen
      /\ y.trades = x.trades /\ y.touches = x.touches /\ y.quality = "Degraded"
  BY <1>1 DEF Detectors, Qualities
<1> HIDE DEF y
<1>3. Open(y) = Open(x)
  BY <1>2 DEF Open
<1>4. DetectorOK(y)
  BY <1>2, <1>3 DEF DetectorOK
<1>5. Effect(d, e, y)
  BY <1>2, <1>3 DEF Effect, LevelEffect, EpisodeEffect
<1>6. QED
  BY <1>4, <1>5 DEF y

LEMMA TimesAre ==
  /\ Times \subseteq Nat /\ \A m, n \in Times : Max2(m, n) \in Times
  /\ \A m, n \in Nat : Max2(m, n) \in Nat /\ Max2(m, n) >= m /\ Max2(m, n) >= n
                       /\ Max2(m, n) \in {m, n}
  BY DetectorAssumption DEF DetectorAssumption, Times, Max2

LEMMA NotedIs ==
  ASSUME TypeInv, NEW e \in Buffered
  PROVE  /\ Noted(e) \in [trade: Nat, book: Nat, added: Totals, disordered: BOOLEAN]
         /\ IsTrade(e) => /\ Noted(e).trade = Max2(seenChange.trade, e.change)
                          /\ Noted(e).book = seenChange.book /\ Noted(e).added = seenChange.added
                          /\ Noted(e).disordered <=> seenChange.disordered \/ e.change <= seenChange.book
         /\ IsBook(e) => /\ Noted(e).trade = seenChange.trade
                         /\ Noted(e).book = Max2(seenChange.book, e.change)
                         /\ Noted(e).added = e.added
                         /\ Noted(e).disordered <=> seenChange.disordered \/ e.change < seenChange.trade
         /\ ~IsTrade(e) /\ ~IsBook(e) => Noted(e) = seenChange
<1>1. seenChange \in [trade: Nat, book: Nat, added: Totals, disordered: BOOLEAN]
  BY DEF TypeInv
<1>2. CASE e \in Trades
  <2>1. e.change \in Nat /\ e.type = "Trade"
    BY <1>2 DEF Trades
  <2>2. Max2(seenChange.trade, e.change) \in Nat
    BY <1>1, <2>1, TimesAre
  <2>3. Noted(e) = [seenChange EXCEPT !.trade = Max2(@, e.change),
                                      !.disordered = @ \/ e.change <= seenChange.book]
    BY <2>1 DEF Noted
  <2>4. QED
    BY <1>1, <2>1, <2>2, <2>3 DEF IsTrade, IsBook
<1>3. CASE e \in Books
  <2>1. e.change \in Nat /\ e.type = "Book" /\ e.added \in Totals
    BY <1>3 DEF Books
  <2>2. Max2(seenChange.book, e.change) \in Nat
    BY <1>1, <2>1, TimesAre
  <2>3. Noted(e) = [seenChange EXCEPT !.book = Max2(@, e.change), !.added = e.added,
                                      !.disordered = @ \/ e.change < seenChange.trade]
    BY <2>1 DEF Noted
  <2>4. QED
    BY <1>1, <2>1, <2>2, <2>3 DEF IsTrade, IsBook
<1>4. CASE e \in Told
  <2>1. e.type = "Quality"
    BY <1>4 DEF Told
  <2>2. Noted(e) = seenChange
    BY <2>1 DEF Noted
  <2>3. QED
    BY <1>1, <2>1, <2>2 DEF IsTrade, IsBook
<1>5. QED
  BY <1>2, <1>3, <1>4 DEF Buffered

LEMMA InitTypes == Init => TypeInv
<1> SUFFICES ASSUME Init PROVE TypeInv
  OBVIOUS
<1>1. now \in Times /\ changedAt \in Times /\ latest \in Times /\ changedAt <= now
  BY DetectorAssumption DEF Init, Times, DetectorAssumption
<1>2. market \in Quantities /\ added \in Totals /\ seenBook \in Totals
  BY DetectorAssumption DEF Init, Quantities, Totals, DetectorAssumption
<1>3. seenChange \in [trade: Nat, book: Nat, added: Totals, disordered: BOOLEAN]
  BY DEF Init, Totals
<1>4. /\ depthQueue \in Seq(DepthEvent) /\ tradeQueue \in Seq(TradeEvent)
      /\ buffer \in Seq(Entry) /\ Len(buffer) <= MaxReorder
  BY EmptySeq, DetectorAssumption DEF Init, DetectorAssumption
<1>5. DetectorOK(detector)
  BY FreshIs DEF Init, Qualities
<1>6. QED
  BY <1>1, <1>2, <1>3, <1>4, <1>5 DEF Init, TypeInv

(* The next event of the buffer is processed.                              *)
LEMMA HeadIs ==
  ASSUME TypeInv, buffer # <<>>
  PROVE  /\ Head(buffer) \in Entry /\ Head(buffer).event \in Buffered
         /\ Tail(buffer) \in Seq(Entry) /\ Len(Tail(buffer)) = Len(buffer) - 1
         /\ (Head(buffer).event.type = "Book" => Head(buffer).event.book \in Totals)
<1>1. buffer \in Seq(Entry)
  BY DEF TypeInv
<1>2. Head(buffer) \in Entry /\ Tail(buffer) \in Seq(Entry) /\ Len(Tail(buffer)) = Len(buffer) - 1
  BY <1>1, TailIs
<1>3. Head(buffer).event \in Buffered
  BY <1>2 DEF Entry
<1>4. \A e \in Buffered : e.type = "Book" => e.book \in Totals
  BY DEF Buffered, Trades, Books, Told, Quantities, Totals
<1>5. QED
  BY <1>2, <1>3, <1>4

LEMMA NoteTypes ==
  ASSUME TypeInv, buffer # <<>>, NoteProcessed(Head(buffer).event)
  PROVE  /\ seenBook' \in Totals
         /\ seenChange' \in [trade: Nat, book: Nat, added: Totals, disordered: BOOLEAN]
  BY HeadIs, NotedIs DEF NoteProcessed, TypeInv

LEMMA ReceivedIs ==
  ASSUME TypeInv, NEW e \in Buffered
  PROVE  /\ Received(e) \in Entry /\ Received(e).event = e
         /\ IsBook(e) => Received(e).recv = now
<1>1. now \in Nat
  BY TimesAre DEF TypeInv
<1>2. e.type = "Quality" => e.at \in Nat
  BY TimesAre DEF Buffered, Trades, Books, Told
<1>3. QED
  BY <1>1, <1>2 DEF Received, Entry, IsBook

(* The reorder buffer's order, so far as the types need it.                *)
InSort(b) == \A i, j \in 1..Len(b) : i < j => ~Less(Key(b[j]), Key(b[i]))

LEMMA PutSort ==
  ASSUME NEW s \in Seq(Entry), NEW b \in Entry, InSort(s)
  PROVE  InSort(Sorted(s, b)) /\ \E k : Put(s, b, Sorted(s, b), k)
<1> DEFINE t == Sorted(s, b)
<1>1. PICK k : Put(s, b, t, k)
  BY SortedIs DEF InSort
<1>2. \A i \in 1..Len(s) : s[i] \in Entry
  BY ElementOfSeq
<1> HIDE DEF t
<1>3. ASSUME NEW i \in 1..Len(t), NEW j \in 1..Len(t), i < j
      PROVE  ~Less(Key(t[j]), Key(t[i]))
  <2>1. CASE j <= k
    <3>1. i <= k
      BY <1>1, <1>3, <2>1, PutIs
    <3>2. QED
      BY <1>1, <1>3, <2>1, <3>1, PutIs DEF InSort
  <2>2. CASE i > k + 1
    <3>1. j > k + 1 /\ i - 1 < j - 1
      BY <1>1, <1>3, <2>2, PutIs
    <3>2. /\ i - 1 \in 1..Len(s) /\ t[i] = s[i - 1] /\ j - 1 \in 1..Len(s) /\ t[j] = s[j - 1]
      BY <1>1, <1>3, <2>2, <3>1, PutIs
    <3>3. QED
      BY <3>1, <3>2 DEF InSort
  <2>3. CASE j = k + 1
    <3>1. i <= k
      BY <1>1, <1>3, <2>3, PutIs
    <3>2. QED
      BY <1>1, <1>3, <2>3, <3>1, PutIs
  <2>4. CASE i = k + 1
    <3>1. j > k + 1
      BY <1>1, <1>3, <2>4, PutIs
    <3>2. t[j] = s[j - 1] /\ Less(Key(b), Key(s[j - 1])) /\ j - 1 \in 1..Len(s) /\ t[i] = b
      BY <1>1, <1>3, <2>4, <3>1, PutIs
    <3>3. QED
      BY <1>2, <3>2, NotBoth
  <2>5. CASE i <= k /\ j > k + 1
    <3>1. i \in 1..Len(s) /\ t[i] = s[i] /\ j - 1 \in 1..Len(s) /\ t[j] = s[j - 1] /\ i < j - 1
      BY <1>1, <1>3, <2>5, PutIs
    <3>2. QED
      BY <3>1 DEF InSort
  <2>6. QED
    BY <1>1, <2>1, <2>2, <2>3, <2>4, <2>5, PutIs
<1>4. QED
  BY <1>1, <1>3 DEF InSort, t

LEMMA TailSort ==
  ASSUME NEW s \in Seq(Entry), s # <<>>, InSort(s)
  PROVE  InSort(Tail(s))
  BY TailIs DEF InSort

(* ingest: the event at the head of a queue is buffered, or it empties the *)
(* buffer; a detector that is not consumed stays as it is.                 *)

(* Processing the head of the buffer, whatever quality it leaves.          *)
Pop(x) ==
  /\ buffer # <<>> /\ DetectorOK(x) /\ Effect(detector, Head(buffer).event, x)
  /\ NoteProcessed(Head(buffer).event)

(* The buffer and the detector between the two halves of ingest.           *)
LEMMA DrainIs ==
  ASSUME TypeInv, Drain
  PROVE  Pop(detector') /\ buffer' = Tail(buffer)
<1>1. buffer # <<>> /\ detector' \in Process(detector, Head(buffer).event)
  BY DEF Drain, Ready
<1>2. DetectorOK(detector') /\ Effect(detector, Head(buffer).event, detector')
  BY <1>1, HeadIs, ProcessIs
<1>3. QED
  BY <1>1, <1>2 DEF Pop, Drain

LEMMA OverflowIs ==
  ASSUME TypeInv, NEW e \in Buffered, Overflow(e)
  PROVE  Pop(detector') /\ buffer' = Sorted(Tail(buffer), Received(e))
<1>1. buffer # <<>>
  BY EmptySeq, DetectorAssumption DEF Overflow, DetectorAssumption
<1>2. PICK d \in Process(detector, Head(buffer).event) :
        detector' = [d EXCEPT !.quality = "Degraded"]
  BY DEF Overflow
<1>3. DetectorOK(d) /\ Effect(detector, Head(buffer).event, d)
  BY <1>1, HeadIs, ProcessIs
<1>4. DetectorOK(detector') /\ Effect(detector, Head(buffer).event, detector')
  BY <1>2, <1>3, DegradedIs
<1>5. QED
  BY <1>1, <1>4 DEF Pop, Overflow

LEMMA ConsumeIs ==
  ASSUME TypeInv, NEW e \in DepthEvent \cup TradeEvent, Consume(e)
  PROVE  \/ /\ e \in Buffered /\ ~IsBreak(e)
            /\ latest' = Max2(latest, e.at)
            /\ \/ /\ Len(buffer) < MaxReorder
                  /\ buffer' = Sorted(buffer, Received(e))
                  /\ UNCHANGED <<detector, seenBook, seenChange>>
               \/ Pop(detector') /\ buffer' = Sorted(Tail(buffer), Received(e))
         \/ /\ IsBreak(e) /\ e.quality \in {"Gap", "Degraded"}
            /\ detector' = Fresh(e.quality, detector.seen) /\ buffer' = <<>>
            /\ UNCHANGED <<latest, seenBook, seenChange>>
<1>1. CASE e.type = "Break"
  <2>1. e.quality \in {"Gap", "Degraded"}
    BY <1>1 DEF DepthEvent, TradeEvent, Trades, Books, Told, Breaks
  <2>2. QED
    BY <1>1, <2>1 DEF Consume, Invalidate, Invalidated, IsBreak
<1>2. CASE e.type # "Break"
  <2>1. e \in Buffered
    BY <1>2 DEF DepthEvent, TradeEvent, Buffered, Breaks
  <2>2. /\ latest' = Max2(latest, e.at)
        /\ Push(e) \/ Overflow(e)
    BY <1>2 DEF Consume
  <2>3. QED
    BY <1>2, <2>1, <2>2, OverflowIs DEF Push, IsBreak
<1>3. QED
  BY <1>1, <1>2

LEMMA ConsumeTypes ==
  ASSUME TypeInv, InSort(buffer), NEW e \in DepthEvent \cup TradeEvent, Consume(e)
  PROVE  /\ DetectorOK(detector') /\ seenBook' \in Totals
         /\ seenChange' \in [trade: Nat, book: Nat, added: Totals, disordered: BOOLEAN]
         /\ buffer' \in Seq(Entry) /\ Len(buffer') <= MaxReorder /\ InSort(buffer')
         /\ latest' \in Times
<1>1. /\ buffer \in Seq(Entry) /\ Len(buffer) <= MaxReorder /\ Len(buffer) \in Nat
      /\ MaxReorder \in Nat /\ latest \in Times /\ DetectorOK(detector)
      /\ detector.seen \in SUBSET Nat
  BY LenProperties, DetectorAssumption DEF TypeInv, DetectorOK, Detectors, DetectorAssumption
<1>2. e \in Buffered => Received(e) \in Entry /\ Max2(latest, e.at) \in Times
  <2>1. e \in Buffered => e.at \in Times
    BY DEF Buffered, Trades, Books, Told
  <2>2. QED
    BY <1>1, <2>1, ReceivedIs, TimesAre
<1>3. ASSUME NEW s \in Seq(Entry), InSort(s), Len(s) < MaxReorder, e \in Buffered
      PROVE  LET t == Sorted(s, Received(e))
             IN  t \in Seq(Entry) /\ Len(t) <= MaxReorder /\ InSort(t)
  <2>1. PICK k : Put(s, Received(e), Sorted(s, Received(e)), k)
    BY <1>2, <1>3, PutSort
  <2>2. InSort(Sorted(s, Received(e)))
    BY <1>2, <1>3, PutSort
  <2>3. Len(s) \in Nat /\ Len(Sorted(s, Received(e))) = Len(s) + 1 /\ Sorted(s, Received(e)) \in Seq(Entry)
    BY <2>1, LenProperties DEF Put
  <2>4. QED
    BY <1>1, <1>3, <2>2, <2>3
<1>4. CASE /\ e \in Buffered /\ latest' = Max2(latest, e.at)
           /\ Len(buffer) < MaxReorder /\ buffer' = Sorted(buffer, Received(e))
           /\ UNCHANGED <<detector, seenBook, seenChange>>
  BY <1>1, <1>2, <1>3, <1>4 DEF TypeInv
<1>5. CASE /\ e \in Buffered /\ latest' = Max2(latest, e.at)
           /\ Pop(detector') /\ buffer' = Sorted(Tail(buffer), Received(e))
  <2>1. buffer # <<>> /\ NoteProcessed(Head(buffer).event) /\ DetectorOK(detector')
    BY <1>5 DEF Pop
  <2>2. InSort(Tail(buffer)) /\ Tail(buffer) \in Seq(Entry) /\ Len(Tail(buffer)) < MaxReorder
    BY <1>1, <2>1, HeadIs, TailSort
  <2>3. QED
    BY <1>2, <1>3, <1>5, <2>1, <2>2, NoteTypes
<1>6. CASE /\ e.quality \in {"Gap", "Degraded"}
           /\ detector' = Fresh(e.quality, detector.seen) /\ buffer' = <<>>
           /\ UNCHANGED <<latest, seenBook, seenChange>>
  <2>1. DetectorOK(detector')
    BY <1>1, <1>6, FreshIs DEF Qualities
  <2>2. buffer' \in Seq(Entry) /\ Len(buffer') <= MaxReorder /\ InSort(buffer')
    BY <1>1, <1>6, EmptySeq DEF InSort
  <2>3. QED
    BY <1>6, <2>1, <2>2 DEF TypeInv
<1>7. QED
  BY <1>4, <1>5, <1>6, ConsumeIs

LEMMA BookEventIs ==
  ASSUME TypeInv, NEW boundary \in BOOLEAN, NEW id \in Nat, NEW prices \in SUBSET Prices
  PROVE  /\ Book(boundary, id, prices) \in Books /\ IsBook(Book(boundary, id, prices))
         /\ Book(boundary, id, prices).boundary = boundary
         /\ Book(boundary, id, prices).id = id /\ Book(boundary, id, prices).prices = prices
         /\ Book(boundary, id, prices).at = changedAt /\ Book(boundary, id, prices).change = changes
         /\ Book(boundary, id, prices).book = market /\ Book(boundary, id, prices).added = added
  BY DEF Book, Books, TypeInv, IsBook

(* What the exchange and the adapters do to the queues.                    *)
LEMMA ChangeTypes ==
  ASSUME TypeInv, NEW p \in Prices, NEW qty \in Nat, qty <= MaxQty[p], Change(p, qty)
  PROVE  /\ market' \in Quantities /\ added' \in Totals /\ changed' \in SUBSET Prices
         /\ changes' = changes + 1 /\ changes' \in Nat /\ changedAt' \in Times /\ changedAt' <= now'
<1>1. market \in Quantities /\ added \in Totals /\ changed \in SUBSET Prices
      /\ changes \in Nat /\ now \in Times
  BY DEF TypeInv
<1>2. market' = [market EXCEPT ![p] = qty]
      /\ added' = [added EXCEPT ![p] = @ + Max2(qty - market[p], 0)]
  BY DEF Change
<1>3. market[p] \in Nat /\ \A b \in Int : Max2(b, 0) \in Nat
  BY <1>1 DEF Quantities, Max2
<1>4. market' \in Quantities
  BY <1>1, <1>2 DEF Quantities
<1>5. added' \in Totals
  <2>1. Max2(qty - market[p], 0) \in Nat
    BY <1>3
  <2>2. QED
    BY <1>1, <1>2, <2>1 DEF Totals
<1>6. QED
  BY <1>1, <1>4, <1>5, TimesAre DEF Change

LEMMA OutsideTypes ==
  ASSUME TypeInv, Outside
  PROVE  TypeInv'
<1>1. /\ now \in Times /\ changedAt \in Times /\ changedAt <= now
      /\ changes \in Nat /\ updateId \in Nat /\ breaks \in Nat
      /\ market \in Quantities /\ added \in Totals /\ changed \in SUBSET Prices
      /\ depthQueue \in Seq(DepthEvent) /\ tradeQueue \in Seq(TradeEvent)
  BY DEF TypeInv
<1>2. UNCHANGED insideVars => UNCHANGED <<consumed, toggles, releasedAt, missed, detector, buffer,
                                          latest, resyncing, seenBook, seenChange>>
  BY DEF insideVars, registryVars, detectorVars, historyVars
<1>3. Breaks("depth") \subseteq DepthEvent /\ Breaks("trade") \subseteq TradeEvent
      /\ Trades \subseteq TradeEvent /\ Books \subseteq DepthEvent /\ Told \subseteq DepthEvent
  BY DEF DepthEvent, TradeEvent
<1>4. CASE Tick
  <2>1. now' \in Times /\ changedAt <= now'
    BY <1>1, <1>4, DetectorAssumption DEF Tick, Times, DetectorAssumption
  <2>2. QED
    BY <1>2, <1>4, <2>1 DEF Tick, TypeInv
<1>5. ASSUME NEW p \in Prices, Execute(p)
      PROVE  TypeInv'
  <2>1. market[p] \in Nat /\ market[p] <= MaxQty[p] /\ market[p] > 0
    BY <1>1, <1>5 DEF Quantities, Execute
  <2>2. market[p] - 1 \in Nat /\ market[p] - 1 <= MaxQty[p] /\ Change(p, market[p] - 1)
    BY <1>5, <2>1, DetectorAssumption DEF Execute, DetectorAssumption
  <2>3. Trade(p, changes + 1) \in TradeEvent
    BY <1>1, <1>3 DEF Trade, Trades
  <2>4. tradeQueue' \in Seq(TradeEvent)
    BY <1>1, <1>5, <2>3, AppendIs DEF Execute
  <2>5. QED
    BY <1>1, <1>2, <2>2, <2>4, ChangeTypes DEF Change, TypeInv
<1>6. ASSUME NEW p \in Prices, NEW qty \in Qty(p), Reprice(p, qty)
      PROVE  TypeInv'
  <2>1. qty \in Nat /\ qty <= MaxQty[p] /\ Change(p, qty)
    BY <1>6, DetectorAssumption DEF Reprice, Qty, DetectorAssumption
  <2>2. QED
    BY <1>1, <1>2, <1>6, <2>1, ChangeTypes DEF Reprice, Change, TypeInv
<1>7. CASE DepthConnect
  <2>1. Quality("Synchronizing") \in DepthEvent
    BY <1>1, <1>3 DEF Quality, Told
  <2>2. depthQueue' \in Seq(DepthEvent)
    BY <1>1, <1>7, <2>1, AppendIs DEF DepthConnect
  <2>3. QED
    BY <1>2, <1>7, <2>2 DEF DepthConnect, TypeInv, marketVars
<1>8. CASE DepthBoundary
  <2>1. updateId' \in Nat
    BY <1>1, <1>8 DEF DepthBoundary
  <2>2. Book(TRUE, updateId', {p \in Prices : market[p] > 0}) \in DepthEvent
    <3>1. Book(TRUE, updateId', {p \in Prices : market[p] > 0}) \in Books
      BY <2>1, BookEventIs
    <3>2. QED
      BY <1>3, <3>1
  <2>3. Quality("Healthy") \in DepthEvent
    BY <1>1, <1>3 DEF Quality, Told
  <2>4. depthQueue' \in Seq(DepthEvent)
    <3>1. depthQueue' = depthQueue \o
            <<Book(TRUE, updateId', {p \in Prices : market[p] > 0}), Quality("Healthy")>>
      BY <1>8 DEF DepthBoundary
    <3>2. ASSUME NEW f \in DepthEvent, NEW g \in DepthEvent
          PROVE  <<f, g>> \in Seq(DepthEvent)
      OBVIOUS
    <3>3. <<Book(TRUE, updateId', {p \in Prices : market[p] > 0}), Quality("Healthy")>>
            \in Seq(DepthEvent)
      BY <2>2, <2>3, <3>2
    <3>4. QED
      BY <1>1, <3>1, <3>3, ConcatProperties
  <2>5. QED
    BY <1>2, <1>8, <2>1, <2>4 DEF DepthBoundary, TypeInv
<1>9. CASE DepthUpdate
  <2>1. updateId' \in Nat /\ Book(FALSE, updateId', changed) \in DepthEvent
    <3>1. updateId' \in Nat /\ changed \subseteq Prices
      BY <1>1, <1>9 DEF DepthUpdate, TypeInv
    <3>2. Book(FALSE, updateId', changed) \in Books
      BY <3>1, BookEventIs
    <3>3. QED
      BY <1>3, <3>1, <3>2
  <2>2. depthQueue' \in Seq(DepthEvent)
    <3>1. depthQueue' \in {depthQueue, Append(depthQueue, Book(FALSE, updateId', changed))}
      BY <1>9 DEF DepthUpdate
    <3>2. Append(depthQueue, Book(FALSE, updateId', changed)) \in Seq(DepthEvent)
      BY <1>1, <2>1, AppendProperties
    <3>3. QED
      BY <1>1, <3>1, <3>2
  <2>3. QED
    BY <1>2, <1>9, <2>1, <2>2 DEF DepthUpdate, TypeInv
<1>10. CASE DepthGap
  <2>1. Break("Gap", "depth") \in DepthEvent
    BY <1>3 DEF Break, Breaks
  <2>2. depthQueue' \in Seq(DepthEvent) /\ updateId' \in Nat /\ breaks' \in Nat
    BY <1>1, <1>10, <2>1, AppendIs DEF DepthGap
  <2>3. QED
    BY <1>2, <1>10, <2>2 DEF DepthGap, TypeInv
<1>11. CASE DepthDisconnect
  <2>1. Break("Degraded", "depth") \in DepthEvent
    BY <1>3 DEF Break, Breaks
  <2>2. depthQueue' \in Seq(DepthEvent) /\ breaks' \in Nat
    BY <1>1, <1>11, <2>1, AppendIs DEF DepthDisconnect
  <2>3. QED
    BY <1>2, <1>11, <2>2 DEF DepthDisconnect, TypeInv, marketVars
<1>12. CASE TradeDisconnect
  <2>1. Break("Degraded", "trade") \in TradeEvent
    BY <1>3 DEF Break, Breaks
  <2>2. tradeQueue' \in Seq(TradeEvent) /\ breaks' \in Nat
    BY <1>1, <1>12, <2>1, AppendIs DEF TradeDisconnect
  <2>3. QED
    BY <1>2, <1>12, <2>2 DEF TradeDisconnect, TypeInv, marketVars
<1>13. QED
  BY <1>4, <1>5, <1>6, <1>7, <1>8, <1>9, <1>10, <1>11, <1>12 DEF Outside

LEMMA SyncTypes ==
  ASSUME TypeInv, SyncRequirements
  PROVE  consumed' \in BOOLEAN /\ toggles' \in Nat /\ releasedAt' \in Nat
<1>1. consumed \in BOOLEAN /\ toggles \in Nat /\ releasedAt \in Nat /\ now \in Nat
  BY TimesAre DEF TypeInv
<1>2. CASE UNCHANGED <<consumed, toggles, releasedAt>>
  BY <1>1, <1>2
<1>3. CASE toggles' = toggles + 1 /\ consumed' = ~consumed
             /\ releasedAt' = (IF consumed THEN now ELSE 0)
  <2>1. toggles' \in Nat
    BY <1>1, <1>3
  <2>2. consumed' \in BOOLEAN
    BY <1>3
  <2>3. releasedAt' \in Nat
    BY <1>1, <1>3
  <2>4. QED
    BY <2>1, <2>2, <2>3
<1>4. QED
  BY <1>2, <1>3 DEF SyncRequirements

LEMMA IngestTypes ==
  ASSUME TypeInv, InSort(buffer), NEW e \in DepthEvent \cup TradeEvent, Ingest(e),
         depthQueue' \in Seq(DepthEvent), tradeQueue' \in Seq(TradeEvent)
  PROVE  TypeInv' /\ InSort(buffer')
<1>1. consumed' \in BOOLEAN /\ toggles' \in Nat /\ releasedAt' \in Nat
  BY SyncTypes DEF Ingest
<1>2. missed' \in BOOLEAN /\ resyncing' \in BOOLEAN
  BY DEF Ingest, TypeInv
<1>3. /\ DetectorOK(detector') /\ seenBook' \in Totals
      /\ seenChange' \in [trade: Nat, book: Nat, added: Totals, disordered: BOOLEAN]
      /\ buffer' \in Seq(Entry) /\ Len(buffer') <= MaxReorder /\ InSort(buffer')
      /\ latest' \in Times
  <2>1. CASE consumed'
    BY <2>1, ConsumeTypes DEF Ingest
  <2>2. CASE ~consumed'
    BY <2>2 DEF Ingest, TypeInv, detectorVars, InSort
  <2>3. QED
    BY <2>1, <2>2
<1>4. UNCHANGED <<now, market, added, changed, changes, changedAt, updateId, breaks, feed>>
  BY DEF Ingest, marketVars
<1>5. QED
  BY <1>1, <1>2, <1>3, <1>4 DEF TypeInv

LEMMA StepTypes ==
  ASSUME TypeInv, InSort(buffer), [Next]_vars
  PROVE  TypeInv' /\ InSort(buffer')
<1>1. /\ depthQueue \in Seq(DepthEvent) /\ tradeQueue \in Seq(TradeEvent)
      /\ buffer \in Seq(Entry) /\ Len(buffer) <= MaxReorder /\ Len(buffer) \in Nat
      /\ MaxReorder \in Nat
  BY LenProperties, DetectorAssumption DEF TypeInv, DetectorAssumption
<1>2. CASE Outside
  <2>1. buffer' = buffer
    BY <1>2 DEF Outside, Tick, Execute, Reprice, Change, DepthConnect, DepthBoundary, DepthUpdate,
       DepthGap, DepthDisconnect, TradeDisconnect, insideVars, detectorVars
  <2>2. QED
    BY <1>2, <2>1, OutsideTypes
<1>3. CASE OtherMarketEvent
  <2>1. consumed' \in BOOLEAN /\ toggles' \in Nat /\ releasedAt' \in Nat
    BY <1>3, SyncTypes DEF OtherMarketEvent
  <2>2. QED
    BY <1>3, <2>1 DEF OtherMarketEvent, TypeInv, marketVars, detectorVars, historyVars
<1>4. CASE CollectGarbage
  <2>1. DetectorOK(detector')
    BY <1>4, FreshIs DEF CollectGarbage, Qualities
  <2>2. /\ buffer' \in Seq(Entry) /\ Len(buffer') <= MaxReorder /\ InSort(buffer')
        /\ latest' \in Times
    BY <1>1, <1>4, EmptySeq, DetectorAssumption DEF CollectGarbage, InSort, Times, DetectorAssumption
  <2>3. QED
    BY <1>4, <2>1, <2>2 DEF CollectGarbage, TypeInv, marketVars, historyVars
<1>5. CASE IngestDepth
  <2>1. Head(depthQueue) \in DepthEvent /\ depthQueue' \in Seq(DepthEvent)
    BY <1>1, <1>5, TailIs DEF IngestDepth
  <2>2. QED
    BY <1>1, <1>5, <2>1, IngestTypes DEF IngestDepth
<1>6. CASE IngestTrade
  <2>1. Head(tradeQueue) \in TradeEvent /\ tradeQueue' \in Seq(TradeEvent)
    BY <1>1, <1>6, TailIs DEF IngestTrade
  <2>2. QED
    BY <1>1, <1>6, <2>1, IngestTypes DEF IngestTrade
<1>7. CASE Drain
  <2>1. buffer # <<>> /\ DetectorOK(detector') /\ NoteProcessed(Head(buffer).event)
        /\ buffer' = Tail(buffer)
    BY <1>7, DrainIs DEF Pop
  <2>2. /\ seenBook' \in Totals
        /\ seenChange' \in [trade: Nat, book: Nat, added: Totals, disordered: BOOLEAN]
    BY <2>1, NoteTypes
  <2>3. buffer' \in Seq(Entry) /\ Len(buffer') <= MaxReorder /\ InSort(buffer')
    BY <1>1, <2>1, TailIs, TailSort
  <2>4. QED
    BY <1>7, <2>1, <2>2, <2>3 DEF Drain, TypeInv, marketVars, registryVars
<1>8. CASE UNCHANGED vars
  BY <1>8 DEF vars, marketVars, insideVars, registryVars, detectorVars, historyVars, TypeInv
<1>9. QED
  BY <1>2, <1>3, <1>4, <1>5, <1>6, <1>7, <1>8 DEF Next

LEMMA TypesGive == TypeInv => TypeOK
<1>1. ASSUME TypeInv
      PROVE  TypeOK
  BY <1>1 DEF TypeInv, TypeOK, DetectorOK, Detectors
<1>2. QED
  BY <1>1

(* The detector's state is well formed, with its bounds: no more episodes, *)
(* samples and waiting events than MAX_EPISODES, MAX_SAMPLES and           *)
(* MAX_REORDER_EVENTS allow.                                               *)
THEOREM TypeCorrect == Spec => []TypeOK
<1> DEFINE Inv == TypeInv /\ InSort(buffer)
<1>1. Init => Inv
  BY InitTypes, EmptySeq DEF Init, InSort
<1>2. Inv /\ [Next]_vars => Inv'
  BY StepTypes
<1>3. Inv => TypeOK
  BY TypesGive
<1>4. QED
  BY <1>1, <1>2, <1>3, PTL DEF Spec

-----------------------------------------------------------------------------
(* No detection while the depth stream is out of step *)

(* Whether the depth stream is between a break and its boundary just       *)
(* before the i-th event of its queue.                                     *)
AwaitsAt(q, r, i) ==
  \/ r /\ \A j \in 1..(i - 1) : ~IsBoundary(q[j])
  \/ \E k \in 1..(i - 1) : IsBreak(q[k]) /\ \A j \in (k + 1)..(i - 1) : ~IsBoundary(q[j])

ExpectedAt(q, r, i) ==
  IF AwaitsAt(q, r, i)
  THEN ~IsHealthy(q[i]) /\ (IsBook(q[i]) => q[i].boundary)
  ELSE IsBook(q[i]) => ~q[i].boundary

Expected(q, r) == \A i \in 1..Len(q) : ExpectedAt(q, r, i)

(* The adapter ends a break with a boundary, and tells Healthy only then.  *)
QueueInv ==
  /\ Expected(depthQueue, resyncing)
  /\ feed = "live" <=> ~AwaitsAt(depthQueue, resyncing, Len(depthQueue) + 1)

Bare(d) == \A p \in Prices : d.levels[p] = NoLevel

Absent == detector = Fresh("Synchronizing", {}) /\ buffer = <<>> /\ latest = 0

Calm(e) == ~IsBook(e) /\ ~IsHealthy(e)

(* Neither the detector nor what waits in the buffer can detect anything.  *)
Quiet(d, b) ==
  /\ d.quality # "Healthy" /\ Open(d) = {} /\ Bare(d)
  /\ \A i \in 1..Len(b) : Calm(b[i].event)

ResyncInv ==
  /\ now > 0
  /\ ~consumed /\ releasedAt = 0 => Absent
  /\ resyncing /\ ~missed => Quiet(detector, buffer)

LEMMA AwaitsFirst ==
  ASSUME NEW q, NEW r \in BOOLEAN
  PROVE  AwaitsAt(q, r, 1) <=> r
<1>1. 1..(1 - 1) = {}
  OBVIOUS
<1>2. QED
  BY <1>1 DEF AwaitsAt

LEMMA AwaitsAppend ==
  ASSUME NEW q \in Seq(DepthEvent), NEW r \in BOOLEAN, NEW e \in DepthEvent
  PROVE  /\ \A i \in 1..(Len(q) + 1) : AwaitsAt(Append(q, e), r, i) <=> AwaitsAt(q, r, i)
         /\ AwaitsAt(Append(q, e), r, Len(q) + 2)
              <=> IsBreak(e) \/ (AwaitsAt(q, r, Len(q) + 1) /\ ~IsBoundary(e))
<1> DEFINE t == Append(q, e)
           n == Len(q)
<1>1. n \in Nat /\ t[n + 1] = e /\ \A i \in 1..n : t[i] = q[i]
  BY AppendIs
<1> HIDE DEF t
<1>2. ASSUME NEW i \in 1..(n + 1)
      PROVE  AwaitsAt(t, r, i) <=> AwaitsAt(q, r, i)
  <2>1. \A j \in 1..(i - 1) : t[j] = q[j]
    BY <1>1
  <2>2. \A k \in 1..(i - 1) : \A j \in (k + 1)..(i - 1) : j \in 1..(i - 1)
    BY <1>1
  <2>3. QED
    BY <2>1, <2>2 DEF AwaitsAt
<1>3. AwaitsAt(t, r, n + 2) <=> IsBreak(e) \/ (AwaitsAt(q, r, n + 1) /\ ~IsBoundary(e))
  <2>1. (n + 2) - 1 = n + 1 /\ (n + 1) - 1 = n
    BY <1>1
  <2>2. \A j \in 1..(n + 1) : j \in 1..n \/ j = n + 1
    BY <1>1
  <2>3. 1..n \subseteq 1..(n + 1) /\ n + 1 \in 1..(n + 1)
    BY <1>1
  <2>4. \A k \in 1..n : /\ n + 1 \in (k + 1)..(n + 1)
                        /\ \A j \in (k + 1)..n : j \in (k + 1)..(n + 1) /\ j \in 1..n
                        /\ \A j \in (k + 1)..(n + 1) : j \in (k + 1)..n \/ j = n + 1
    BY <1>1
  <2>5. (n + 1 + 1)..(n + 1) = {}
    BY <1>1
  <2>6. (\A j \in 1..(n + 1) : ~IsBoundary(t[j]))
          <=> ((\A j \in 1..n : ~IsBoundary(q[j])) /\ ~IsBoundary(e))
    BY <1>1, <2>2, <2>3
  <2>7. ASSUME NEW k \in 1..n
        PROVE  (\A j \in (k + 1)..(n + 1) : ~IsBoundary(t[j]))
                 <=> ((\A j \in (k + 1)..n : ~IsBoundary(q[j])) /\ ~IsBoundary(e))
    BY <1>1, <2>4
  <2>8. IsBreak(e) => ~IsBoundary(e)
    BY DEF IsBreak, IsBoundary
  <2>9. (\E k \in 1..(n + 1) : IsBreak(t[k]) /\ \A j \in (k + 1)..(n + 1) : ~IsBoundary(t[j]))
          <=> \/ IsBreak(e)
              \/ \E k \in 1..n : /\ IsBreak(q[k]) /\ \A j \in (k + 1)..n : ~IsBoundary(q[j])
                                 /\ ~IsBoundary(e)
    BY <1>1, <2>2, <2>3, <2>5, <2>7
  <2>10. QED
    BY <2>1, <2>6, <2>8, <2>9 DEF AwaitsAt
<1>4. QED
  BY <1>2, <1>3 DEF t

LEMMA AwaitsTail ==
  ASSUME NEW q \in Seq(DepthEvent), q # <<>>, NEW r \in BOOLEAN, NEW s \in BOOLEAN,
         s <=> IsBreak(Head(q)) \/ (r /\ ~IsBoundary(Head(q)))
  PROVE  \A i \in 1..(Len(Tail(q)) + 1) : AwaitsAt(Tail(q), s, i) <=> AwaitsAt(q, r, i + 1)
<1> DEFINE t == Tail(q)
<1>1. /\ Len(q) \in Nat \ {0} /\ Len(t) = Len(q) - 1 /\ Head(q) = q[1]
      /\ \A i \in 1..Len(t) : i + 1 \in 1..Len(q) /\ t[i] = q[i + 1]
  BY TailIs
<1> HIDE DEF t
<1>2. ASSUME NEW i \in 1..(Len(t) + 1)
      PROVE  AwaitsAt(t, s, i) <=> AwaitsAt(q, r, i + 1)
  <2>1. i \in Nat \ {0} /\ (i + 1) - 1 = i
    BY <1>1
  <2>2. \A j \in 1..(i - 1) : t[j] = q[j + 1] /\ j + 1 \in 1..i /\ j + 1 \in 2..i
    BY <1>1, <2>1
  <2>3. \A j \in 1..i : j = 1 \/ (j \in 2..i /\ j - 1 \in 1..(i - 1) /\ t[j - 1] = q[j])
    <3>1. ASSUME NEW j \in 1..i, j # 1
          PROVE  j \in 2..i /\ j - 1 \in 1..(i - 1) /\ (j - 1) + 1 = j
      BY <2>1, <3>1
    <3>2. QED
      BY <2>2, <3>1
  <2>4. (\A j \in 2..i : ~IsBoundary(q[j])) <=> (\A j \in 1..(i - 1) : ~IsBoundary(t[j]))
    <3>1. \A j \in 2..i : j \in 1..i /\ j # 1
      BY <2>1
    <3>2. QED
      BY <2>2, <2>3, <3>1
  <2>5. (\A j \in 1..i : ~IsBoundary(q[j]))
          <=> (~IsBoundary(q[1]) /\ \A j \in 2..i : ~IsBoundary(q[j]))
    <3>1. 2..i \subseteq 1..i /\ 1 \in 1..i
      BY <2>1
    <3>2. QED
      BY <2>3, <3>1
  <2>6. ASSUME NEW k \in 1..(i - 1)
        PROVE  (\A j \in (k + 1)..(i - 1) : ~IsBoundary(t[j]))
                 <=> (\A j \in ((k + 1) + 1)..i : ~IsBoundary(q[j]))
    <3>1. \A j \in (k + 1)..(i - 1) : j \in 1..(i - 1) /\ j + 1 \in ((k + 1) + 1)..i
      BY <2>1
    <3>2. \A j \in ((k + 1) + 1)..i : j \in 1..i /\ j # 1 /\ j - 1 \in (k + 1)..(i - 1)
      BY <2>1
    <3>3. QED
      BY <2>2, <2>3, <3>1, <3>2
  <2>7. (\E k \in 1..i : IsBreak(q[k]) /\ \A j \in (k + 1)..i : ~IsBoundary(q[j]))
          <=> \/ IsBreak(q[1]) /\ \A j \in 2..i : ~IsBoundary(q[j])
              \/ \E k \in 1..(i - 1) : IsBreak(t[k]) /\ \A j \in (k + 1)..(i - 1) : ~IsBoundary(t[j])
    <3>1. ASSUME NEW k \in 1..i, k # 1
          PROVE  (\A j \in (k + 1)..i : ~IsBoundary(q[j]))
                   <=> (\A j \in k..(i - 1) : ~IsBoundary(t[j]))
      <4>1. k - 1 \in 1..(i - 1) /\ (k - 1) + 1 = k
        BY <2>1, <3>1
      <4>2. QED
        BY <2>6, <4>1
    <3>2. 1 + 1 = 2 /\ 1 \in 1..i
      BY <2>1
    <3>3. ASSUME NEW k \in 1..i, k # 1
          PROVE  k - 1 \in 1..(i - 1) /\ t[k - 1] = q[k] /\ (k - 1) + 1 = k
      <4>1. (k - 1) + 1 = k
        BY <2>1, <3>3
      <4>2. QED
        BY <2>3, <3>3, <4>1
    <3>4. (\E k \in 1..i : IsBreak(q[k]) /\ \A j \in (k + 1)..i : ~IsBoundary(q[j]))
            => \/ IsBreak(q[1]) /\ \A j \in 2..i : ~IsBoundary(q[j])
               \/ \E k \in 1..(i - 1) :
                    IsBreak(t[k]) /\ \A j \in (k + 1)..(i - 1) : ~IsBoundary(t[j])
      <4> SUFFICES ASSUME NEW k \in 1..i, IsBreak(q[k]), \A j \in (k + 1)..i : ~IsBoundary(q[j])
                   PROVE  \/ IsBreak(q[1]) /\ \A j \in 2..i : ~IsBoundary(q[j])
                          \/ \E l \in 1..(i - 1) :
                               IsBreak(t[l]) /\ \A j \in (l + 1)..(i - 1) : ~IsBoundary(t[j])
        OBVIOUS
      <4>1. CASE k = 1
        BY <3>2, <4>1
      <4>2. CASE k # 1
        <5>1. \A j \in ((k - 1) + 1)..(i - 1) : ~IsBoundary(t[j])
          BY <3>1, <3>3, <4>2
        <5>2. QED
          BY <3>3, <4>2, <5>1
      <4>3. QED
        BY <4>1, <4>2
    <3>5. ASSUME NEW k \in 1..(i - 1), IsBreak(t[k]),
                 \A j \in (k + 1)..(i - 1) : ~IsBoundary(t[j])
          PROVE  \E l \in 1..i : IsBreak(q[l]) /\ \A j \in (l + 1)..i : ~IsBoundary(q[j])
      BY <2>2, <2>6, <3>5
    <3>6. QED
      BY <3>2, <3>4, <3>5
  <2>8. QED
    BY <1>1, <2>1, <2>4, <2>5, <2>7 DEF AwaitsAt
<1>3. QED
  BY <1>2 DEF t

LEMMA ExpectedAppend ==
  ASSUME NEW q \in Seq(DepthEvent), NEW r \in BOOLEAN, NEW e \in DepthEvent, Expected(q, r),
         IF AwaitsAt(q, r, Len(q) + 1)
         THEN ~IsHealthy(e) /\ (IsBook(e) => e.boundary)
         ELSE IsBook(e) => ~e.boundary
  PROVE  Expected(Append(q, e), r)
<1> DEFINE t == Append(q, e)
<1>1. /\ Len(q) \in Nat /\ Len(t) = Len(q) + 1 /\ t[Len(q) + 1] = e
      /\ \A i \in 1..Len(q) : t[i] = q[i]
  BY AppendIs
<1>2. \A i \in 1..(Len(q) + 1) : AwaitsAt(t, r, i) <=> AwaitsAt(q, r, i)
  BY AwaitsAppend
<1> HIDE DEF t
<1>3. ASSUME NEW i \in 1..Len(t)
      PROVE  ExpectedAt(t, r, i)
  <2>1. CASE i \in 1..Len(q)
    <3>1. i \in 1..(Len(q) + 1) /\ t[i] = q[i] /\ ExpectedAt(q, r, i)
      BY <1>1, <1>3, <2>1 DEF Expected
    <3>2. QED
      BY <1>2, <3>1 DEF ExpectedAt
  <2>2. CASE i = Len(q) + 1
    <3>1. i \in 1..(Len(q) + 1) /\ t[i] = e
      BY <1>1, <2>2
    <3>2. QED
      BY <1>2, <2>2, <3>1 DEF ExpectedAt
  <2>3. QED
    BY <1>1, <1>3, <2>1, <2>2
<1>4. QED
  BY <1>3 DEF Expected, t

(* A queue and the adapter's state after one more event.                   *)
LEMMA QueuePush ==
  ASSUME NEW q \in Seq(DepthEvent), NEW r \in BOOLEAN, NEW e \in DepthEvent,
         Expected(q, r),
         IF AwaitsAt(q, r, Len(q) + 1)
         THEN ~IsHealthy(e) /\ (IsBook(e) => e.boundary)
         ELSE IsBook(e) => ~e.boundary
  PROVE  /\ Expected(Append(q, e), r)
         /\ AwaitsAt(Append(q, e), r, Len(Append(q, e)) + 1)
              <=> IsBreak(e) \/ (AwaitsAt(q, r, Len(q) + 1) /\ ~IsBoundary(e))
<1>1. Len(q) \in Nat /\ Len(Append(q, e)) = Len(q) + 1 /\ (Len(q) + 1) + 1 = Len(q) + 2
  BY AppendIs
<1>2. QED
  BY <1>1, ExpectedAppend, AwaitsAppend

LEMMA QueuePop ==
  ASSUME NEW q \in Seq(DepthEvent), q # <<>>, NEW r \in BOOLEAN, NEW s \in BOOLEAN,
         s <=> IsBreak(Head(q)) \/ (r /\ ~IsBoundary(Head(q))),
         Expected(q, r)
  PROVE  /\ Expected(Tail(q), s)
         /\ AwaitsAt(Tail(q), s, Len(Tail(q)) + 1) <=> AwaitsAt(q, r, Len(q) + 1)
         /\ r => Calm(Head(q)) \/ IsBoundary(Head(q))
<1> DEFINE t == Tail(q)
<1>1. /\ Len(q) \in Nat \ {0} /\ Len(t) = Len(q) - 1 /\ Head(q) = q[1] /\ 1 \in 1..Len(q)
      /\ \A i \in 1..Len(t) : i + 1 \in 1..Len(q) /\ t[i] = q[i + 1]
  BY TailIs
<1>2. \A i \in 1..(Len(t) + 1) : AwaitsAt(t, s, i) <=> AwaitsAt(q, r, i + 1)
  BY AwaitsTail
<1> HIDE DEF t
<1>3. ASSUME NEW i \in 1..Len(t)
      PROVE  ExpectedAt(t, s, i)
  <2>1. i \in 1..(Len(t) + 1) /\ t[i] = q[i + 1] /\ ExpectedAt(q, r, i + 1)
    BY <1>1, <1>3 DEF Expected
  <2>2. QED
    BY <1>2, <2>1 DEF ExpectedAt
<1>4. AwaitsAt(t, s, Len(t) + 1) <=> AwaitsAt(q, r, Len(q) + 1)
  <2>1. Len(t) + 1 \in 1..(Len(t) + 1) /\ (Len(t) + 1) + 1 = Len(q) + 1
    BY <1>1
  <2>2. QED
    BY <1>2, <2>1
<1>5. r => Calm(Head(q)) \/ IsBoundary(Head(q))
  <2>1. ExpectedAt(q, r, 1) /\ (AwaitsAt(q, r, 1) <=> r)
    BY <1>1, AwaitsFirst DEF Expected
  <2>2. QED
    BY <1>1, <2>1 DEF ExpectedAt, Calm, IsBook, IsBoundary
<1>6. QED
  BY <1>3, <1>4, <1>5 DEF Expected, t

(* What an ingested event makes of resyncing.                              *)
LEMMA ResyncingIs ==
  ASSUME TypeInv, NEW e, Ingest(e)
  PROVE  /\ e \in DepthEvent =>
              /\ OfDepth(e)
              /\ resyncing' <=> IsBreak(e) \/ (resyncing /\ ~IsBoundary(e))
         /\ e \in TradeEvent => resyncing' = resyncing /\ ~OfDepth(e)
         /\ resyncing' \in BOOLEAN /\ resyncing \in BOOLEAN
<1>1. resyncing \in BOOLEAN
  BY DEF TypeInv
<1>2. resyncing' = IF e.type = "Break" THEN resyncing \/ OfDepth(e)
                   ELSE resyncing /\ ~(e.type = "Book" /\ e.boundary)
  BY DEF Ingest
<1>3. ASSUME e \in DepthEvent
      PROVE  OfDepth(e)
  BY <1>3 DEF OfDepth, DepthEvent, Books, Told, Breaks
<1>4. ASSUME e \in TradeEvent
      PROVE  ~OfDepth(e) /\ e.type # "Book"
  BY <1>4 DEF OfDepth, TradeEvent, Trades, Breaks
<1>5. resyncing' \in BOOLEAN
  BY <1>1, <1>2
<1>6. e \in DepthEvent => (resyncing' <=> IsBreak(e) \/ (resyncing /\ ~IsBoundary(e)))
  BY <1>1, <1>2, <1>3 DEF IsBreak, IsBoundary
<1>7. e \in TradeEvent => resyncing' = resyncing
  BY <1>1, <1>2, <1>4
<1>8. QED
  BY <1>1, <1>3, <1>4, <1>5, <1>6, <1>7

LEMMA Concat2 ==
  ASSUME NEW q \in Seq(DepthEvent), NEW e \in DepthEvent, NEW f \in DepthEvent
  PROVE  q \o <<e, f>> = Append(Append(q, e), f)
  OBVIOUS

LEMMA QueueStep ==
  ASSUME TypeInv, QueueInv, [Next]_vars
  PROVE  QueueInv'
<1> DEFINE q == depthQueue
<1>1. q \in Seq(DepthEvent) /\ resyncing \in BOOLEAN /\ feed \in {"down", "syncing", "live"}
      /\ updateId \in Nat
  BY DEF TypeInv
<1>2. ASSUME UNCHANGED <<depthQueue, resyncing, feed>>
      PROVE  QueueInv'
  BY <1>2 DEF QueueInv
<1>3. ASSUME NEW e \in DepthEvent, depthQueue' = Append(depthQueue, e), resyncing' = resyncing,
             IF feed = "live" THEN IsBook(e) => ~e.boundary
             ELSE ~IsHealthy(e) /\ (IsBook(e) => e.boundary),
             feed' = "live" <=> ~(IsBreak(e) \/ (feed # "live" /\ ~IsBoundary(e)))
      PROVE  QueueInv'
  BY <1>1, <1>3, QueuePush DEF QueueInv
<1>4. DepthEvent = Books \cup Told \cup Breaks("depth")
  BY DEF DepthEvent
<1>5. CASE DepthConnect
  <2>1. Quality("Synchronizing") \in DepthEvent /\ feed = "down" /\ feed' = "syncing"
    BY <1>4, <1>5 DEF Quality, Told, DepthConnect, TypeInv
  <2>2. ~IsHealthy(Quality("Synchronizing")) /\ ~IsBook(Quality("Synchronizing"))
        /\ ~IsBoundary(Quality("Synchronizing"))
    BY DEF Quality, IsHealthy, IsBook, IsBoundary
  <2>3. resyncing' = resyncing /\ depthQueue' = Append(depthQueue, Quality("Synchronizing"))
    BY <1>5 DEF DepthConnect, insideVars, historyVars
  <2>4. QED
    BY <1>3, <2>1, <2>2, <2>3
<1>6. CASE DepthBoundary
  <2> DEFINE e == Book(TRUE, updateId', {p \in Prices : market[p] > 0})
             f == Quality("Healthy")
  <2>1. updateId' \in Nat
    BY <1>1, <1>6 DEF DepthBoundary
  <2>2. e \in DepthEvent /\ IsBook(e) /\ IsBoundary(e) /\ ~IsHealthy(e) /\ ~IsBreak(e)
    BY <1>4, <2>1, BookEventIs DEF Book, IsBoundary, IsHealthy, IsBreak
  <2>3. f \in DepthEvent /\ ~IsBook(f) /\ ~IsBoundary(f) /\ ~IsBreak(f)
    BY <1>4 DEF Quality, Told, TypeInv, IsBook, IsBoundary, IsBreak
  <2>4. feed = "syncing" /\ feed' = "live" /\ resyncing' = resyncing
        /\ depthQueue' = depthQueue \o <<e, f>>
    BY <1>6 DEF DepthBoundary, insideVars, historyVars
  <2> HIDE DEF e, f
  <2>5. depthQueue' = Append(Append(q, e), f) /\ Append(q, e) \in Seq(DepthEvent)
    BY <1>1, <2>2, <2>3, <2>4, Concat2, AppendIs
  <2>6. /\ Expected(Append(q, e), resyncing)
        /\ ~AwaitsAt(Append(q, e), resyncing, Len(Append(q, e)) + 1)
    BY <1>1, <2>2, <2>4, QueuePush DEF QueueInv, IsBoundary, IsBook
  <2>7. /\ Expected(Append(Append(q, e), f), resyncing)
        /\ ~AwaitsAt(Append(Append(q, e), f), resyncing, Len(Append(Append(q, e), f)) + 1)
    BY <1>1, <2>3, <2>5, <2>6, QueuePush
  <2>8. QED
    BY <2>4, <2>5, <2>7 DEF QueueInv
<1>7. CASE DepthUpdate
  <2>1. CASE feed = "live"
    <3>1. updateId' \in Nat /\ changed \in SUBSET Prices
      BY <1>1, <1>7 DEF DepthUpdate, TypeInv
    <3>2. /\ Book(FALSE, updateId', changed) \in DepthEvent
          /\ IsBook(Book(FALSE, updateId', changed)) /\ ~Book(FALSE, updateId', changed).boundary
      BY <1>4, <3>1, BookEventIs
    <3>3. /\ depthQueue' = Append(depthQueue, Book(FALSE, updateId', changed))
          /\ resyncing' = resyncing /\ feed' = feed
      BY <1>7, <2>1 DEF DepthUpdate, insideVars, historyVars
    <3>4. ~IsBreak(Book(FALSE, updateId', changed))
      BY DEF Book, IsBreak
    <3>5. QED
      BY <1>3, <2>1, <3>2, <3>3, <3>4
  <2>2. CASE feed # "live"
    BY <1>2, <1>7, <2>2 DEF DepthUpdate, insideVars, historyVars
  <2>3. QED
    BY <2>1, <2>2
<1>8. CASE DepthGap \/ DepthDisconnect
  <2>1. PICK quality \in {"Gap", "Degraded"} :
          depthQueue' = Append(depthQueue, Break(quality, "depth"))
    BY <1>8 DEF DepthGap, DepthDisconnect
  <2>2. /\ Break(quality, "depth") \in DepthEvent /\ IsBreak(Break(quality, "depth"))
        /\ ~IsBook(Break(quality, "depth")) /\ ~IsHealthy(Break(quality, "depth"))
    BY <1>4, <2>1 DEF Break, Breaks, IsBreak, IsBook, IsHealthy
  <2>3. resyncing' = resyncing /\ feed' # "live"
    BY <1>8 DEF DepthGap, DepthDisconnect, insideVars, historyVars
  <2>4. QED
    BY <1>3, <2>1, <2>2, <2>3
<1>9. CASE IngestDepth
  <2>1. /\ q # <<>> /\ Head(q) \in DepthEvent /\ depthQueue' = Tail(q) /\ Ingest(Head(q))
        /\ feed' = feed
    BY <1>1, <1>9, TailIs DEF IngestDepth, Ingest
  <2>2. /\ resyncing' <=> IsBreak(Head(q)) \/ (resyncing /\ ~IsBoundary(Head(q)))
        /\ resyncing' \in BOOLEAN
    BY <2>1, ResyncingIs
  <2>3. QED
    BY <1>1, <2>1, <2>2, QueuePop DEF QueueInv
<1>10. CASE IngestTrade
  <2>1. /\ Ingest(Head(tradeQueue)) /\ Head(tradeQueue) \in TradeEvent
        /\ UNCHANGED <<depthQueue, feed>>
    BY <1>10, TailIs DEF IngestTrade, TypeInv, Ingest
  <2>2. QED
    BY <1>2, <2>1, ResyncingIs
<1>11. CASE \/ Tick \/ TradeDisconnect \/ OtherMarketEvent \/ CollectGarbage \/ Drain
            \/ \E p \in Prices : Execute(p) \/ \E qty \in Qty(p) : Reprice(p, qty)
  BY <1>2, <1>11 DEF Tick, TradeDisconnect, OtherMarketEvent, CollectGarbage, Drain, Execute,
     Reprice, Change, insideVars, historyVars
<1>12. CASE UNCHANGED vars
  BY <1>2, <1>12 DEF vars, insideVars, historyVars
<1>13. QED
  BY <1>5, <1>6, <1>7, <1>8, <1>9, <1>10, <1>11, <1>12 DEF Next, Outside

LEMMA QuietPop ==
  ASSUME NEW d, NEW b \in Seq(Entry), b # <<>>, Quiet(d, b), NEW x, Effect(d, Head(b).event, x)
  PROVE  Quiet(x, Tail(b))
<1> DEFINE e == Head(b).event
<1>1. Calm(e) /\ \A i \in 1..Len(Tail(b)) : Calm(Tail(b)[i].event)
  BY TailIs DEF Quiet
<1>2. x.quality # "Healthy" /\ Open(x) \subseteq Open(d)
  BY <1>1 DEF Effect, Quiet, Calm
<1>3. ASSUME NEW p \in Prices
      PROVE  x.levels[p] = NoLevel
  BY <1>1 DEF Effect, LevelEffect, Quiet, Bare, Calm
<1>4. QED
  BY <1>1, <1>2, <1>3 DEF Quiet, Bare

LEMMA QuietPut ==
  ASSUME NEW d, NEW s \in Seq(Entry), Quiet(d, s), InSort(s), NEW b \in Entry, Calm(b.event)
  PROVE  Quiet(d, Sorted(s, b))
<1>1. PICK k : Put(s, b, Sorted(s, b), k)
  BY PutSort
<1>2. ASSUME NEW i \in 1..Len(Sorted(s, b))
      PROVE  Calm(Sorted(s, b)[i].event)
  <2>1. \/ i \in 1..Len(s) /\ Sorted(s, b)[i] = s[i]
        \/ Sorted(s, b)[i] = b
        \/ i - 1 \in 1..Len(s) /\ Sorted(s, b)[i] = s[i - 1]
    BY <1>1, PutIs
  <2>2. QED
    BY <2>1 DEF Quiet
<1>3. QED
  BY <1>2 DEF Quiet

LEMMA QuietConsume ==
  ASSUME TypeInv, InSort(buffer), NEW e \in DepthEvent \cup TradeEvent, Consume(e),
         ~IsBreak(e) => Calm(e) /\ Quiet(detector, buffer)
  PROVE  Quiet(detector', buffer')
<1>1. buffer \in Seq(Entry) /\ detector.seen \in SUBSET Nat
  BY DEF TypeInv, DetectorOK, Detectors
<1>2. CASE /\ e \in Buffered /\ ~IsBreak(e)
           /\ buffer' = Sorted(buffer, Received(e)) /\ detector' = detector
  BY <1>1, <1>2, QuietPut, ReceivedIs
<1>3. CASE /\ e \in Buffered /\ ~IsBreak(e)
           /\ Pop(detector') /\ buffer' = Sorted(Tail(buffer), Received(e))
  <2>1. Quiet(detector', Tail(buffer)) /\ Tail(buffer) \in Seq(Entry) /\ InSort(Tail(buffer))
    BY <1>1, <1>3, QuietPop, HeadIs, TailSort DEF Pop
  <2>2. QED
    BY <1>3, <2>1, QuietPut, ReceivedIs
<1>4. CASE /\ e.quality \in {"Gap", "Degraded"}
           /\ detector' = Fresh(e.quality, detector.seen) /\ buffer' = <<>>
  <2>1. /\ Open(detector') = {} /\ detector'.quality = e.quality
        /\ \A p \in Prices : detector'.levels[p] = NoLevel
    BY <1>1, <1>4, FreshIs DEF Qualities
  <2>2. Len(buffer') = 0 /\ 1..0 = {}
    BY <1>4, EmptySeq
  <2>3. QED
    BY <1>4, <2>1, <2>2 DEF Quiet, Bare
<1>5. QED
  BY <1>2, <1>3, <1>4, ConsumeIs

LEMMA AbsentIsQuiet == Quiet(Fresh("Synchronizing", {}), <<>>)
<1> DEFINE d == Fresh("Synchronizing", {})
<1>1. /\ Open(d) = {} /\ d.quality = "Synchronizing"
      /\ \A p \in Prices : d.levels[p] = NoLevel
  BY FreshIs DEF Qualities
<1>2. Len(<<>>) = 0 /\ 1..0 = {}
  BY EmptySeq
<1> HIDE DEF d
<1>3. Quiet(d, <<>>)
  BY <1>1, <1>2 DEF Quiet, Bare
<1>4. QED
  BY <1>3 DEF d

(* A detector that is not consumed and not awaiting its removal is absent, *)
(* and was absent.                                                         *)
LEMMA StaysAbsent ==
  ASSUME TypeInv, ResyncInv, SyncRequirements, ~consumed', releasedAt' = 0
  PROVE  Absent
<1>1. now \in Nat /\ now > 0
  BY TimesAre DEF TypeInv, ResyncInv
<1>2. CASE UNCHANGED <<consumed, toggles, releasedAt>>
  BY <1>2 DEF ResyncInv
<1>3. CASE consumed' = ~consumed /\ releasedAt' = IF consumed THEN now ELSE 0
  <2>1. consumed
    BY <1>3
  <2>2. QED
    BY <1>1, <1>3, <2>1
<1>4. QED
  BY <1>2, <1>3 DEF SyncRequirements

LEMMA ResyncIngest ==
  ASSUME TypeInv, InSort(buffer), ResyncInv, NEW e \in DepthEvent \cup TradeEvent, Ingest(e),
         resyncing' /\ ~IsBreak(e) => resyncing /\ Calm(e),
         e \in DepthEvent => OfDepth(e)
  PROVE  ResyncInv'
<1>1. now' = now
  BY DEF Ingest, marketVars
<1>2. ~consumed' => UNCHANGED <<detector, buffer, latest>>
  BY DEF Ingest, detectorVars
<1>3. ~consumed' /\ releasedAt' = 0 => Absent'
  <2>1. SyncRequirements
    BY DEF Ingest
  <2>2. QED
    BY <1>2, <2>1, StaysAbsent DEF Absent
<1>4. missed \in BOOLEAN /\ resyncing \in BOOLEAN
  BY DEF TypeInv
<1>5. ASSUME resyncing', ~missed', consumed'
      PROVE  Quiet(detector, buffer)'
  <2>1. Consume(e) /\ missed' = (missed /\ ~(e.type = "Break" /\ OfDepth(e)))
    BY <1>5 DEF Ingest
  <2>2. ~IsBreak(e) => ~missed
    BY <1>4, <1>5, <2>1 DEF IsBreak
  <2>3. QED
    BY <1>5, <2>1, <2>2, QuietConsume DEF ResyncInv
<1>6. ASSUME resyncing', ~missed', ~consumed'
      PROVE  Quiet(detector, buffer)'
  <2>1. missed' = (missed \/ (OfDepth(e) /\ releasedAt' # 0)) /\ SyncRequirements
    BY <1>6 DEF Ingest
  <2>2. CASE releasedAt' = 0
    BY <1>2, <1>6, <2>1, <2>2, StaysAbsent, AbsentIsQuiet DEF Absent
  <2>3. CASE releasedAt' # 0
    <3>1. ~OfDepth(e) /\ ~missed
      BY <1>4, <1>6, <2>1, <2>3
    <3>2. resyncing
      <4>1. resyncing' = resyncing
        BY <3>1, ResyncingIs
      <4>2. QED
        BY <1>6, <4>1
    <3>3. QED
      BY <1>2, <1>6, <3>1, <3>2 DEF ResyncInv
  <2>4. QED
    BY <2>2, <2>3
<1>7. QED
  BY <1>1, <1>3, <1>5, <1>6 DEF ResyncInv

LEMMA ResyncStep ==
  ASSUME TypeInv, InSort(buffer), QueueInv, ResyncInv, [Next]_vars
  PROVE  ResyncInv'
<1>1. now \in Nat
  BY TimesAre DEF TypeInv
<1>2. ASSUME now' = now \/ now' = now + 1,
             UNCHANGED <<detector, buffer, latest, consumed, releasedAt, missed, resyncing>>
      PROVE  ResyncInv'
  <2>1. now' > 0
    BY <1>1, <1>2 DEF ResyncInv
  <2>2. QED
    BY <1>2, <2>1 DEF ResyncInv, Absent
<1>3. CASE Outside
  BY <1>2, <1>3 DEF Outside, Tick, Execute, Reprice, Change, DepthConnect, DepthBoundary,
     DepthUpdate, DepthGap, DepthDisconnect, TradeDisconnect, insideVars, detectorVars,
     registryVars, historyVars, marketVars
<1>4. CASE OtherMarketEvent
  <2>1. /\ SyncRequirements
        /\ UNCHANGED <<now, detector, buffer, latest, missed, resyncing>>
    BY <1>4 DEF OtherMarketEvent, detectorVars, historyVars, marketVars
  <2>2. ~consumed' /\ releasedAt' = 0 => Absent'
    BY <2>1, StaysAbsent DEF Absent
  <2>3. QED
    BY <2>1, <2>2 DEF ResyncInv
<1>5. CASE CollectGarbage
  <2>1. Absent' /\ now' = now
    BY <1>5 DEF CollectGarbage, Absent, marketVars
  <2>2. Quiet(detector, buffer)'
    BY <2>1, AbsentIsQuiet DEF Absent
  <2>3. QED
    BY <2>1, <2>2 DEF ResyncInv
<1>6. CASE IngestDepth
  <2> DEFINE e == Head(depthQueue)
  <2>1. e \in DepthEvent /\ Ingest(e) /\ depthQueue \in Seq(DepthEvent) /\ depthQueue # <<>>
    BY <1>6, TailIs DEF IngestDepth, TypeInv
  <2>2. OfDepth(e) /\ (resyncing' <=> IsBreak(e) \/ (resyncing /\ ~IsBoundary(e)))
        /\ resyncing' \in BOOLEAN /\ resyncing \in BOOLEAN
    BY <2>1, ResyncingIs
  <2>3. resyncing => Calm(e) \/ IsBoundary(e)
    BY <2>1, <2>2, QueuePop DEF QueueInv
  <2>4. QED
    BY <2>1, <2>2, <2>3, ResyncIngest
<1>7. CASE IngestTrade
  <2> DEFINE e == Head(tradeQueue)
  <2>1. e \in TradeEvent /\ Ingest(e)
    BY <1>7, TailIs DEF IngestTrade, TypeInv
  <2>2. resyncing' = resyncing /\ ~OfDepth(e)
    BY <2>1, ResyncingIs
  <2>3. Calm(e)
    BY <2>1 DEF TradeEvent, Trades, Breaks, Calm, IsBook, IsHealthy
  <2>4. e \notin DepthEvent
    BY <2>1, <2>2, ResyncingIs
  <2>5. QED
    BY <2>1, <2>2, <2>3, <2>4, ResyncIngest
<1>8. CASE Drain
  <2>1. /\ Pop(detector') /\ buffer' = Tail(buffer) /\ buffer \in Seq(Entry)
        /\ UNCHANGED <<now, latest, consumed, releasedAt, missed, resyncing>>
    BY <1>8, DrainIs DEF Drain, marketVars, registryVars, TypeInv
  <2>2. buffer # <<>>
    BY <2>1 DEF Pop
  <2>3. resyncing' /\ ~missed' => Quiet(detector', buffer')
    BY <2>1, <2>2, QuietPop DEF Pop, ResyncInv
  <2>4. ~(~consumed' /\ releasedAt' = 0)
    BY <2>1, <2>2 DEF ResyncInv, Absent
  <2>5. QED
    BY <2>1, <2>3, <2>4 DEF ResyncInv
<1>9. CASE UNCHANGED vars
  BY <1>2, <1>9 DEF vars, insideVars, detectorVars, registryVars, historyVars, marketVars
<1>10. QED
  BY <1>3, <1>4, <1>5, <1>6, <1>7, <1>8, <1>9 DEF Next

-----------------------------------------------------------------------------
(* The order of the depth updates on their way to the detector *)

Before(e, f) ==
  /\ e.at <= f.at /\ e.change <= f.change /\ e.id <= f.id
  /\ e.id = f.id => f.boundary

InOrder(b) ==
  /\ \A i, j \in 1..Len(b) :
       i < j /\ IsBook(b[i].event) /\ IsBook(b[j].event) => Before(b[i].event, b[j].event)
  /\ \A i \in 1..Len(b) : IsBook(b[i].event) => b[i].recv <= now

QueueInOrder(q) ==
  \A i, j \in 1..Len(q) : i < j /\ IsBook(q[i]) /\ IsBook(q[j]) => Before(q[i], q[j])

(* What the detector has processed is not after e.                         *)
Passed(d, e, sc) ==
  /\ sc.book <= e.change
  /\ \A id \in d.seen : id <= e.id /\ (id = e.id => e.boundary)

Known(e) == e.at <= changedAt /\ e.change <= changes /\ e.id <= updateId

OrderOK(d, b, q, sc) ==
  /\ InOrder(b) /\ QueueInOrder(q)
  /\ \A e \in Waiting(b), f \in Coming(q) : Before(e, f)
  /\ \A e \in Ahead(b, q) : Known(e) /\ Passed(d, e, sc)
  /\ \A id \in d.seen : id <= updateId
  /\ sc.book <= changes

LEMMA PoppedFirst ==
  ASSUME NEW b \in Seq(Entry), b # <<>>, InOrder(b), IsBook(Head(b).event), NEW q,
         \A e \in Waiting(b), f \in Coming(q) : Before(e, f)
  PROVE  \A e \in Ahead(Tail(b), q) : Before(Head(b).event, e)
<1>1. ASSUME NEW e \in Waiting(Tail(b))
      PROVE  Before(Head(b).event, e)
  <2>1. PICK i \in 1..Len(Tail(b)) : Tail(b)[i].event = e /\ IsBook(e)
    BY <1>1, WaitingIs
  <2>2. i + 1 \in 1..Len(b) /\ b[i + 1].event = e /\ 1 \in 1..Len(b) /\ Head(b) = b[1] /\ 1 < i + 1
    BY <2>1, TailIs
  <2>3. QED
    BY <2>1, <2>2 DEF InOrder
<1>2. Head(b).event \in Waiting(b)
  BY PoppedBuffer DEF JustBook
<1>3. QED
  BY <1>1, <1>2 DEF Ahead

LEMMA OrderPop ==
  ASSUME TypeInv, NEW q \in Seq(DepthEvent), OrderOK(detector, buffer, q, seenChange),
         NEW x, Pop(x)
  PROVE  OrderOK(x, Tail(buffer), q, Noted(Head(buffer).event))
<1> DEFINE e0 == Head(buffer).event
           t == Tail(buffer)
           sc == Noted(e0)
<1>1. /\ buffer \in Seq(Entry) /\ buffer # <<>> /\ Effect(detector, e0, x)
      /\ e0 \in Buffered /\ t \in Seq(Entry)
  BY HeadIs DEF Pop, TypeInv
<1>2. InOrder(t)
  BY <1>1, TailIs DEF OrderOK, InOrder
<1>3. Waiting(buffer) = Waiting(t) \cup JustBook(e0)
  BY <1>1, PoppedBuffer
<1>4. IsBook(e0) => \A e \in Ahead(t, q) : Before(e0, e)
  BY <1>1, PoppedFirst DEF OrderOK
<1>5. IsBook(e0) => e0 \in Books /\ Known(e0)
  BY <1>1, <1>3, BooksAre DEF OrderOK, Ahead, JustBook
<1>6. sc.book = (IF IsBook(e0) THEN Max2(seenChange.book, e0.change) ELSE seenChange.book)
  BY <1>1, NotedIs
<1>7. x.seen = IF IsBook(e0) THEN detector.seen \cup {e0.id} ELSE detector.seen
  BY <1>1 DEF Effect
<1>8. seenChange.book \in Nat /\ changes \in Nat
  BY DEF TypeInv
<1>9. sc.book <= changes
  BY <1>5, <1>6, <1>8 DEF OrderOK, Known, Max2, Books
<1>10. ASSUME NEW e \in Ahead(t, q)
       PROVE  Known(e) /\ Passed(x, e, sc)
  <2>1. Known(e) /\ Passed(detector, e, seenChange)
    BY <1>3 DEF OrderOK, Ahead
  <2>2. sc.book <= e.change
    BY <1>4, <1>6, <2>1 DEF Passed, Before, Max2
  <2>3. QED
    BY <1>4, <1>7, <2>1, <2>2 DEF Passed, Before
<1>11. \A id \in x.seen : id <= updateId
  BY <1>5, <1>7 DEF OrderOK, Known
<1>12. \A e \in Waiting(t), f \in Coming(q) : Before(e, f)
  BY <1>3 DEF OrderOK
<1> HIDE DEF t, sc
<1>13. OrderOK(x, t, q, sc)
  BY <1>2, <1>9, <1>10, <1>11, <1>12 DEF OrderOK
<1>14. QED
  BY <1>13 DEF t, sc

(* An update is put behind all the updates that wait.                      *)
LEMMA BookLast ==
  ASSUME TypeInv, NEW s \in Seq(Entry), InOrder(s), NEW e \in Buffered, IsBook(e),
         \A f \in Waiting(s) : Before(f, e), NEW t, NEW k, Put(s, Received(e), t, k)
  PROVE  \A i \in 1..Len(s) : IsBook(s[i].event) => i <= k
<1> SUFFICES ASSUME NEW i \in 1..Len(s), IsBook(s[i].event), ~(i <= k)
             PROVE  FALSE
  OBVIOUS
<1> DEFINE f == s[i].event
           b == Received(e)
<1>1. k \in Int /\ Len(s) \in Nat
  BY LenProperties DEF Put
<1>2. Less(Key(b), Key(s[i]))
  <2>1. i \in (k + 1)..Len(s)
    BY <1>1
  <2>2. QED
    BY <2>1 DEF Put
<1>3. f \in Waiting(s) /\ s[i] \in Entry
  BY WaitingIs, ElementOfSeq
<1>4. f.at <= e.at /\ f.id <= e.id /\ s[i].recv <= now
  BY <1>3 DEF Before, InOrder
<1>5. b \in Entry /\ b.event = e /\ b.recv = now
  BY ReceivedIs
<1>6. /\ Key(b)[1] = e.at /\ Key(b)[2] = now /\ Key(b)[3] = 1 /\ Key(b)[4] = e.id
      /\ Key(b)[1] \in Int /\ Key(b)[2] \in Int /\ Key(b)[3] \in Int /\ Key(b)[4] \in Int
  BY <1>5, KeyIs DEF TypeOrder, Sequence, IsBook
<1>7. /\ Key(s[i])[1] = f.at /\ Key(s[i])[2] = s[i].recv /\ Key(s[i])[3] = 1 /\ Key(s[i])[4] = f.id
      /\ Key(s[i])[1] \in Int /\ Key(s[i])[2] \in Int /\ Key(s[i])[3] \in Int
      /\ Key(s[i])[4] \in Int
  BY <1>3, KeyIs DEF TypeOrder, Sequence, IsBook
<1>8. \/ e.at < f.at
      \/ e.at = f.at /\ now < s[i].recv
      \/ e.at = f.at /\ now = s[i].recv /\ 1 < 1
      \/ e.at = f.at /\ now = s[i].recv /\ e.id < f.id
  <2> HIDE DEF b, f
  <2>1. QED
    BY <1>2, <1>6, <1>7, LessIs
<1>9. /\ e.at \in Int /\ f.at \in Int /\ now \in Int /\ s[i].recv \in Int
      /\ e.id \in Int /\ f.id \in Int
  BY <1>6, <1>7
<1> HIDE DEF b, f
<1>10. QED
  BY <1>4, <1>8, <1>9

(* Two updates in a buffer into which another event was put were there in  *)
(* the same order, or the second is the new one.                           *)
LEMMA PutBooks ==
  ASSUME NEW s \in Seq(Entry), NEW b \in Entry, NEW t, NEW k, Put(s, b, t, k),
         IsBook(b.event) => \A i \in 1..Len(s) : IsBook(s[i].event) => i <= k
  PROVE  /\ \A i, j \in 1..Len(t) : i < j /\ IsBook(t[i].event) /\ IsBook(t[j].event) =>
              \/ \E m, n \in 1..Len(s) : m < n /\ t[i] = s[m] /\ t[j] = s[n]
              \/ t[j] = b /\ \E m \in 1..Len(s) : t[i] = s[m]
         /\ \A i \in 1..Len(t) : t[i] = b \/ \E m \in 1..Len(s) : t[i] = s[m]
<1>1. ASSUME NEW i \in 1..Len(t)
      PROVE  \/ i \in 1..Len(s) /\ t[i] = s[i] /\ i <= k
             \/ t[i] = b /\ i = k + 1
             \/ i - 1 \in 1..Len(s) /\ t[i] = s[i - 1] /\ i > k + 1
  BY PutIs
<1>2. ASSUME NEW i \in 1..Len(t), NEW j \in 1..Len(t), i < j,
             IsBook(t[i].event), IsBook(t[j].event)
      PROVE  \/ \E m, n \in 1..Len(s) : m < n /\ t[i] = s[m] /\ t[j] = s[n]
             \/ t[j] = b /\ \E m \in 1..Len(s) : t[i] = s[m]
  <2>1. k \in Nat
    BY PutIs
  <2>2. CASE i = k + 1
    <3>1. j > k + 1
      BY <1>2, <2>1, <2>2
    <3>2. j - 1 \in 1..Len(s) /\ t[j] = s[j - 1] /\ t[i] = b /\ ~(j - 1 <= k)
      BY <1>1, <2>1, <2>2, <3>1, PutIs
    <3>3. QED
      BY <1>2, <3>2
  <2>3. CASE i <= k
    <3>1. i \in 1..Len(s) /\ t[i] = s[i]
      BY <1>1, <2>1, <2>3
    <3>2. CASE j <= k \/ j = k + 1
      <4>1. (j \in 1..Len(s) /\ t[j] = s[j]) \/ t[j] = b
        BY <1>1, <2>1, <3>2
      <4>2. QED
        BY <1>2, <3>1, <4>1
    <3>3. CASE j > k + 1
      <4>1. j - 1 \in 1..Len(s) /\ t[j] = s[j - 1] /\ i < j - 1
        BY <1>1, <2>1, <2>3, <3>3
      <4>2. QED
        BY <3>1, <4>1
    <3>4. QED
      BY <3>2, <3>3, PutIs
  <2>4. CASE i > k + 1
    <3>1. j > k + 1 /\ i - 1 < j - 1
      BY <1>2, <2>1, <2>4
    <3>2. /\ i - 1 \in 1..Len(s) /\ t[i] = s[i - 1]
          /\ j - 1 \in 1..Len(s) /\ t[j] = s[j - 1]
      BY <1>1, <2>1, <2>4, <3>1
    <3>3. QED
      BY <3>1, <3>2
  <2>5. QED
    BY <2>2, <2>3, <2>4, PutIs
<1>3. QED
  BY <1>1, <1>2

(* An update of the queue is put into the buffer: behind all that wait.    *)
LEMMA OrderPut ==
  ASSUME TypeInv, NEW s \in Seq(Entry), InSort(s), NEW q \in Seq(DepthEvent), q # <<>>,
         Head(q) \in Buffered, NEW d, NEW sc, OrderOK(d, s, q, sc)
  PROVE  /\ OrderOK(d, Sorted(s, Received(Head(q))), Tail(q), sc)
         /\ \E k : /\ Put(s, Received(Head(q)), Sorted(s, Received(Head(q))), k)
                   /\ IsBook(Head(q)) => \A i \in 1..Len(s) : IsBook(s[i].event) => i <= k
<1> DEFINE e == Head(q)
           b == Received(e)
           t == Sorted(s, b)
           r == Tail(q)
<1>1. b \in Entry /\ b.event = e /\ (IsBook(e) => b.recv = now)
  BY ReceivedIs
<1>2. PICK k : Put(s, b, t, k)
  BY <1>1, PutSort
<1>3. Waiting(t) = Waiting(s) \cup JustBook(e)
  BY <1>1, <1>2, PutBuffer
<1>4. Coming(q) = Coming(r) \cup JustBook(e)
  BY PoppedQueue
<1>5. Ahead(t, r) = Ahead(s, q)
  BY <1>3, <1>4 DEF Ahead
<1>6. IsBook(e) => \A f \in Waiting(s) : Before(f, e)
  BY <1>4 DEF OrderOK, JustBook
<1>7. IsBook(e) => \A i \in 1..Len(s) : IsBook(s[i].event) => i <= k
  BY <1>2, <1>6, BookLast DEF OrderOK
<1> HIDE DEF b, t, r
<1>8. InOrder(t)
  <2>1. IsBook(b.event) => \A i \in 1..Len(s) : IsBook(s[i].event) => i <= k
    BY <1>1, <1>7
  <2>2. ASSUME NEW i \in 1..Len(t), NEW j \in 1..Len(t), i < j,
               IsBook(t[i].event), IsBook(t[j].event)
        PROVE  Before(t[i].event, t[j].event)
    <3>1. CASE \E m, n \in 1..Len(s) : m < n /\ t[i] = s[m] /\ t[j] = s[n]
      BY <2>2, <3>1 DEF OrderOK, InOrder
    <3>2. CASE t[j] = b /\ \E m \in 1..Len(s) : t[i] = s[m]
      <4>1. t[i].event \in Waiting(s)
        BY <2>2, <3>2, WaitingIs
      <4>2. QED
        BY <1>1, <1>6, <2>2, <3>2, <4>1
    <3>3. QED
      BY <1>1, <1>2, <2>1, <2>2, <3>1, <3>2, PutBooks
  <2>3. now \in Nat
    BY TimesAre DEF TypeInv
  <2>4. ASSUME NEW i \in 1..Len(t), IsBook(t[i].event)
        PROVE  t[i].recv <= now
    <3>1. t[i] = b \/ \E m \in 1..Len(s) : t[i] = s[m]
      BY <1>1, <1>2, <2>1, PutBooks
    <3>2. QED
      BY <1>1, <2>3, <2>4, <3>1 DEF OrderOK, InOrder
  <2>5. QED
    BY <2>2, <2>4 DEF InOrder
<1>9. QueueInOrder(r)
  BY TailIs DEF OrderOK, QueueInOrder, r
<1>10. ASSUME NEW f \in Waiting(t), NEW g \in Coming(r)
       PROVE  Before(f, g)
  <2>1. CASE f \in Waiting(s)
    BY <1>4, <1>10, <2>1 DEF OrderOK
  <2>2. CASE f \in JustBook(e)
    <3>1. f = e /\ IsBook(q[1])
      BY <2>2, TailIs DEF JustBook
    <3>2. PICK j \in 1..Len(r) : r[j] = g /\ IsBook(g)
      BY <1>10, ComingIs
    <3>3. /\ j + 1 \in 1..Len(q) /\ q[j + 1] = g /\ 1 \in 1..Len(q) /\ q[1] = e /\ 1 < j + 1
      BY <3>2, TailIs DEF r
    <3>4. QED
      BY <3>1, <3>2, <3>3 DEF OrderOK, QueueInOrder
  <2>3. QED
    BY <1>3, <1>10, <2>1, <2>2
<1>11. OrderOK(d, t, r, sc)
  BY <1>5, <1>8, <1>9, <1>10 DEF OrderOK
<1>12. QED
  BY <1>2, <1>7, <1>11 DEF b, t, r

(* A trade is put into the buffer.                                         *)
LEMMA OrderPutTrade ==
  ASSUME TypeInv, NEW s \in Seq(Entry), InSort(s), NEW q, NEW e \in Trades,
         NEW d, NEW sc, OrderOK(d, s, q, sc)
  PROVE  OrderOK(d, Sorted(s, Received(e)), q, sc)
<1> DEFINE b == Received(e)
           t == Sorted(s, b)
<1>1. b \in Entry /\ b.event = e /\ ~IsBook(e)
  BY ReceivedIs DEF Buffered, Trades, IsBook
<1>2. PICK k : Put(s, b, t, k)
  BY <1>1, PutSort
<1>3. Waiting(t) = Waiting(s)
  BY <1>1, <1>2, PutBuffer DEF JustBook
<1> HIDE DEF b, t
<1>4. ASSUME NEW i \in 1..Len(t), NEW j \in 1..Len(t), i < j,
             IsBook(t[i].event), IsBook(t[j].event)
      PROVE  \E m, n \in 1..Len(s) : m < n /\ t[i] = s[m] /\ t[j] = s[n]
  BY <1>1, <1>2, <1>4, PutBooks
<1>5. ASSUME NEW i \in 1..Len(t), IsBook(t[i].event)
      PROVE  \E m \in 1..Len(s) : t[i] = s[m]
  BY <1>1, <1>2, <1>5, PutBooks
<1>6. InOrder(t)
  <2>1. ASSUME NEW i \in 1..Len(t), NEW j \in 1..Len(t), i < j,
               IsBook(t[i].event), IsBook(t[j].event)
        PROVE  Before(t[i].event, t[j].event)
    BY <1>4, <2>1 DEF OrderOK, InOrder
  <2>2. ASSUME NEW i \in 1..Len(t), IsBook(t[i].event)
        PROVE  t[i].recv <= now
    BY <1>5, <2>2 DEF OrderOK, InOrder
  <2>3. QED
    BY <2>1, <2>2 DEF InOrder
<1>7. OrderOK(d, t, q, sc)
  BY <1>3, <1>6 DEF OrderOK, Ahead
<1>8. QED
  BY <1>7 DEF b, t

(* An event is not handed to the detector, or empties the buffer.          *)
LEMMA OrderSkip ==
  ASSUME NEW d, NEW b, NEW q \in Seq(DepthEvent), q # <<>>, NEW sc, OrderOK(d, b, q, sc)
  PROVE  OrderOK(d, b, Tail(q), sc)
<1>1. Coming(Tail(q)) \subseteq Coming(q)
  BY PoppedQueue
<1>2. QueueInOrder(Tail(q))
  BY TailIs DEF OrderOK, QueueInOrder
<1>3. QED
  BY <1>1, <1>2 DEF OrderOK, Ahead

LEMMA NoneWait == Waiting(<<>>) = {} /\ Len(<<>>) = 0 /\ 1..0 = {}
<1>1. Len(<<>>) = 0 /\ 1..0 = {}
  BY EmptySeq
<1>2. QED
  BY <1>1 DEF Waiting

LEMMA OrderReset ==
  ASSUME NEW d, NEW b, NEW q, NEW sc, OrderOK(d, b, q, sc),
         NEW quality \in Qualities, NEW seen \in SUBSET d.seen, d.seen \in SUBSET Nat
  PROVE  OrderOK(Fresh(quality, seen), <<>>, q, sc)
<1> DEFINE x == Fresh(quality, seen)
<1>1. x.seen \subseteq d.seen
  BY FreshIs
<1> HIDE DEF x
<1>2. InOrder(<<>>)
  BY NoneWait DEF InOrder
<1>3. OrderOK(x, <<>>, q, sc)
  BY <1>1, <1>2, NoneWait DEF OrderOK, Ahead, Passed
<1>4. QED
  BY <1>3 DEF x

(* The adapter adds an event: no earlier than all before.                  *)
LEMMA OrderAppend ==
  ASSUME NEW q \in Seq(DepthEvent), NEW e \in DepthEvent, NEW d, NEW b, NEW sc,
         OrderOK(d, b, q, sc),
         IsBook(e) => /\ \A f \in Ahead(b, q) : Before(f, e)
                      /\ Known(e) /\ Passed(d, e, sc)
  PROVE  OrderOK(d, b, Append(q, e), sc)
<1> DEFINE t == Append(q, e)
<1>1. Coming(t) = Coming(q) \cup JustBook(e)
  BY AppendedQueue
<1>2. /\ Len(t) = Len(q) + 1 /\ Len(q) \in Nat /\ t[Len(q) + 1] = e
      /\ \A i \in 1..Len(q) : t[i] = q[i]
  BY AppendIs
<1> HIDE DEF t
<1>3. ASSUME NEW i \in 1..Len(t), NEW j \in 1..Len(t), i < j, IsBook(t[i]), IsBook(t[j])
      PROVE  Before(t[i], t[j])
  <2>1. i \in 1..Len(q) /\ t[i] = q[i] /\ (j \in 1..Len(q) \/ j = Len(q) + 1)
    BY <1>2, <1>3
  <2>2. CASE j \in 1..Len(q)
    BY <1>2, <1>3, <2>1, <2>2 DEF OrderOK, QueueInOrder
  <2>3. CASE j = Len(q) + 1
    <3>1. q[i] \in Ahead(b, q)
      BY <1>3, <2>1, ComingIs DEF Ahead
    <3>2. QED
      BY <1>2, <1>3, <2>1, <2>3, <3>1
  <2>4. QED
    BY <2>1, <2>2, <2>3
<1>4. QueueInOrder(t)
  BY <1>3 DEF QueueInOrder
<1>5. OrderOK(d, b, t, sc)
  BY <1>1, <1>4 DEF OrderOK, Ahead, JustBook
<1>6. QED
  BY <1>5 DEF t

-----------------------------------------------------------------------------
(* No update is skipped *)

(* The update n is processed or waits, or the detector holds nothing.      *)
Link(d, b, n) ==
  \/ n \in d.seen
  \/ \E f \in Waiting(b) : f.id = n
  \/ Bare(d) /\ Waiting(b) = {}

(* The predecessor of e is processed or waits, or e is the first.          *)
Continues(d, b, e) ==
  \/ e.id - 1 \in d.seen
  \/ \E f \in Waiting(b) : f.id = e.id - 1
  \/ Bare(d) /\ \A f \in Waiting(b) : f.id >= e.id

Linked(d, b, i) ==
  IF b[i].event.boundary
  THEN Bare(d) /\ \A j \in 1..(i - 1) : ~IsBook(b[j].event)
  ELSE Continues(d, b, b[i].event)

BufferLinked(d, b) == \A i \in 1..Len(b) : IsBook(b[i].event) => Linked(d, b, i)

(* The last update before the i-th event of the queue is n; if there is    *)
(* none, the buffer or the detector has it.                                *)
LastIs(q, i, n) ==
  \A j \in 1..(i - 1) :
    IsBook(q[j]) /\ (\A k \in (j + 1)..(i - 1) : ~IsBook(q[k])) => q[j].id = n

NoneBefore(q, i) == \A j \in 1..(i - 1) : ~IsBook(q[j])

Follows(q, i, n, linked) == LastIs(q, i, n) /\ (NoneBefore(q, i) => linked)

QueueLinked(d, b, q, m) ==
  /\ \A i \in 1..Len(q) : IsBook(q[i]) /\ ~q[i].boundary =>
       Follows(q, i, q[i].id - 1, m \/ Link(d, b, q[i].id - 1))
  /\ feed = "live" => Follows(q, Len(q) + 1, updateId, m \/ Link(d, b, updateId))

LinkOK(d, b, q, m) == (m \/ BufferLinked(d, b)) /\ QueueLinked(d, b, q, m)

LEMMA LinkPop ==
  ASSUME TypeInv, NEW q \in Seq(DepthEvent), OrderOK(detector, buffer, q, seenChange),
         NEW m \in BOOLEAN, LinkOK(detector, buffer, q, m), NEW x, Pop(x)
  PROVE  LinkOK(x, Tail(buffer), q, m)
<1> DEFINE e0 == Head(buffer).event
           t == Tail(buffer)
<1>1. /\ buffer \in Seq(Entry) /\ buffer # <<>> /\ Effect(detector, e0, x)
      /\ e0 \in Buffered /\ t \in Seq(Entry)
  BY HeadIs DEF Pop, TypeInv
<1>2. Waiting(buffer) = Waiting(t) \cup JustBook(e0)
  BY <1>1, PoppedBuffer
<1>3. IsBook(e0) => \A e \in Ahead(t, q) : Before(e0, e)
  BY <1>1, PoppedFirst DEF OrderOK
<1>4. x.seen = IF IsBook(e0) THEN detector.seen \cup {e0.id} ELSE detector.seen
  BY <1>1 DEF Effect
<1>5. ~IsBook(e0) /\ Bare(detector) => Bare(x)
  BY <1>1 DEF Effect, LevelEffect, Bare
<1>6. /\ \A i \in 1..Len(t) : i + 1 \in 1..Len(buffer) /\ t[i] = buffer[i + 1]
      /\ Head(buffer) = buffer[1]
  BY <1>1, TailIs
<1> HIDE DEF e0, t
<1>7. ASSUME NEW n, Link(detector, buffer, n)
      PROVE  Link(x, t, n)
  <2>1. CASE n \in detector.seen
    BY <1>4, <2>1 DEF Link
  <2>2. CASE \E f \in Waiting(buffer) : f.id = n
    BY <1>2, <1>4, <2>2 DEF Link, JustBook
  <2>3. CASE Bare(detector) /\ Waiting(buffer) = {}
    BY <1>2, <1>5, <2>3 DEF Link, JustBook
  <2>4. QED
    BY <1>7, <2>1, <2>2, <2>3 DEF Link
<1>8. ASSUME NEW i \in 1..Len(t), IsBook(t[i].event), BufferLinked(detector, buffer)
      PROVE  Linked(x, t, i)
  <2>1. /\ i + 1 \in 1..Len(buffer) /\ t[i] = buffer[i + 1] /\ (i + 1) - 1 = i
        /\ Linked(detector, buffer, i + 1)
    BY <1>6, <1>8 DEF BufferLinked
  <2>2. CASE t[i].event.boundary
    <3>1. Bare(detector) /\ \A j \in 1..i : ~IsBook(buffer[j].event)
      BY <2>1, <2>2 DEF Linked
    <3>2. ~IsBook(e0)
      BY <1>6, <3>1 DEF e0
    <3>3. \A j \in 1..(i - 1) : j \in 1..Len(t) /\ j + 1 \in 1..i
      BY <1>1, LenProperties
    <3>4. QED
      BY <1>5, <1>6, <2>2, <3>1, <3>2, <3>3 DEF Linked
  <2>3. CASE ~t[i].event.boundary
    <3> DEFINE f == t[i].event
    <3>1. Continues(detector, buffer, f)
      BY <2>1, <2>3 DEF Linked
    <3>2. f \in Waiting(t) /\ f \in Ahead(t, q)
      BY <1>8, WaitingIs DEF Ahead
    <3>3. f \in Books /\ (IsBook(e0) => e0 \in Books)
      <4>1. IsBook(e0) => e0 \in Waiting(buffer)
        BY <1>2 DEF JustBook
      <4>2. QED
        BY <1>1, <3>2, <4>1, BooksAre
    <3> HIDE DEF f
    <3>4. Continues(x, t, f)
      <4>1. CASE f.id - 1 \in detector.seen
        BY <1>4, <4>1 DEF Continues
      <4>2. CASE \E g \in Waiting(buffer) : g.id = f.id - 1
        BY <1>2, <1>4, <4>2 DEF Continues, JustBook
      <4>3. CASE Bare(detector) /\ \A g \in Waiting(buffer) : g.id >= f.id
        <5>1. ~IsBook(e0)
          <6> SUFFICES ASSUME IsBook(e0) PROVE FALSE
            OBVIOUS
          <6>1. e0.id >= f.id
            BY <1>2, <4>3 DEF JustBook
          <6>2. e0.id <= f.id /\ (e0.id = f.id => f.boundary)
            BY <1>3, <3>2 DEF Before
          <6>3. e0.id \in Nat /\ f.id \in Nat
            BY <3>3 DEF Books
          <6>4. QED
            BY <2>3, <6>1, <6>2, <6>3 DEF f
        <5>2. QED
          BY <1>2, <1>5, <4>3, <5>1 DEF Continues
      <4>4. QED
        BY <3>1, <4>1, <4>2, <4>3 DEF Continues
    <3>5. QED
      BY <2>3, <3>4 DEF Linked, f
  <2>4. QED
    BY <2>2, <2>3
<1>9. m \/ BufferLinked(x, t)
  BY <1>8 DEF LinkOK, BufferLinked
<1>10. QueueLinked(x, t, q, m)
  BY <1>7 DEF LinkOK, QueueLinked, Follows
<1>11. QED
  BY <1>9, <1>10 DEF LinkOK, t

(* The last update before a place, in a queue without its head.            *)
LEMMA FollowsTail ==
  ASSUME NEW q \in Seq(DepthEvent), q # <<>>, NEW i \in 1..(Len(Tail(q)) + 1), NEW n,
         NEW linked, NEW after, Follows(q, i + 1, n, linked),
         IsBook(Head(q)) /\ Head(q).id = n => after,
         ~IsBook(Head(q)) /\ linked => after
  PROVE  Follows(Tail(q), i, n, after)
<1> DEFINE t == Tail(q)
<1>1. /\ Len(q) \in Nat \ {0} /\ Len(t) = Len(q) - 1 /\ Head(q) = q[1]
      /\ \A j \in 1..Len(t) : j + 1 \in 1..Len(q) /\ t[j] = q[j + 1]
  BY TailIs
<1> HIDE DEF t
<1>2. i \in Nat \ {0} /\ (i + 1) - 1 = i /\ i - 1 <= Len(t)
  BY <1>1 DEF t
<1>3. \A j \in 1..(i - 1) : j \in 1..Len(t) /\ j + 1 \in 1..i /\ t[j] = q[j + 1]
  BY <1>1, <1>2
<1>4. \A j \in 2..i : j - 1 \in 1..(i - 1) /\ t[j - 1] = q[j]
  <2>1. \A j \in 2..i : j - 1 \in 1..(i - 1) /\ (j - 1) + 1 = j
    BY <1>2
  <2>2. QED
    BY <1>3, <2>1
<1>5. LastIs(t, i, n)
  <2> SUFFICES ASSUME NEW j \in 1..(i - 1), IsBook(t[j]),
                      \A k \in (j + 1)..(i - 1) : ~IsBook(t[k])
               PROVE  t[j].id = n
    BY DEF LastIs
  <2>1. \A k \in (j + 2)..i : k \in 2..i /\ k - 1 \in (j + 1)..(i - 1)
    BY <1>2
  <2>2. \A k \in (j + 2)..i : ~IsBook(q[k])
    BY <1>4, <2>1
  <2>3. (j + 1) + 1 = j + 2
    BY <1>2
  <2>4. QED
    BY <1>2, <1>3, <2>2, <2>3 DEF Follows, LastIs
<1>6. ASSUME NoneBefore(t, i)
      PROVE  after
  <2>1. \A j \in 2..i : ~IsBook(q[j])
    BY <1>4, <1>6 DEF NoneBefore
  <2>2. CASE IsBook(Head(q))
    <3>1. 1 \in 1..i /\ 1 + 1 = 2
      BY <1>2
    <3>2. q[1].id = n
      BY <1>1, <1>2, <2>1, <2>2, <3>1 DEF Follows, LastIs
    <3>3. QED
      BY <1>1, <2>2, <3>2
  <2>3. CASE ~IsBook(Head(q))
    <3>1. \A j \in 1..i : j = 1 \/ j \in 2..i
      BY <1>2
    <3>2. NoneBefore(q, i + 1)
      BY <1>1, <1>2, <2>1, <2>3, <3>1 DEF NoneBefore
    <3>3. QED
      BY <2>3, <3>2 DEF Follows
  <2>4. QED
    BY <2>2, <2>3
<1>7. QED
  BY <1>5, <1>6 DEF Follows, t

LEMMA FollowsAppend ==
  ASSUME NEW q \in Seq(DepthEvent), NEW e \in DepthEvent, NEW n, NEW linked
  PROVE  /\ \A i \in 1..(Len(q) + 1) :
              Follows(q, i, n, linked) => Follows(Append(q, e), i, n, linked)
         /\ IsBook(e) => Follows(Append(q, e), Len(q) + 2, e.id, linked)
         /\ ~IsBook(e) /\ Follows(q, Len(q) + 1, n, linked)
              => Follows(Append(q, e), Len(q) + 2, n, linked)
<1> DEFINE t == Append(q, e)
           l == Len(q)
<1>1. l \in Nat /\ t[l + 1] = e /\ \A i \in 1..l : t[i] = q[i]
  BY AppendIs
<1> HIDE DEF t
<1>2. ASSUME NEW i \in 1..(l + 1), Follows(q, i, n, linked)
      PROVE  Follows(t, i, n, linked)
  <2>1. \A j \in 1..(i - 1) : t[j] = q[j]
    BY <1>1
  <2>2. \A j \in 1..(i - 1) : \A k \in (j + 1)..(i - 1) : k \in 1..(i - 1)
    BY <1>1
  <2>3. QED
    BY <1>2, <2>1, <2>2 DEF Follows, LastIs, NoneBefore
<1>3. (l + 2) - 1 = l + 1 /\ (l + 1) - 1 = l /\ l + 1 \in 1..(l + 1)
  BY <1>1
<1>4. \A j \in 1..(l + 1) : j = l + 1 \/ (j \in 1..l /\ l + 1 \in (j + 1)..(l + 1))
  BY <1>1
<1>5. ASSUME IsBook(e)
      PROVE  Follows(t, l + 2, e.id, linked)
  <2>1. ~NoneBefore(t, l + 2)
    BY <1>1, <1>3, <1>5 DEF NoneBefore
  <2>2. LastIs(t, l + 2, e.id)
    BY <1>1, <1>3, <1>4, <1>5 DEF LastIs
  <2>3. QED
    BY <2>1, <2>2 DEF Follows
<1>6. ASSUME ~IsBook(e), Follows(q, l + 1, n, linked)
      PROVE  Follows(t, l + 2, n, linked)
  <2>1. \A j \in 1..l : j \in 1..(l + 1) /\ \A k \in (j + 1)..l : k \in 1..l /\ k \in (j + 1)..(l + 1)
    BY <1>1
  <2>2. NoneBefore(t, l + 2) => NoneBefore(q, l + 1)
    BY <1>1, <1>3, <2>1 DEF NoneBefore
  <2>3. LastIs(t, l + 2, n)
    <3> SUFFICES ASSUME NEW j \in 1..(l + 1), IsBook(t[j]),
                        \A k \in (j + 1)..(l + 1) : ~IsBook(t[k])
                 PROVE  t[j].id = n
      BY <1>3 DEF LastIs
    <3>1. j \in 1..l /\ t[j] = q[j]
      BY <1>1, <1>4, <1>6
    <3>2. \A k \in (j + 1)..l : ~IsBook(q[k])
      BY <1>1, <2>1, <3>1
    <3>3. QED
      BY <1>3, <1>6, <3>1, <3>2 DEF Follows, LastIs
  <2>4. QED
    BY <1>6, <2>2, <2>3 DEF Follows
<1>7. QED
  BY <1>2, <1>5, <1>6 DEF t

(* The queue stays linked when it loses its head, if what linked the head  *)
(* links what follows it.                                                  *)
LEMMA LinkedTail ==
  ASSUME NEW q \in Seq(DepthEvent), q # <<>>, NEW d, NEW b, NEW m, QueueLinked(d, b, q, m),
         NEW x, NEW t, NEW k,
         IsBook(Head(q)) => k \/ Link(x, t, Head(q).id),
         \A n : ~IsBook(Head(q)) /\ (m \/ Link(d, b, n)) => k \/ Link(x, t, n)
  PROVE  QueueLinked(x, t, Tail(q), k)
<1> DEFINE r == Tail(q)
<1>1. /\ Len(r) \in Nat /\ Len(r) + 1 = Len(q) /\ Len(r) + 1 \in 1..(Len(r) + 1)
      /\ \A i \in 1..Len(r) : i + 1 \in 1..Len(q) /\ r[i] = q[i + 1] /\ i \in 1..(Len(r) + 1)
  BY TailIs
<1>2. ASSUME NEW i \in 1..(Len(r) + 1), NEW n, Follows(q, i + 1, n, m \/ Link(d, b, n))
      PROVE  Follows(r, i, n, k \/ Link(x, t, n))
  BY <1>2, FollowsTail
<1> HIDE DEF r
<1>3. ASSUME NEW i \in 1..Len(r), IsBook(r[i]), ~r[i].boundary
      PROVE  Follows(r, i, r[i].id - 1, k \/ Link(x, t, r[i].id - 1))
  <2>1. Follows(q, i + 1, r[i].id - 1, m \/ Link(d, b, r[i].id - 1))
    BY <1>1, <1>3 DEF QueueLinked
  <2>2. QED
    BY <1>1, <1>2, <2>1
<1>4. ASSUME feed = "live"
      PROVE  Follows(r, Len(r) + 1, updateId, k \/ Link(x, t, updateId))
  <2>1. Follows(q, (Len(r) + 1) + 1, updateId, m \/ Link(d, b, updateId))
    BY <1>1, <1>4 DEF QueueLinked
  <2>2. QED
    BY <1>1, <1>2, <2>1
<1>5. QED
  BY <1>3, <1>4 DEF QueueLinked, r

LEMMA BufferLinkedPut ==
  ASSUME NEW s \in Seq(Entry), NEW b \in Entry, NEW t, NEW k, Put(s, b, t, k),
         IsBook(b.event) => \A i \in 1..Len(s) : IsBook(s[i].event) => i <= k,
         NEW d, BufferLinked(d, s),
         IsBook(b.event) =>
           /\ \A f \in Waiting(s) : Before(f, b.event)
           /\ IF b.event.boundary THEN Bare(d) /\ Waiting(s) = {}
              ELSE Link(d, s, b.event.id - 1)
  PROVE  BufferLinked(d, t)
<1> DEFINE e == b.event
<1>1. Waiting(t) = Waiting(s) \cup JustBook(e)
  BY PutBuffer
<1>2. ASSUME NEW i \in 1..Len(t), IsBook(t[i].event)
      PROVE  Linked(d, t, i)
  <2> DEFINE f == t[i].event
  <2>1. t[i] = b \/ \E m \in 1..Len(s) : t[i] = s[m]
    BY PutBooks
  <2>2. ASSUME NEW m \in 1..Len(s), IsBook(s[m].event)
        PROVE  Linked(d, s, m) /\ s[m].event \in Waiting(s)
    BY <2>2, WaitingIs DEF BufferLinked
  <2>3. CASE f.boundary
    <3>1. Bare(d)
      BY <1>2, <2>1, <2>2, <2>3 DEF Linked
    <3>2. ASSUME NEW j \in 1..(i - 1), IsBook(t[j].event)
          PROVE  FALSE
      <4>1. j \in 1..Len(t) /\ j < i
        BY PutIs
      <4>2. \/ \E m, n \in 1..Len(s) : m < n /\ t[j] = s[m] /\ t[i] = s[n]
            \/ t[i] = b /\ \E m \in 1..Len(s) : t[j] = s[m]
        BY <1>2, <3>2, <4>1, PutBooks
      <4>3. ASSUME NEW m \in 1..Len(s), NEW n \in 1..Len(s), m < n, t[j] = s[m], t[i] = s[n]
            PROVE  FALSE
        <5>1. Linked(d, s, n) /\ m \in 1..(n - 1)
          BY <1>2, <2>2, <4>3
        <5>2. QED
          BY <2>3, <3>2, <4>3, <5>1 DEF Linked
      <4>4. ASSUME t[i] = b, NEW m \in 1..Len(s), t[j] = s[m]
            PROVE  FALSE
        BY <1>2, <2>2, <2>3, <3>2, <4>4
      <4>5. QED
        BY <4>2, <4>3, <4>4
    <3>3. QED
      BY <2>3, <3>1, <3>2 DEF Linked
  <2>4. CASE ~f.boundary
    <3>1. Continues(d, t, f)
      <4>1. CASE t[i] = b
        <5>1. f = e /\ Link(d, s, f.id - 1)
          BY <1>2, <2>4, <4>1
        <5>2. f.id \in Int
          BY <1>2, <4>1 DEF Entry, Buffered, Trades, Books, Told, IsBook
        <5>3. CASE Bare(d) /\ Waiting(s) = {}
          <6>1. Waiting(t) = {f}
            BY <1>1, <1>2, <5>1, <5>3 DEF JustBook
          <6>2. f.id >= f.id
            BY <5>2
          <6>3. QED
            BY <5>3, <6>1, <6>2 DEF Continues
        <5>4. QED
          BY <1>1, <5>1, <5>3 DEF Continues, Link
      <4>2. CASE \E m \in 1..Len(s) : t[i] = s[m]
        <5>1. Continues(d, s, f) /\ f \in Waiting(s)
          BY <1>2, <2>2, <2>4, <4>2 DEF Linked
        <5>2. IsBook(e) => e.id >= f.id
          <6>1. IsBook(e) => f.id <= e.id /\ f \in Books /\ e \in Books
            BY <5>1, BooksAre DEF Before, Entry, Buffered, Trades, Told, IsBook
          <6>2. QED
            BY <6>1 DEF Books
        <5>3. QED
          BY <1>1, <5>1, <5>2 DEF Continues, JustBook
      <4>3. QED
        BY <2>1, <4>1, <4>2
    <3>2. QED
      BY <2>4, <3>1 DEF Linked
  <2>5. QED
    BY <2>3, <2>4
<1>3. QED
  BY <1>2 DEF BufferLinked

LEMMA LinkPut ==
  ASSUME TypeInv, NEW s \in Seq(Entry), InSort(s), NEW q \in Seq(DepthEvent), q # <<>>,
         Head(q) \in Buffered, NEW d, NEW sc, OrderOK(d, s, q, sc),
         NEW m \in BOOLEAN, LinkOK(d, s, q, m),
         IsBoundary(Head(q)) /\ ~m => Bare(d) /\ Waiting(s) = {}
  PROVE  LinkOK(d, Sorted(s, Received(Head(q))), Tail(q), m)
<1> DEFINE e == Head(q)
           b == Received(e)
           t == Sorted(s, b)
<1>1. b \in Entry /\ b.event = e
  BY ReceivedIs
<1>2. PICK k : /\ Put(s, b, t, k)
               /\ IsBook(e) => \A i \in 1..Len(s) : IsBook(s[i].event) => i <= k
  BY OrderPut
<1>3. Waiting(t) = Waiting(s) \cup JustBook(e)
  BY <1>1, <1>2, PutBuffer
<1>4. IsBook(e) => \A f \in Waiting(s) : Before(f, e)
  BY PoppedQueue DEF OrderOK, JustBook
<1> HIDE DEF b, t
<1>5. ASSUME ~m, IsBook(e), ~e.boundary
      PROVE  Link(d, s, e.id - 1)
  <2>1. 1 \in 1..Len(q) /\ q[1] = e /\ 1..(1 - 1) = {}
    BY TailIs
  <2>2. Follows(q, 1, e.id - 1, m \/ Link(d, s, e.id - 1))
    BY <1>5, <2>1 DEF LinkOK, QueueLinked
  <2>3. QED
    BY <1>5, <2>1, <2>2 DEF Follows, NoneBefore
<1>6. m \/ BufferLinked(d, t)
  <2> SUFFICES ASSUME ~m
               PROVE  BufferLinked(d, t)
    OBVIOUS
  <2>1. BufferLinked(d, s)
    BY DEF LinkOK
  <2>2. IsBook(e) => IF e.boundary THEN Bare(d) /\ Waiting(s) = {} ELSE Link(d, s, e.id - 1)
    BY <1>5 DEF IsBoundary, IsBook
  <2>3. QED
    BY <1>1, <1>2, <1>4, <2>1, <2>2, BufferLinkedPut
<1>7. QueueLinked(d, t, Tail(q), m)
  <2>1. IsBook(e) => Link(d, t, e.id)
    BY <1>3 DEF Link, JustBook
  <2>2. ASSUME NEW n, ~IsBook(e), m \/ Link(d, s, n)
        PROVE  m \/ Link(d, t, n)
    BY <1>3, <2>2 DEF Link, JustBook
  <2>3. QueueLinked(d, s, q, m)
    BY DEF LinkOK
  <2>4. QED
    BY <2>1, <2>2, <2>3, LinkedTail
<1>8. QED
  BY <1>6, <1>7 DEF LinkOK, b, t

LEMMA LinkPutTrade ==
  ASSUME TypeInv, NEW s \in Seq(Entry), InSort(s), NEW q, NEW e \in Trades,
         NEW d, NEW m \in BOOLEAN, LinkOK(d, s, q, m)
  PROVE  LinkOK(d, Sorted(s, Received(e)), q, m)
<1> DEFINE b == Received(e)
           t == Sorted(s, b)
<1>1. b \in Entry /\ b.event = e /\ ~IsBook(e)
  BY ReceivedIs DEF Buffered, Trades, IsBook
<1>2. PICK k : Put(s, b, t, k)
  BY <1>1, PutSort
<1>3. Waiting(t) = Waiting(s)
  BY <1>1, <1>2, PutBuffer DEF JustBook
<1> HIDE DEF b, t
<1>4. m \/ BufferLinked(d, t)
  BY <1>1, <1>2, BufferLinkedPut DEF LinkOK
<1>5. QueueLinked(d, t, q, m)
  BY <1>3 DEF LinkOK, QueueLinked, Link
<1>6. QED
  BY <1>4, <1>5 DEF LinkOK, b, t

(* A detector that holds nothing is linked to whatever comes.              *)
LEMMA LinkBare ==
  ASSUME NEW d, NEW b, NEW q \in Seq(DepthEvent), NEW m, QueueLinked(d, b, q, m),
         NEW x, Bare(x), NEW k
  PROVE  /\ LinkOK(x, <<>>, q, k)
         /\ q # <<>> => LinkOK(x, <<>>, Tail(q), k)
<1>1. \A n : Link(x, <<>>, n)
  BY NoneWait DEF Link
<1>2. BufferLinked(x, <<>>)
  BY NoneWait DEF BufferLinked
<1>3. QueueLinked(x, <<>>, q, k)
  BY <1>1 DEF QueueLinked, Follows
<1>4. q # <<>> => QueueLinked(x, <<>>, Tail(q), k)
  BY <1>1, LinkedTail
<1>5. QED
  BY <1>2, <1>3, <1>4 DEF LinkOK

(* An event is not handed to the detector, which has missed it.            *)
LEMMA LinkMissed ==
  ASSUME NEW d, NEW b, NEW q \in Seq(DepthEvent), q # <<>>, NEW m, QueueLinked(d, b, q, m)
  PROVE  LinkOK(d, b, Tail(q), TRUE)
<1>1. QueueLinked(d, b, Tail(q), TRUE)
  BY LinkedTail
<1>2. QED
  BY <1>1 DEF LinkOK

-----------------------------------------------------------------------------
(* No level is stale *)

Same(p, book1, added1, book2, added2) == book1[p] = book2[p] /\ added1[p] = added2[p]

(* An update that follows another differs from it in its prices only, and  *)
(* so does the market from the last update.                                *)
AheadValues(A) ==
  /\ \A e, f \in A, p \in Prices :
       f.id = e.id + 1 /\ ~f.boundary /\ p \notin f.prices
         => Same(p, e.book, e.added, f.book, f.added)
  /\ \A e \in A, p \in Prices :
       e.id = updateId /\ p \notin changed => Same(p, e.book, e.added, market, added)

(* A level has the quantity of the book processed last, and what follows   *)
(* the last update processed differs from that book in its prices only.    *)
LevelValue(d, A, sb, sc, p) ==
  /\ d.levels[p].visible = sb[p]
  /\ \A n \in d.seen : (\A k \in d.seen : k <= n) =>
       /\ \A e \in A : e.id = n + 1 /\ ~e.boundary /\ p \notin e.prices
            => Same(p, e.book, e.added, sb, sc.added)
       /\ n = updateId /\ p \notin changed => Same(p, market, added, sb, sc.added)

ValueOK(d, b, q, sb, sc, m) ==
  /\ AheadValues(Ahead(b, q))
  /\ m \/ \A p \in Prices : d.levels[p] # NoLevel => LevelValue(d, Ahead(b, q), sb, sc, p)

LEMMA ValueLess ==
  ASSUME NEW d, NEW b, NEW q, NEW sb, NEW sc, NEW m, ValueOK(d, b, q, sb, sc, m),
         NEW t, NEW r, Ahead(t, r) \subseteq Ahead(b, q)
  PROVE  /\ ValueOK(d, t, r, sb, sc, m) /\ ValueOK(d, t, r, sb, sc, TRUE)
         /\ \A x, k : Bare(x) => ValueOK(x, t, r, sb, sc, k)
<1>1. AheadValues(Ahead(t, r))
  BY DEF ValueOK, AheadValues
<1>2. ASSUME NEW p \in Prices, LevelValue(d, Ahead(b, q), sb, sc, p)
      PROVE  LevelValue(d, Ahead(t, r), sb, sc, p)
  BY <1>2 DEF LevelValue
<1>3. QED
  BY <1>1, <1>2 DEF ValueOK, Bare

(* A level that an update says nothing of has the quantity of the book     *)
(* before, and the update leaves it.                                       *)
LEMMA UntoldLevel ==
  ASSUME TypeInv, NEW q \in Seq(DepthEvent), OrderOK(detector, buffer, q, seenChange),
         NEW m \in BOOLEAN, ~m, LinkOK(detector, buffer, q, m),
         ValueOK(detector, buffer, q, seenBook, seenChange, m), buffer # <<>>,
         IsBook(Head(buffer).event), Head(buffer).event.id \notin detector.seen,
         ~Head(buffer).event.boundary, NEW p \in Prices, p \notin Head(buffer).event.prices,
         detector.levels[p] # NoLevel
  PROVE  /\ Same(p, Head(buffer).event.book, Head(buffer).event.added, seenBook, seenChange.added)
         /\ detector.levels[p].visible = seenBook[p]
<1> DEFINE e0 == Head(buffer).event
           A == Ahead(buffer, q)
           C == Ahead(Tail(buffer), q)
<1>1. buffer \in Seq(Entry) /\ e0 \in Buffered
  BY HeadIs DEF TypeInv
<1>2. Waiting(buffer) = Waiting(Tail(buffer)) \cup {e0}
  BY <1>1, PoppedBuffer DEF JustBook
<1>3. e0 \in A /\ e0 \in Waiting(buffer)
  BY <1>2 DEF Ahead
<1>4. \A e \in C : Before(e0, e)
  BY <1>1, PoppedFirst DEF OrderOK
<1>5. e0.id \in Nat /\ \A n \in detector.seen : n \in Nat /\ n <= e0.id
  <2>1. e0 \in Books
    BY <1>1, <1>3, BooksAre
  <2>2. detector.seen \in SUBSET Nat
    BY DEF TypeInv, DetectorOK, Detectors
  <2>3. Passed(detector, e0, seenChange)
    BY <1>3 DEF OrderOK
  <2>4. QED
    BY <2>1, <2>2, <2>3 DEF Passed, Books
<1>6. Continues(detector, buffer, e0)
  <2>1. 1 \in 1..Len(buffer) /\ buffer[1].event = e0
    BY <1>1, TailIs
  <2>2. Linked(detector, buffer, 1)
    BY <2>1 DEF LinkOK, BufferLinked
  <2>3. QED
    BY <2>1, <2>2 DEF Linked
<1>7. e0.id - 1 \in detector.seen
  <2>1. ~Bare(detector)
    BY DEF Bare
  <2>2. ASSUME NEW f \in Waiting(buffer), f.id = e0.id - 1
        PROVE  FALSE
    <3>1. f = e0 \/ f \in C
      BY <1>2, <2>2 DEF Ahead
    <3>2. e0.id <= f.id
      BY <1>4, <1>5, <3>1 DEF Before
    <3>3. QED
      BY <1>5, <2>2, <3>2
  <2>3. QED
    BY <1>6, <2>1, <2>2 DEF Continues
<1>8. \A k \in detector.seen : k <= e0.id - 1
  BY <1>5
<1>9. e0.id = (e0.id - 1) + 1
  BY <1>5
<1>10. LevelValue(detector, A, seenBook, seenChange, p)
  BY DEF ValueOK
<1>11. QED
  BY <1>3, <1>7, <1>8, <1>9, <1>10 DEF LevelValue

LEMMA ValuePop ==
  ASSUME TypeInv, NEW q \in Seq(DepthEvent), OrderOK(detector, buffer, q, seenChange),
         NEW m \in BOOLEAN, LinkOK(detector, buffer, q, m),
         ValueOK(detector, buffer, q, seenBook, seenChange, m), NEW x, Pop(x)
  PROVE  ValueOK(x, Tail(buffer), q, seenBook', seenChange', m)
<1> DEFINE e0 == Head(buffer).event
           t == Tail(buffer)
           A == Ahead(buffer, q)
           C == Ahead(t, q)
<1>1. /\ buffer \in Seq(Entry) /\ buffer # <<>> /\ Effect(detector, e0, x)
      /\ e0 \in Buffered /\ t \in Seq(Entry)
  BY HeadIs DEF Pop, TypeInv
<1>2. Waiting(buffer) = Waiting(t) \cup JustBook(e0)
  BY <1>1, PoppedBuffer
<1>3. C \subseteq A /\ (IsBook(e0) => e0 \in A /\ e0 \in Waiting(buffer))
  BY <1>2 DEF Ahead, JustBook
<1>4. IsBook(e0) => \A e \in C : Before(e0, e)
  BY <1>1, PoppedFirst DEF OrderOK
<1>5. x.seen = IF IsBook(e0) THEN detector.seen \cup {e0.id} ELSE detector.seen
  BY <1>1 DEF Effect
<1>6. seenBook' = IF IsBook(e0) THEN e0.book ELSE seenBook
  BY DEF Pop, NoteProcessed, IsBook
<1>7. seenChange'.added = IF IsBook(e0) THEN e0.added ELSE seenChange.added
  BY <1>1, NotedIs DEF Pop, NoteProcessed
<1>8. AheadValues(A) /\ AheadValues(C)
  BY <1>3 DEF ValueOK, AheadValues
<1>9. IsBook(e0) => e0.id \in Nat /\ \A n \in detector.seen : n \in Nat /\ n <= e0.id
  <2>1. IsBook(e0) => e0 \in Books
    BY <1>1, <1>3, BooksAre
  <2>2. detector.seen \in SUBSET Nat
    BY DEF TypeInv, DetectorOK, Detectors
  <2>3. IsBook(e0) => Passed(detector, e0, seenChange)
    BY <1>3 DEF OrderOK
  <2>4. QED
    BY <2>1, <2>2, <2>3 DEF Passed, Books
<1>10. /\ 1 \in 1..Len(buffer) /\ buffer[1].event = e0 /\ 1..(1 - 1) = {}
  BY <1>1, TailIs
<1>11. ASSUME NEW p \in Prices, ~m, x.levels[p] # NoLevel
       PROVE  LevelValue(x, C, seenBook', seenChange', p)
  <2>1. LevelEffect(detector, e0, x, p)
    BY <1>1 DEF Effect
  <2>2. detector.levels[p] # NoLevel => LevelValue(detector, A, seenBook, seenChange, p)
    BY <1>11 DEF ValueOK
  <2>3. IsBook(e0) => Linked(detector, buffer, 1)
    BY <1>10, <1>11 DEF LinkOK, BufferLinked
  <2>4. CASE ~IsBook(e0)
    <3>1. /\ detector.levels[p] # NoLevel /\ x.levels[p].visible = detector.levels[p].visible
          /\ x.seen = detector.seen /\ seenBook' = seenBook
          /\ seenChange'.added = seenChange.added
      BY <1>5, <1>6, <1>7, <1>11, <2>1, <2>4 DEF LevelEffect
    <3>2. QED
      BY <1>3, <2>2, <3>1 DEF LevelValue
  <2>5. CASE IsBook(e0) /\ e0.id \in detector.seen
    <3>1. e0.boundary
      BY <1>3, <2>5 DEF OrderOK, Passed
    <3>2. detector.levels[p] = NoLevel
      BY <1>10, <2>3, <2>5, <3>1 DEF Linked, Bare
    <3>3. QED
      BY <1>11, <2>1, <2>5, <3>2 DEF LevelEffect
  <2>6. CASE IsBook(e0) /\ e0.id \notin detector.seen
    <3>1. seenBook' = e0.book /\ seenChange'.added = e0.added /\ e0 \in A
      BY <1>3, <1>6, <1>7, <2>6
    <3>2. \A n \in x.seen : (\A k \in x.seen : k <= n) => n = e0.id
      BY <1>5, <1>9, <2>6
    <3>3. \A e \in C : e.id = e0.id + 1 /\ ~e.boundary /\ p \notin e.prices
                         => Same(p, e.book, e.added, e0.book, e0.added)
      BY <1>3, <1>8, <3>1 DEF AheadValues, Same
    <3>4. e0.id = updateId /\ p \notin changed => Same(p, market, added, e0.book, e0.added)
      BY <1>8, <3>1 DEF AheadValues, Same
    <3>5. x.levels[p].visible = e0.book[p]
      <4>1. CASE p \in e0.prices
        BY <1>11, <2>1, <2>6, <4>1 DEF LevelEffect
      <4>2. CASE p \notin e0.prices
        <5>1. ~e0.boundary /\ x.levels[p] = detector.levels[p]
          BY <1>11, <2>1, <2>6, <4>2 DEF LevelEffect
        <5>2. Same(p, e0.book, e0.added, seenBook, seenChange.added)
              /\ detector.levels[p].visible = seenBook[p]
          BY <1>1, <1>11, <2>6, <4>2, <5>1, UntoldLevel
        <5>3. QED
          BY <5>1, <5>2 DEF Same
      <4>3. QED
        BY <4>1, <4>2
    <3>6. QED
      BY <3>1, <3>2, <3>3, <3>4, <3>5 DEF LevelValue
  <2>7. QED
    BY <2>4, <2>5, <2>6
<1>12. QED
  BY <1>8, <1>11 DEF ValueOK

(* What holds of the events on their way to the detector, of the detector  *)
(* and of what was processed last.                                         *)
Sync(d, b, q, sb, sc, m) ==
  OrderOK(d, b, q, sc) /\ LinkOK(d, b, q, m) /\ ValueOK(d, b, q, sb, sc, m)

SyncInv == Sync(detector, buffer, depthQueue, seenBook, seenChange, missed)

LEMMA SyncPrimed ==
  ASSUME UNCHANGED <<now, market, added, changed, changes, changedAt, updateId, feed>>,
         Sync(detector', buffer', depthQueue', seenBook', seenChange', missed')
  PROVE  SyncInv'
<1>1. OrderOK(detector, buffer, depthQueue, seenChange)'
  BY DEF Sync, OrderOK, InOrder, Known
<1>2. LinkOK(detector, buffer, depthQueue, missed)'
  BY DEF Sync, LinkOK, QueueLinked
<1>3. ValueOK(detector, buffer, depthQueue, seenBook, seenChange, missed)'
  BY DEF Sync, ValueOK, AheadValues, LevelValue
<1>4. QED
  BY <1>1, <1>2, <1>3 DEF SyncInv, Sync

LEMMA SyncPop ==
  ASSUME TypeInv, NEW m \in BOOLEAN,
         Sync(detector, buffer, depthQueue, seenBook, seenChange, m), NEW x, Pop(x)
  PROVE  Sync(x, Tail(buffer), depthQueue, seenBook', seenChange', m)
<1>1. depthQueue \in Seq(DepthEvent)
  BY DEF TypeInv
<1>2. seenChange' = Noted(Head(buffer).event)
  BY DEF Pop, NoteProcessed
<1>3. QED
  BY <1>1, <1>2, OrderPop, LinkPop, ValuePop DEF Sync

LEMMA SyncPut ==
  ASSUME TypeInv, NEW s \in Seq(Entry), InSort(s), NEW q \in Seq(DepthEvent), q # <<>>,
         Head(q) \in Buffered, NEW d, NEW sb, NEW sc, NEW m \in BOOLEAN,
         Sync(d, s, q, sb, sc, m),
         IsBoundary(Head(q)) /\ ~m => Bare(d) /\ Waiting(s) = {}
  PROVE  Sync(d, Sorted(s, Received(Head(q))), Tail(q), sb, sc, m)
<1> DEFINE t == Sorted(s, Received(Head(q)))
<1>1. OrderOK(d, t, Tail(q), sc)
  BY OrderPut DEF Sync
<1>2. LinkOK(d, t, Tail(q), m)
  BY LinkPut DEF Sync
<1>3. Ahead(t, Tail(q)) \subseteq Ahead(s, q)
  <2>1. PICK k : Put(s, Received(Head(q)), t, k)
    BY OrderPut DEF Sync
  <2>2. Waiting(t) = Waiting(s) \cup JustBook(Head(q))
    BY <2>1, PutBuffer, ReceivedIs
  <2>3. QED
    BY <2>2, PoppedQueue DEF Ahead
<1> HIDE DEF t
<1>4. ValueOK(d, t, Tail(q), sb, sc, m)
  BY <1>3, ValueLess DEF Sync
<1>5. QED
  BY <1>1, <1>2, <1>4 DEF Sync, t

LEMMA SyncPutTrade ==
  ASSUME TypeInv, NEW s \in Seq(Entry), InSort(s), NEW q, NEW e \in Trades,
         NEW d, NEW sb, NEW sc, NEW m \in BOOLEAN, Sync(d, s, q, sb, sc, m)
  PROVE  Sync(d, Sorted(s, Received(e)), q, sb, sc, m)
<1> DEFINE t == Sorted(s, Received(e))
<1>1. OrderOK(d, t, q, sc)
  BY OrderPutTrade DEF Sync
<1>2. LinkOK(d, t, q, m)
  BY LinkPutTrade DEF Sync
<1>3. Ahead(t, q) \subseteq Ahead(s, q)
  <2>1. Received(e) \in Entry /\ Received(e).event = e /\ ~IsBook(e)
    BY ReceivedIs DEF Buffered, Trades, IsBook
  <2>2. PICK k : Put(s, Received(e), t, k)
    BY <2>1, PutSort
  <2>3. Waiting(t) = Waiting(s)
    BY <2>1, <2>2, PutBuffer DEF JustBook
  <2>4. QED
    BY <2>3 DEF Ahead
<1> HIDE DEF t
<1>4. ValueOK(d, t, q, sb, sc, m)
  BY <1>3, ValueLess DEF Sync
<1>5. QED
  BY <1>1, <1>2, <1>4 DEF Sync, t

(* The buffer is emptied and the detector begins anew.                     *)
LEMMA SyncReset ==
  ASSUME NEW d, NEW b, NEW q \in Seq(DepthEvent), NEW sb, NEW sc, NEW m, Sync(d, b, q, sb, sc, m),
         NEW quality \in Qualities, NEW seen \in SUBSET d.seen, d.seen \in SUBSET Nat, NEW k
  PROVE  /\ Sync(Fresh(quality, seen), <<>>, q, sb, sc, k)
         /\ q # <<>> => Sync(Fresh(quality, seen), <<>>, Tail(q), sb, sc, k)
<1> DEFINE x == Fresh(quality, seen)
<1>1. Bare(x)
  BY FreshIs DEF Bare
<1>2. OrderOK(x, <<>>, q, sc)
  BY OrderReset DEF Sync
<1> HIDE DEF x
<1>3. q # <<>> => OrderOK(x, <<>>, Tail(q), sc)
  BY <1>2, OrderSkip
<1>4. LinkOK(x, <<>>, q, k) /\ (q # <<>> => LinkOK(x, <<>>, Tail(q), k))
  BY <1>1, LinkBare DEF Sync, LinkOK
<1>5. /\ Ahead(<<>>, q) \subseteq Ahead(b, q)
      /\ q # <<>> => Ahead(<<>>, Tail(q)) \subseteq Ahead(b, q)
  BY NoneWait, PoppedQueue DEF Ahead
<1>6. ValueOK(d, b, q, sb, sc, m)
  BY DEF Sync
<1>7. ValueOK(x, <<>>, q, sb, sc, k)
  BY <1>1, <1>5, <1>6, ValueLess
<1>8. q # <<>> => ValueOK(x, <<>>, Tail(q), sb, sc, k)
  BY <1>1, <1>5, <1>6, ValueLess
<1>9. QED
  BY <1>2, <1>3, <1>4, <1>7, <1>8 DEF Sync, x

(* The detector is left out of an event.                                   *)
LEMMA SyncMissed ==
  ASSUME NEW d, NEW b, NEW q \in Seq(DepthEvent), q # <<>>, NEW sb, NEW sc, NEW m,
         Sync(d, b, q, sb, sc, m)
  PROVE  Sync(d, b, Tail(q), sb, sc, TRUE)
<1>1. OrderOK(d, b, Tail(q), sc) /\ LinkOK(d, b, Tail(q), TRUE)
  BY OrderSkip, LinkMissed DEF Sync, LinkOK
<1>2. Ahead(b, Tail(q)) \subseteq Ahead(b, q)
  BY PoppedQueue DEF Ahead
<1>3. ValueOK(d, b, Tail(q), sb, sc, TRUE)
  BY <1>2, ValueLess DEF Sync
<1>4. QED
  BY <1>1, <1>3 DEF Sync

LEMMA QuietWaiting ==
  ASSUME NEW d, NEW b, Quiet(d, b)
  PROVE  Bare(d) /\ Waiting(b) = {}
  BY DEF Quiet, Calm, Waiting

(* A boundary comes only after a break.                                    *)
LEMMA BoundaryAwaited ==
  ASSUME NEW q \in Seq(DepthEvent), q # <<>>, NEW r \in BOOLEAN, Expected(q, r),
         IsBoundary(Head(q))
  PROVE  r
<1>1. ExpectedAt(q, r, 1) /\ Head(q) = q[1] /\ (AwaitsAt(q, r, 1) <=> r)
  BY TailIs, AwaitsFirst DEF Expected
<1>2. QED
  BY <1>1 DEF ExpectedAt, IsBoundary, IsBook

LEMMA SyncIngestDepth ==
  ASSUME TypeInv, InSort(buffer), QueueInv, ResyncInv, SyncInv, IngestDepth
  PROVE  SyncInv'
<1> DEFINE q == depthQueue
           e == Head(q)
<1>1. /\ q \in Seq(DepthEvent) /\ q # <<>> /\ e \in DepthEvent /\ Ingest(e) /\ depthQueue' = Tail(q)
      /\ UNCHANGED <<now, market, added, changed, changes, changedAt, updateId, feed>>
  BY TailIs DEF IngestDepth, TypeInv, Ingest, marketVars
<1>2. /\ buffer \in Seq(Entry) /\ missed \in BOOLEAN /\ resyncing \in BOOLEAN
      /\ detector.seen \in SUBSET Nat
  BY DEF TypeInv, DetectorOK, Detectors
<1>3. OfDepth(e)
  BY <1>1, ResyncingIs
<1>4. IsBoundary(e) /\ ~missed => Quiet(detector, buffer)
  BY <1>1, <1>2, BoundaryAwaited DEF QueueInv, ResyncInv
<1>5. Sync(detector, buffer, q, seenBook, seenChange, missed)
  BY DEF SyncInv
<1> HIDE DEF q
<1>6. Sync(detector', buffer', Tail(q), seenBook', seenChange', missed')
  <2>1. CASE consumed'
    <3>1. Consume(e) /\ missed' = (missed /\ ~(e.type = "Break" /\ OfDepth(e)))
      BY <1>1, <2>1 DEF Ingest
    <3>2. ~IsBreak(e) => missed' = missed
      BY <1>2, <3>1 DEF IsBreak
    <3>3. CASE /\ e \in Buffered /\ ~IsBreak(e)
               /\ buffer' = Sorted(buffer, Received(e))
               /\ UNCHANGED <<detector, seenBook, seenChange>>
      <4>1. IsBoundary(e) /\ ~missed => Bare(detector) /\ Waiting(buffer) = {}
        BY <1>4, QuietWaiting
      <4>2. Sync(detector, Sorted(buffer, Received(e)), Tail(q), seenBook, seenChange, missed)
        BY <1>1, <1>2, <1>5, <3>3, <4>1, SyncPut
      <4>3. QED
        BY <3>2, <3>3, <4>2
    <3>4. CASE /\ e \in Buffered /\ ~IsBreak(e)
               /\ Pop(detector') /\ buffer' = Sorted(Tail(buffer), Received(e))
      <4>1. Sync(detector', Tail(buffer), q, seenBook', seenChange', missed)
        BY <1>2, <1>5, <3>4, SyncPop DEF q
      <4>2. buffer # <<>> /\ Tail(buffer) \in Seq(Entry) /\ InSort(Tail(buffer))
        BY <1>2, <3>4, HeadIs, TailSort DEF Pop
      <4>3. IsBoundary(e) /\ ~missed => Bare(detector') /\ Waiting(Tail(buffer)) = {}
        <5>1. IsBoundary(e) /\ ~missed => Quiet(detector', Tail(buffer))
          BY <1>2, <1>4, <3>4, <4>2, QuietPop DEF Pop
        <5>2. QED
          BY <5>1, QuietWaiting
      <4>4. Sync(detector', Sorted(Tail(buffer), Received(e)), Tail(q), seenBook', seenChange',
                 missed)
        BY <1>1, <1>2, <3>4, <4>1, <4>2, <4>3, SyncPut
      <4>5. QED
        BY <3>2, <3>4, <4>4
    <3>5. CASE /\ IsBreak(e) /\ e.quality \in {"Gap", "Degraded"}
               /\ detector' = Fresh(e.quality, detector.seen) /\ buffer' = <<>>
               /\ UNCHANGED <<seenBook, seenChange>>
      <4>1. e.quality \in Qualities /\ detector.seen \in SUBSET detector.seen
        BY <3>5 DEF Qualities
      <4>2. QED
        BY <1>1, <1>2, <1>5, <3>5, <4>1, SyncReset
    <3>6. QED
      BY <1>1, <3>1, <3>3, <3>4, <3>5, ConsumeIs
  <2>2. CASE ~consumed'
    <3>1. /\ UNCHANGED <<detector, buffer, latest, seenBook, seenChange>> /\ SyncRequirements
          /\ missed' = (missed \/ (OfDepth(e) /\ releasedAt' # 0))
      BY <1>1, <2>2 DEF Ingest, detectorVars
    <3>2. CASE missed'
      <4>1. Sync(detector, buffer, Tail(q), seenBook, seenChange, TRUE)
        BY <1>1, <1>5, SyncMissed
      <4>2. missed' = TRUE
        BY <1>2, <3>1, <3>2
      <4>3. QED
        BY <3>1, <4>1, <4>2
    <3>3. CASE ~missed'
      <4>1. releasedAt' = 0
        BY <1>3, <3>1, <3>3
      <4>2. Absent
        BY <2>2, <3>1, <4>1, StaysAbsent
      <4>3. "Synchronizing" \in Qualities /\ {} \in SUBSET detector.seen
        BY DEF Qualities
      <4>4. Sync(Fresh("Synchronizing", {}), <<>>, Tail(q), seenBook, seenChange, missed')
        BY <1>1, <1>2, <1>5, <4>3, SyncReset
      <4>5. QED
        BY <3>1, <4>2, <4>4 DEF Absent
    <3>4. QED
      BY <3>2, <3>3
  <2>3. QED
    BY <2>1, <2>2
<1>7. QED
  BY <1>1, <1>6, SyncPrimed

LEMMA SyncIngestTrade ==
  ASSUME TypeInv, InSort(buffer), SyncInv, IngestTrade
  PROVE  SyncInv'
<1> DEFINE e == Head(tradeQueue)
<1>1. /\ e \in TradeEvent /\ Ingest(e) /\ depthQueue' = depthQueue
      /\ UNCHANGED <<now, market, added, changed, changes, changedAt, updateId, feed>>
  BY TailIs DEF IngestTrade, TypeInv, Ingest, marketVars
<1>2. /\ buffer \in Seq(Entry) /\ missed \in BOOLEAN /\ depthQueue \in Seq(DepthEvent)
      /\ detector.seen \in SUBSET Nat
  BY DEF TypeInv, DetectorOK, Detectors
<1>3. ~OfDepth(e)
  BY <1>1, ResyncingIs
<1>4. Sync(detector, buffer, depthQueue, seenBook, seenChange, missed)
  BY DEF SyncInv
<1>5. e \in Buffered /\ ~IsBreak(e) => e \in Trades
  BY <1>1 DEF TradeEvent, Breaks, IsBreak
<1> HIDE DEF e
<1>6. Sync(detector', buffer', depthQueue, seenBook', seenChange', missed')
  <2>1. CASE consumed'
    <3>1. Consume(e) /\ missed' = (missed /\ ~(e.type = "Break" /\ OfDepth(e)))
      BY <1>1, <2>1 DEF Ingest
    <3>2. missed' = missed
      BY <1>2, <1>3, <3>1
    <3>3. CASE /\ e \in Buffered /\ ~IsBreak(e)
               /\ buffer' = Sorted(buffer, Received(e))
               /\ UNCHANGED <<detector, seenBook, seenChange>>
      BY <1>2, <1>4, <1>5, <3>2, <3>3, SyncPutTrade
    <3>4. CASE /\ e \in Buffered /\ ~IsBreak(e)
               /\ Pop(detector') /\ buffer' = Sorted(Tail(buffer), Received(e))
      <4>1. Sync(detector', Tail(buffer), depthQueue, seenBook', seenChange', missed)
        BY <1>2, <1>4, <3>4, SyncPop
      <4>2. Tail(buffer) \in Seq(Entry) /\ InSort(Tail(buffer))
        BY <1>2, <3>4, HeadIs, TailSort DEF Pop
      <4>3. QED
        BY <1>2, <1>5, <3>2, <3>4, <4>1, <4>2, SyncPutTrade
    <3>5. CASE /\ IsBreak(e) /\ e.quality \in {"Gap", "Degraded"}
               /\ detector' = Fresh(e.quality, detector.seen) /\ buffer' = <<>>
               /\ UNCHANGED <<seenBook, seenChange>>
      <4>1. e.quality \in Qualities /\ detector.seen \in SUBSET detector.seen
        BY <3>5 DEF Qualities
      <4>2. QED
        BY <1>2, <1>4, <3>5, <4>1, SyncReset
    <3>6. QED
      BY <1>1, <3>1, <3>3, <3>4, <3>5, ConsumeIs
  <2>2. CASE ~consumed'
    <3>1. /\ UNCHANGED <<detector, buffer, seenBook, seenChange>>
          /\ missed' = (missed \/ (OfDepth(e) /\ releasedAt' # 0))
      BY <1>1, <2>2 DEF Ingest, detectorVars
    <3>2. missed' = missed
      BY <1>2, <1>3, <3>1
    <3>3. QED
      BY <1>4, <3>1, <3>2
  <2>3. QED
    BY <2>1, <2>2
<1>7. QED
  BY <1>1, <1>6, SyncPrimed

(* The market and the adapter move on; the adapter may have added e.       *)
LEMMA OrderMoves ==
  ASSUME TypeInv, TypeInv', OrderOK(detector, buffer, depthQueue, seenChange),
         UNCHANGED <<detector, buffer, seenChange>>,
         now <= now', changedAt <= changedAt', changes <= changes', updateId <= updateId',
         NEW e,
         Coming(depthQueue') \subseteq Coming(depthQueue) \cup JustBook(e),
         IsBook(e) => /\ e.at = changedAt' /\ e.change = changes' /\ e.id = updateId'
                      /\ e.boundary \/ updateId < updateId',
         (\A f \in Coming(depthQueue) : IsBook(e) => Before(f, e)) => QueueInOrder(depthQueue')
  PROVE  OrderOK(detector, buffer, depthQueue, seenChange)'
<1> DEFINE A == Ahead(buffer, depthQueue)
<1>1. /\ buffer \in Seq(Entry) /\ depthQueue \in Seq(DepthEvent)
      /\ changes \in Nat /\ changes' \in Nat /\ updateId \in Nat /\ updateId' \in Nat
      /\ seenChange.book \in Nat /\ detector.seen \in SUBSET Nat
  BY DEF TypeInv, DetectorOK, Detectors
<1>2. changedAt \in Nat /\ changedAt' \in Nat /\ now \in Nat /\ now' \in Nat
  BY TimesAre DEF TypeInv
<1>3. \A f \in A : f \in Books /\ f.at \in Nat /\ f.change \in Nat /\ f.id \in Nat
  <2>1. \A f \in A : f \in Books
    BY <1>1, BooksAre DEF Ahead
  <2>2. QED
    BY <2>1, TimesAre DEF Books
<1>4. ASSUME NEW f \in A, IsBook(e)
      PROVE  Before(f, e)
  <2>1. f.at <= changedAt /\ f.change <= changes /\ f.id <= updateId
    BY <1>4 DEF OrderOK, Known
  <2>2. /\ e.at = changedAt' /\ e.change = changes' /\ e.id = updateId'
        /\ e.boundary \/ updateId < updateId'
    BY <1>4
  <2>3. /\ f.at <= changedAt' /\ f.change <= changes'
        /\ f.id <= updateId' /\ (updateId < updateId' => f.id # updateId')
    <3>1. updateId <= updateId'
      OBVIOUS
    <3>2. f.at \in Nat /\ f.change \in Nat /\ f.id \in Nat
      BY <1>3
    <3>3. f.at <= changedAt'
      BY <1>2, <2>1, <3>2
    <3>4. f.change <= changes'
      BY <1>1, <2>1, <3>2
    <3>5. f.id <= updateId' /\ (updateId < updateId' => f.id # updateId')
      BY <1>1, <2>1, <3>1, <3>2
    <3>6. QED
      BY <3>3, <3>4, <3>5
  <2>4. QED
    BY <2>2, <2>3 DEF Before
<1>5. ASSUME NEW f \in A
      PROVE  f.at <= changedAt' /\ f.change <= changes' /\ f.id <= updateId'
  <2>1. f.at <= changedAt /\ f.change <= changes /\ f.id <= updateId
    BY <1>5 DEF OrderOK, Known
  <2>2. f.at \in Nat /\ f.change \in Nat /\ f.id \in Nat
    BY <1>3
  <2>3. f.at <= changedAt' /\ f.change <= changes'
    BY <1>1, <1>2, <2>1, <2>2
  <2>4. f.id <= updateId'
    BY <1>1, <2>1, <2>2
  <2>5. QED
    BY <2>3, <2>4
<1>6. \A id \in detector.seen : id <= updateId /\ id <= updateId' /\ (id = updateId' => ~(updateId < updateId'))
  BY <1>1 DEF OrderOK
<1>7. seenChange.book <= changes'
  <2>1. seenChange.book <= changes
    BY DEF OrderOK
  <2>2. QED
    BY <1>1, <2>1
<1>8. InOrder(buffer)'
  <2>1. ASSUME NEW i \in 1..Len(buffer)
        PROVE  buffer[i].recv \in Nat
    <3>1. buffer[i] \in Entry
      BY <1>1, ElementOfSeq
    <3>2. QED
      BY <3>1 DEF Entry
  <2>2. \A i \in 1..Len(buffer) : IsBook(buffer[i].event) => buffer[i].recv <= now'
    BY <1>2, <2>1 DEF OrderOK, InOrder
  <2>3. QED
    BY <2>2 DEF OrderOK, InOrder
<1>9. QueueInOrder(depthQueue')
  BY <1>4 DEF Ahead
<1>10. ASSUME NEW f \in Waiting(buffer), NEW g \in Coming(depthQueue')
       PROVE  Before(f, g)
  <2>1. CASE g \in Coming(depthQueue)
    BY <2>1 DEF OrderOK
  <2>2. CASE g \in JustBook(e)
    BY <1>4, <2>2 DEF JustBook, Ahead
  <2>3. QED
    BY <2>1, <2>2
<1>11. ASSUME NEW f \in Ahead(buffer, depthQueue')
       PROVE  /\ f.at <= changedAt' /\ f.change <= changes' /\ f.id <= updateId'
              /\ Passed(detector, f, seenChange)
  <2>1. CASE f \in A
    BY <1>5, <2>1 DEF OrderOK
  <2>2. CASE f \in JustBook(e)
    <3>1. f = e /\ IsBook(e)
      BY <2>2 DEF JustBook
    <3>2. Passed(detector, e, seenChange)
      BY <1>6, <1>7, <3>1 DEF Passed
    <3>3. QED
      BY <1>1, <1>2, <3>1, <3>2
  <2>3. QED
    BY <1>11, <2>1, <2>2 DEF Ahead
<1>12. QED
  BY <1>6, <1>7, <1>8, <1>9, <1>10, <1>11 DEF OrderOK, Known

LEMMA QueueOrderAppend ==
  ASSUME NEW q \in Seq(DepthEvent), NEW e \in DepthEvent, QueueInOrder(q),
         \A f \in Coming(q) : IsBook(e) => Before(f, e)
  PROVE  QueueInOrder(Append(q, e))
<1> DEFINE t == Append(q, e)
<1>1. /\ Len(t) = Len(q) + 1 /\ Len(q) \in Nat /\ t[Len(q) + 1] = e
      /\ \A i \in 1..Len(q) : t[i] = q[i]
  BY AppendIs
<1> HIDE DEF t
<1>2. ASSUME NEW i \in 1..Len(t), NEW j \in 1..Len(t), i < j, IsBook(t[i]), IsBook(t[j])
      PROVE  Before(t[i], t[j])
  <2>1. i \in 1..Len(q) /\ t[i] = q[i] /\ (j \in 1..Len(q) \/ j = Len(q) + 1)
    BY <1>1, <1>2
  <2>2. CASE j \in 1..Len(q)
    BY <1>1, <1>2, <2>1, <2>2 DEF QueueInOrder
  <2>3. CASE j = Len(q) + 1
    <3>1. q[i] \in Coming(q)
      BY <1>2, <2>1, ComingIs
    <3>2. QED
      BY <1>1, <1>2, <2>1, <2>3, <3>1
  <2>4. QED
    BY <2>1, <2>2, <2>3
<1>3. QED
  BY <1>2 DEF QueueInOrder, t

(* The updates in the queue, without the last link.                        *)
Joined(d, b, q, m) ==
  \A i \in 1..Len(q) : IsBook(q[i]) /\ ~q[i].boundary =>
    Follows(q, i, q[i].id - 1, m \/ Link(d, b, q[i].id - 1))

LEMMA JoinedAppend ==
  ASSUME NEW q \in Seq(DepthEvent), NEW e \in DepthEvent, NEW d, NEW b, NEW m, Joined(d, b, q, m),
         IsBook(e) /\ ~e.boundary =>
           Follows(q, Len(q) + 1, e.id - 1, m \/ Link(d, b, e.id - 1))
  PROVE  Joined(d, b, Append(q, e), m)
<1> DEFINE t == Append(q, e)
<1>1. /\ Len(t) = Len(q) + 1 /\ Len(q) \in Nat /\ t[Len(q) + 1] = e
      /\ \A i \in 1..Len(q) : t[i] = q[i]
  BY AppendIs
<1>2. \A n, linked : \A i \in 1..(Len(q) + 1) : Follows(q, i, n, linked) => Follows(t, i, n, linked)
  BY FollowsAppend
<1> HIDE DEF t
<1>3. ASSUME NEW i \in 1..Len(t), IsBook(t[i]), ~t[i].boundary
      PROVE  Follows(t, i, t[i].id - 1, m \/ Link(d, b, t[i].id - 1))
  <2>1. i \in 1..(Len(q) + 1) /\ (i \in 1..Len(q) \/ i = Len(q) + 1)
    BY <1>1, <1>3
  <2>2. Follows(q, i, t[i].id - 1, m \/ Link(d, b, t[i].id - 1))
    BY <1>1, <1>3, <2>1 DEF Joined
  <2>3. QED
    BY <1>2, <2>1, <2>2
<1>4. QED
  BY <1>3 DEF Joined, t

LEMMA LinkMoves ==
  ASSUME LinkOK(detector, buffer, depthQueue, missed), UNCHANGED <<detector, buffer, missed>>,
         Joined(detector, buffer, depthQueue', missed),
         feed' = "live" => Follows(depthQueue', Len(depthQueue') + 1, updateId',
                                   missed \/ Link(detector, buffer, updateId'))
  PROVE  LinkOK(detector, buffer, depthQueue, missed)'
<1>1. (missed \/ BufferLinked(detector, buffer))'
  BY DEF LinkOK
<1>2. QueueLinked(detector, buffer, depthQueue, missed)'
  BY DEF QueueLinked, Joined
<1>3. QED
  BY <1>1, <1>2 DEF LinkOK

(* The market changes, and the adapter tells nothing of it yet.            *)
LEMMA ValueChange ==
  ASSUME TypeInv, TypeInv', SyncInv, UNCHANGED <<detector, buffer, depthQueue, seenBook, seenChange,
                                                 missed, updateId>>,
         NEW p \in Prices, changed' = changed \cup {p},
         \A r \in Prices : r # p => market'[r] = market[r] /\ added'[r] = added[r]
  PROVE  ValueOK(detector, buffer, depthQueue, seenBook, seenChange, missed)'
<1> DEFINE A == Ahead(buffer, depthQueue)
<1>1. ValueOK(detector, buffer, depthQueue, seenBook, seenChange, missed)
  BY DEF SyncInv, Sync
<1>2. \A r \in Prices : r \notin changed' =>
         r \notin changed /\ market'[r] = market[r] /\ added'[r] = added[r]
  OBVIOUS
<1>3. AheadValues(A)'
  BY <1>1, <1>2 DEF ValueOK, AheadValues, Same
<1>4. ASSUME NEW r \in Prices, LevelValue(detector, A, seenBook, seenChange, r)
      PROVE  LevelValue(detector, A, seenBook, seenChange, r)'
  BY <1>2, <1>4 DEF LevelValue, Same
<1>5. missed' \/ \A r \in Prices : detector'.levels[r] # NoLevel =>
        LevelValue(detector, A, seenBook, seenChange, r)'
  BY <1>1, <1>4 DEF ValueOK
<1>6. QED
  BY <1>3, <1>5 DEF ValueOK

(* The adapter takes note of the changes, and may tell them, in e.         *)
LEMMA ValueTold ==
  ASSUME TypeInv, TypeInv', SyncInv, UNCHANGED <<detector, buffer, seenBook, seenChange, missed, market, added>>,
         changed' = {}, updateId' = updateId + 1 \/ (updateId' = updateId /\ changed = {}),
         NEW e,
         Coming(depthQueue') \subseteq Coming(depthQueue) \cup JustBook(e),
         IsBook(e) => /\ e.book = market /\ e.added = added /\ e.id = updateId'
                      /\ e.boundary \/ (e.prices = changed /\ updateId' = updateId + 1)
  PROVE  ValueOK(detector, buffer, depthQueue, seenBook, seenChange, missed)'
<1> DEFINE A == Ahead(buffer, depthQueue)
           C == Ahead(buffer, depthQueue')
<1>1. /\ AheadValues(A)
      /\ missed \/ \A p \in Prices : detector.levels[p] # NoLevel =>
           LevelValue(detector, A, seenBook, seenChange, p)
  BY DEF SyncInv, Sync, ValueOK
<1>2. updateId \in Nat /\ updateId' \in Nat /\ detector.seen \in SUBSET Nat
  BY DEF TypeInv, DetectorOK, Detectors
<1>3. ASSUME NEW f \in A
      PROVE  f.id \in Nat /\ f.id <= updateId
  <2>1. f \in Books
    BY <1>3, BooksAre DEF Ahead, TypeInv
  <2>2. Known(f)
    BY DEF SyncInv, Sync, OrderOK
  <2>3. QED
    BY <2>1, <2>2 DEF Books, Known
<1>4. \A f \in C : f \in A \/ (f = e /\ IsBook(e))
  BY DEF Ahead, JustBook
<1>5. \A n \in detector.seen : n \in Nat /\ n <= updateId
  BY <1>2 DEF SyncInv, Sync, OrderOK
<1> HIDE DEF A, C
<1>6. ASSUME NEW f \in C, NEW g \in C, NEW p \in Prices, g.id = f.id + 1, ~g.boundary, p \notin g.prices
      PROVE  Same(p, f.book, f.added, g.book, g.added)
  <2>1. CASE f \in A /\ g \in A
    BY <1>1, <1>6, <2>1 DEF AheadValues
  <2>2. CASE f \in A /\ g = e /\ IsBook(e)
    <3>1. p \notin changed /\ f.id = updateId
      BY <1>2, <1>3, <1>6, <2>2
    <3>2. QED
      BY <1>1, <2>2, <3>1 DEF AheadValues
  <2>3. CASE f = e /\ IsBook(e)
    <3>1. g.id = updateId' + 1
      BY <1>6, <2>3
    <3>2. g \in A => FALSE
      BY <1>2, <1>3, <3>1
    <3>3. g = e => FALSE
      BY <1>2, <2>3, <3>1
    <3>4. QED
      BY <1>4, <1>6, <3>2, <3>3
  <2>4. QED
    BY <1>4, <1>6, <2>1, <2>2, <2>3
<1>7. ASSUME NEW f \in C, NEW p \in Prices, f.id = updateId'
      PROVE  Same(p, f.book, f.added, market, added)
  <2>1. CASE f \in A
    <3>1. updateId' = updateId /\ changed = {}
      BY <1>2, <1>3, <1>7, <2>1
    <3>2. QED
      BY <1>1, <1>7, <2>1, <3>1 DEF AheadValues
  <2>2. CASE f = e /\ IsBook(e)
    BY <2>2 DEF Same
  <2>3. QED
    BY <1>4, <1>7, <2>1, <2>2
<1>8. ASSUME NEW p \in Prices, LevelValue(detector, A, seenBook, seenChange, p)
      PROVE  /\ detector.levels[p].visible = seenBook[p]
             /\ \A n \in detector.seen : (\A k \in detector.seen : k <= n) =>
                  /\ \A f \in C : f.id = n + 1 /\ ~f.boundary /\ p \notin f.prices
                       => Same(p, f.book, f.added, seenBook, seenChange.added)
                  /\ n = updateId' => Same(p, market, added, seenBook, seenChange.added)
  <2>1. ASSUME NEW n \in detector.seen, \A k \in detector.seen : k <= n
        PROVE  /\ \A f \in A : f.id = n + 1 /\ ~f.boundary /\ p \notin f.prices
                    => Same(p, f.book, f.added, seenBook, seenChange.added)
               /\ n = updateId /\ p \notin changed => Same(p, market, added, seenBook, seenChange.added)
    BY <1>8, <2>1 DEF LevelValue
  <2>2. ASSUME NEW n \in detector.seen, \A k \in detector.seen : k <= n,
               NEW f \in C, f.id = n + 1, ~f.boundary, p \notin f.prices
        PROVE  Same(p, f.book, f.added, seenBook, seenChange.added)
    <3>1. CASE f \in A
      BY <2>1, <2>2, <3>1
    <3>2. CASE f = e /\ IsBook(e)
      <4>1. n = updateId /\ p \notin changed
        BY <1>2, <1>5, <2>2, <3>2
      <4>2. Same(p, market, added, seenBook, seenChange.added)
        BY <2>1, <2>2, <4>1
      <4>3. QED
        BY <3>2, <4>2
    <3>3. QED
      BY <1>4, <2>2, <3>1, <3>2
  <2>3. ASSUME NEW n \in detector.seen, \A k \in detector.seen : k <= n, n = updateId'
        PROVE  Same(p, market, added, seenBook, seenChange.added)
    <3>1. n = updateId /\ changed = {}
      BY <1>2, <1>5, <2>3
    <3>2. QED
      BY <2>1, <2>3, <3>1
  <2>4. QED
    BY <1>8, <2>2, <2>3 DEF LevelValue
<1>9. AheadValues(Ahead(buffer, depthQueue))'
  BY <1>6, <1>7 DEF AheadValues, C
<1>10. ASSUME NEW p \in Prices, detector.levels[p] # NoLevel, ~missed
       PROVE  LevelValue(detector, Ahead(buffer, depthQueue), seenBook, seenChange, p)'
  <2>1. LevelValue(detector, A, seenBook, seenChange, p)
    BY <1>1, <1>10
  <2>2. QED
    BY <1>8, <2>1 DEF LevelValue, C
<1>11. QED
  BY <1>9, <1>10 DEF ValueOK

LEMMA NoBook ==
  ASSUME NEW q, NEW e, ~IsBook(e)
  PROVE  Coming(q) \cup JustBook(e) = Coming(q)
  BY DEF JustBook

(* Nothing that the order or the links depend on changes, but the market.  *)
LEMMA SyncChange ==
  ASSUME TypeInv, TypeInv', SyncInv, NEW p \in Prices, NEW qty, Change(p, qty)
  PROVE  SyncInv'
<1>1. /\ UNCHANGED <<now, updateId, feed, depthQueue, detector, buffer, seenBook, seenChange, missed>>
      /\ changed' = changed \cup {p} /\ changes' = changes + 1 /\ changedAt' = now
  BY DEF Change, insideVars, registryVars, detectorVars, historyVars
<1>2. now \in Nat /\ changedAt \in Nat /\ changedAt <= now /\ changes \in Nat /\ updateId \in Nat
  BY TimesAre DEF TypeInv
<1>3. now <= now' /\ changedAt <= changedAt' /\ changes <= changes' /\ updateId <= updateId'
  BY <1>1, <1>2
<1>4. ~IsBook(Quality("Healthy"))
  BY DEF Quality, IsBook
<1>5. OrderOK(detector, buffer, depthQueue, seenChange) /\ QueueInOrder(depthQueue')
  BY <1>1 DEF SyncInv, Sync, OrderOK
<1>6. OrderOK(detector, buffer, depthQueue, seenChange)'
  <2>1. Coming(depthQueue') \subseteq Coming(depthQueue) \cup JustBook(Quality("Healthy"))
    BY <1>1
  <2>2. QED
    BY <1>1, <1>3, <1>4, <1>5, <2>1, OrderMoves
<1>7. LinkOK(detector, buffer, depthQueue, missed)'
  BY <1>1 DEF SyncInv, Sync, LinkOK, QueueLinked
<1>8. ValueOK(detector, buffer, depthQueue, seenBook, seenChange, missed)'
  <2>1. /\ market \in [Prices -> Nat] /\ added \in [Prices -> Nat]
        /\ market' = [market EXCEPT ![p] = qty]
        /\ added' = [added EXCEPT ![p] = @ + Max2(qty - market[p], 0)]
    BY DEF Change, TypeInv, Quantities, Totals
  <2>2. \A r \in Prices : r # p => market'[r] = market[r] /\ added'[r] = added[r]
    BY <2>1
  <2>3. QED
    BY <1>1, <2>2, ValueChange
<1>9. QED
  BY <1>6, <1>7, <1>8 DEF SyncInv, Sync

(* The adapter takes note of the changes, and may tell them, in e.         *)
LEMMA SyncTold ==
  ASSUME TypeInv, TypeInv', SyncInv,
         UNCHANGED <<now, changedAt, changes, market, added, detector, buffer, seenBook, seenChange,
                     missed>>,
         changed' = {}, updateId' = updateId + 1 \/ (updateId' = updateId /\ changed = {}),
         NEW e,
         Coming(depthQueue') \subseteq Coming(depthQueue) \cup JustBook(e),
         IsBook(e) => /\ e.book = market /\ e.added = added /\ e.id = updateId'
                      /\ e.at = changedAt /\ e.change = changes
                      /\ e.boundary \/ (e.prices = changed /\ updateId' = updateId + 1),
         (\A f \in Coming(depthQueue) : IsBook(e) => Before(f, e)) => QueueInOrder(depthQueue'),
         Joined(detector, buffer, depthQueue', missed),
         feed' = "live" => Follows(depthQueue', Len(depthQueue') + 1, updateId',
                                   missed \/ Link(detector, buffer, updateId'))
  PROVE  SyncInv'
<1>1. now \in Nat /\ changedAt \in Nat /\ changes \in Nat /\ updateId \in Nat
  BY TimesAre DEF TypeInv
<1>2. now <= now' /\ changedAt <= changedAt' /\ changes <= changes' /\ updateId <= updateId'
  BY <1>1
<1>3. IsBook(e) => e.boundary \/ updateId < updateId'
  BY <1>1
<1>4. OrderOK(detector, buffer, depthQueue, seenChange) /\ LinkOK(detector, buffer, depthQueue, missed)
  BY DEF SyncInv, Sync
<1>5. OrderOK(detector, buffer, depthQueue, seenChange)'
  BY <1>2, <1>3, <1>4, OrderMoves
<1>6. LinkOK(detector, buffer, depthQueue, missed)'
  BY <1>4, LinkMoves
<1>7. ValueOK(detector, buffer, depthQueue, seenBook, seenChange, missed)'
  BY ValueTold
<1>8. QED
  BY <1>5, <1>6, <1>7 DEF SyncInv, Sync

(* The adapter adds an event that is not an update, or none, and is not    *)
(* live then.                                                              *)
LEMMA SyncOther ==
  ASSUME TypeInv, TypeInv', SyncInv,
         UNCHANGED <<changedAt, changes, market, added, changed, updateId, detector, buffer, seenBook,
                     seenChange, missed>>,
         now' = now \/ now' = now + 1,
         \/ UNCHANGED <<depthQueue, feed>>
         \/ /\ feed' # "live"
            /\ \E e \in DepthEvent : ~IsBook(e) /\ depthQueue' = Append(depthQueue, e)
  PROVE  SyncInv'
<1>1. now \in Nat /\ changedAt \in Nat /\ changes \in Nat /\ updateId \in Nat
      /\ depthQueue \in Seq(DepthEvent)
  BY TimesAre DEF TypeInv
<1>2. now <= now' /\ changedAt <= changedAt' /\ changes <= changes' /\ updateId <= updateId'
  BY <1>1
<1>3. /\ OrderOK(detector, buffer, depthQueue, seenChange)
      /\ LinkOK(detector, buffer, depthQueue, missed)
      /\ Joined(detector, buffer, depthQueue, missed)
      /\ ValueOK(detector, buffer, depthQueue, seenBook, seenChange, missed)
      /\ QueueInOrder(depthQueue)
  BY DEF SyncInv, Sync, LinkOK, QueueLinked, Joined, OrderOK
<1>4. PICK e : /\ ~IsBook(e) /\ Coming(depthQueue') = Coming(depthQueue)
               /\ QueueInOrder(depthQueue')
               /\ Joined(detector, buffer, depthQueue', missed)
  <2>1. CASE UNCHANGED depthQueue
    <3>1. ~IsBook(Quality("Healthy"))
      BY DEF Quality, IsBook
    <3>2. QED
      BY <1>3, <2>1, <3>1
  <2>2. CASE \E e \in DepthEvent : ~IsBook(e) /\ depthQueue' = Append(depthQueue, e)
    <3>1. PICK e \in DepthEvent : ~IsBook(e) /\ depthQueue' = Append(depthQueue, e)
      BY <2>2
    <3>2. Coming(depthQueue') = Coming(depthQueue)
      BY <1>1, <3>1, AppendedQueue, NoBook
    <3>3. QED
      BY <1>1, <1>3, <3>1, <3>2, QueueOrderAppend, JoinedAppend
  <2>3. QED
    BY <2>1, <2>2
<1>5. OrderOK(detector, buffer, depthQueue, seenChange)'
  BY <1>2, <1>3, <1>4, NoBook, OrderMoves
<1>6. feed' = "live" => Follows(depthQueue', Len(depthQueue') + 1, updateId',
                                missed \/ Link(detector, buffer, updateId'))
  BY <1>3 DEF LinkOK, QueueLinked
<1>7. LinkOK(detector, buffer, depthQueue, missed)'
  BY <1>3, <1>4, <1>6, LinkMoves
<1>8. ValueOK(detector, buffer, depthQueue, seenBook, seenChange, missed)'
  <2>1. Ahead(buffer, depthQueue') = Ahead(buffer, depthQueue)
    BY <1>4 DEF Ahead
  <2>2. QED
    BY <1>3, <2>1 DEF ValueOK, AheadValues, LevelValue
<1>9. QED
  BY <1>5, <1>7, <1>8 DEF SyncInv, Sync

LEMMA SyncBoundary ==
  ASSUME TypeInv, TypeInv', SyncInv, DepthBoundary
  PROVE  SyncInv'
<1> DEFINE q == depthQueue
           e == Book(TRUE, updateId', {p \in Prices : market[p] > 0})
           f == Quality("Healthy")
           r == Append(q, e)
<1>1. q \in Seq(DepthEvent) /\ updateId' \in Nat /\ now \in Times
  BY DEF TypeInv
<1>2. /\ e \in DepthEvent /\ IsBook(e) /\ e.boundary /\ e.id = updateId'
      /\ e.book = market /\ e.added = added /\ e.at = changedAt /\ e.change = changes
  <2>1. {p \in Prices : market[p] > 0} \in SUBSET Prices /\ TRUE \in BOOLEAN
    BY <1>1
  <2>2. e \in Books
    BY <1>1, <2>1, BookEventIs
  <2>3. QED
    BY <2>2 DEF Book, IsBook, DepthEvent
<1>3. f \in DepthEvent /\ ~IsBook(f)
  BY <1>1 DEF Quality, DepthEvent, Told, IsBook
<1>4. /\ updateId' = (IF changed = {} THEN updateId ELSE updateId + 1) /\ changed' = {}
      /\ depthQueue' = q \o <<e, f>>
      /\ UNCHANGED <<now, changedAt, changes, market, added, detector, buffer, seenBook, seenChange,
                     missed>>
  BY DEF DepthBoundary, insideVars, detectorVars, historyVars, registryVars
<1> HIDE DEF e, f
<1>5. depthQueue' = Append(r, f) /\ r \in Seq(DepthEvent)
  BY <1>1, <1>2, <1>3, <1>4, Concat2, AppendIs
<1>6. Coming(depthQueue') \subseteq Coming(q) \cup JustBook(e)
  <2>1. Coming(r) = Coming(q) \cup JustBook(e)
    BY <1>1, <1>2, AppendedQueue
  <2>2. Coming(depthQueue') = Coming(r) \cup JustBook(f)
    BY <1>3, <1>5, AppendedQueue
  <2>3. JustBook(f) = {}
    BY <1>3 DEF JustBook
  <2>4. QED
    BY <2>1, <2>2, <2>3
<1>7. ASSUME \A g \in Coming(q) : IsBook(e) => Before(g, e)
      PROVE  QueueInOrder(depthQueue')
  <2>1. QueueInOrder(r)
    BY <1>1, <1>2, <1>7, QueueOrderAppend DEF SyncInv, Sync, OrderOK
  <2>2. QED
    BY <1>3, <1>5, <2>1, QueueOrderAppend
<1>8. Joined(detector, buffer, depthQueue', missed)
  <2>1. Joined(detector, buffer, q, missed)
    BY DEF SyncInv, Sync, LinkOK, QueueLinked, Joined
  <2>2. Joined(detector, buffer, r, missed)
    BY <1>1, <1>2, <2>1, JoinedAppend
  <2>3. QED
    BY <1>3, <1>5, <2>2, JoinedAppend
<1>9. Follows(depthQueue', Len(depthQueue') + 1, updateId',
              missed \/ Link(detector, buffer, updateId'))
  <2>1. /\ Len(q) \in Nat /\ Len(r) = Len(q) + 1 /\ Len(depthQueue') = Len(r) + 1
    BY <1>1, <1>2, <1>3, <1>5, AppendIs
  <2>2. Len(r) + 1 = Len(q) + 2 /\ Len(depthQueue') + 1 = Len(r) + 2
    BY <2>1
  <2>3. Follows(r, Len(r) + 1, updateId', missed \/ Link(detector, buffer, updateId'))
    BY <1>1, <1>2, <2>2, FollowsAppend
  <2>4. QED
    BY <1>3, <1>5, <2>2, <2>3, FollowsAppend
<1>10. updateId' = updateId + 1 \/ (updateId' = updateId /\ changed = {})
  BY <1>4
<1>11. QED
  BY <1>2, <1>4, <1>6, <1>7, <1>8, <1>9, <1>10, SyncTold

LEMMA SyncUpdate ==
  ASSUME TypeInv, TypeInv', SyncInv, DepthUpdate, feed = "live"
  PROVE  SyncInv'
<1> DEFINE q == depthQueue
           e == Book(FALSE, updateId', changed)
<1>1. /\ q \in Seq(DepthEvent) /\ updateId \in Nat /\ updateId' \in Nat
      /\ changed \in SUBSET Prices
  BY DEF TypeInv
<1>2. /\ e \in DepthEvent /\ IsBook(e) /\ ~e.boundary /\ e.id = updateId' /\ e.prices = changed
      /\ e.book = market /\ e.added = added /\ e.at = changedAt /\ e.change = changes
  <2>1. changed \in SUBSET Prices /\ FALSE \in BOOLEAN
    BY <1>1
  <2>2. e \in Books
    BY <1>1, <2>1, BookEventIs
  <2>3. QED
    BY <2>2 DEF Book, IsBook, DepthEvent
<1>3. /\ updateId' = updateId + 1 /\ changed' = {} /\ depthQueue' = Append(q, e)
      /\ UNCHANGED <<now, changedAt, changes, market, added, detector, buffer, seenBook, seenChange,
                     missed, feed>>
  BY DEF DepthUpdate, insideVars, detectorVars, historyVars, registryVars
<1> HIDE DEF e
<1>4. Coming(depthQueue') \subseteq Coming(q) \cup JustBook(e)
  BY <1>1, <1>2, <1>3, AppendedQueue
<1>5. ASSUME \A g \in Coming(q) : IsBook(e) => Before(g, e)
      PROVE  QueueInOrder(depthQueue')
  BY <1>1, <1>2, <1>3, <1>5, QueueOrderAppend DEF SyncInv, Sync, OrderOK
<1>6. Joined(detector, buffer, depthQueue', missed)
  <2>1. /\ Joined(detector, buffer, q, missed)
        /\ Follows(q, Len(q) + 1, updateId, missed \/ Link(detector, buffer, updateId))
    BY DEF SyncInv, Sync, LinkOK, QueueLinked, Joined
  <2>2. e.id - 1 = updateId
    BY <1>1, <1>2, <1>3
  <2>3. QED
    BY <1>1, <1>2, <1>3, <2>1, <2>2, JoinedAppend
<1>7. Follows(depthQueue', Len(depthQueue') + 1, updateId',
              missed \/ Link(detector, buffer, updateId'))
  <2>1. Len(q) \in Nat /\ Len(depthQueue') = Len(q) + 1
    BY <1>1, <1>2, <1>3, AppendIs
  <2>2. Len(depthQueue') + 1 = Len(q) + 2
    BY <2>1
  <2>3. QED
    BY <1>1, <1>2, <1>3, <2>2, FollowsAppend
<1>8. QED
  BY <1>2, <1>3, <1>4, <1>5, <1>6, <1>7, SyncTold

(* A change that is not told: the stream is down, or it is lost.           *)
LEMMA SyncUntold ==
  ASSUME TypeInv, TypeInv', SyncInv, DepthGap \/ (DepthUpdate /\ feed # "live")
  PROVE  SyncInv'
<1>1. /\ updateId' = updateId + 1 /\ changed' = {} /\ feed' # "live"
      /\ UNCHANGED <<now, changedAt, changes, market, added, detector, buffer, seenBook, seenChange,
                     missed>>
  BY DEF DepthGap, DepthUpdate, insideVars, detectorVars, historyVars, registryVars
<1>2. depthQueue \in Seq(DepthEvent) /\ Break("Gap", "depth") \in DepthEvent
  BY DEF TypeInv, DepthEvent, Break, Breaks
<1>3. ~IsBook(Break("Gap", "depth"))
  BY DEF Break, IsBook
<1>4. depthQueue' = depthQueue \/ depthQueue' = Append(depthQueue, Break("Gap", "depth"))
  BY DEF DepthGap, DepthUpdate
<1>5. /\ Joined(detector, buffer, depthQueue, missed) /\ QueueInOrder(depthQueue)
  BY DEF SyncInv, Sync, LinkOK, QueueLinked, Joined, OrderOK
<1>6. Coming(depthQueue') \subseteq Coming(depthQueue) \cup JustBook(Break("Gap", "depth"))
  BY <1>2, <1>4, AppendedQueue
<1>7. QueueInOrder(depthQueue') /\ Joined(detector, buffer, depthQueue', missed)
  BY <1>2, <1>3, <1>4, <1>5, QueueOrderAppend, JoinedAppend
<1>8. QED
  BY <1>1, <1>3, <1>6, <1>7, SyncTold

LEMMA SyncStep ==
  ASSUME TypeInv, TypeInv', InSort(buffer), QueueInv, ResyncInv, SyncInv, [Next]_vars
  PROVE  SyncInv'
<1>1. \A quality, source : ~IsBook(Break(quality, source))
  BY DEF Break, IsBook
<1>2. CASE Tick \/ DepthConnect \/ DepthDisconnect \/ TradeDisconnect
  <2>1. /\ Quality("Synchronizing") \in DepthEvent /\ ~IsBook(Quality("Synchronizing"))
        /\ Break("Degraded", "depth") \in DepthEvent
    BY DEF TypeInv, Quality, DepthEvent, Told, Break, Breaks, IsBook
  <2>2. /\ UNCHANGED <<changedAt, changes, market, added, changed, updateId, detector, buffer,
                       seenBook, seenChange, missed>>
        /\ now' = now \/ now' = now + 1
    BY <1>2 DEF Tick, DepthConnect, DepthDisconnect, TradeDisconnect, insideVars, detectorVars,
       historyVars, registryVars, marketVars
  <2>3. \/ UNCHANGED <<depthQueue, feed>>
        \/ /\ feed' # "live"
           /\ \E e \in DepthEvent : ~IsBook(e) /\ depthQueue' = Append(depthQueue, e)
    <3>1. CASE Tick \/ TradeDisconnect
      BY <3>1 DEF Tick, TradeDisconnect
    <3>2. CASE DepthConnect
      BY <2>1, <3>2 DEF DepthConnect
    <3>3. CASE DepthDisconnect
      BY <1>1, <2>1, <3>3 DEF DepthDisconnect
    <3>4. QED
      BY <1>2, <3>1, <3>2, <3>3
  <2>4. QED
    BY <2>2, <2>3, SyncOther
<1>3. CASE \E p \in Prices : Execute(p) \/ \E qty \in Qty(p) : Reprice(p, qty)
  BY <1>3, SyncChange DEF Execute, Reprice
<1>4. CASE DepthBoundary \/ DepthUpdate \/ DepthGap
  BY <1>4, SyncBoundary, SyncUpdate, SyncUntold
<1>5. CASE OtherMarketEvent \/ UNCHANGED vars
  <2>1. UNCHANGED <<now, market, added, changed, changes, changedAt, updateId, feed, depthQueue,
                    detector, buffer, seenBook, seenChange, missed>>
    BY <1>5 DEF OtherMarketEvent, vars, marketVars, insideVars, detectorVars, historyVars,
       registryVars
  <2>2. QED
    BY <2>1, SyncPrimed DEF SyncInv
<1>6. CASE CollectGarbage
  <2>1. /\ UNCHANGED <<now, market, added, changed, changes, changedAt, updateId, feed, depthQueue,
                       seenBook, seenChange>>
        /\ detector' = Fresh("Synchronizing", {}) /\ buffer' = <<>>
    BY <1>6 DEF CollectGarbage, marketVars, historyVars
  <2>2. /\ depthQueue \in Seq(DepthEvent) /\ detector.seen \in SUBSET Nat
        /\ "Synchronizing" \in Qualities /\ {} \in SUBSET detector.seen
    BY DEF TypeInv, DetectorOK, Detectors, Qualities
  <2>3. Sync(Fresh("Synchronizing", {}), <<>>, depthQueue, seenBook, seenChange, missed')
    BY <2>2, SyncReset DEF SyncInv
  <2>4. QED
    BY <2>1, <2>3, SyncPrimed
<1>7. CASE Drain
  <2>1. /\ Pop(detector') /\ buffer' = Tail(buffer)
        /\ UNCHANGED <<now, market, added, changed, changes, changedAt, updateId, feed, depthQueue,
                       missed>>
    BY <1>7, DrainIs DEF Drain, marketVars, registryVars
  <2>2. missed \in BOOLEAN
    BY DEF TypeInv
  <2>3. Sync(detector', Tail(buffer), depthQueue, seenBook', seenChange', missed)
    BY <2>1, <2>2, SyncPop DEF SyncInv
  <2>4. QED
    BY <2>1, <2>3, SyncPrimed
<1>8. QED
  BY <1>2, <1>3, <1>4, <1>5, <1>6, <1>7, SyncIngestDepth, SyncIngestTrade DEF Next, Outside

LEMMA SyncInit == Init => SyncInv
<1> SUFFICES ASSUME Init PROVE SyncInv
  OBVIOUS
<1>1. /\ depthQueue = <<>> /\ buffer = <<>> /\ detector = Fresh("Synchronizing", {})
      /\ feed = "syncing" /\ updateId = 1 /\ changes = 0 /\ seenChange.book = 0
  BY DEF Init
<1>2. detector.seen = {} /\ Bare(detector)
  BY <1>1, FreshIs DEF Qualities, Bare
<1>3. Len(buffer) = 0 /\ Len(depthQueue) = 0 /\ 1..0 = {} /\ Waiting(buffer) = {}
  BY <1>1, NoneWait
<1>4. Coming(depthQueue) = {} /\ Ahead(buffer, depthQueue) = {}
  BY <1>3 DEF Coming, Ahead
<1>5. OrderOK(detector, buffer, depthQueue, seenChange)
  BY <1>1, <1>2, <1>3, <1>4 DEF OrderOK, InOrder, QueueInOrder
<1>6. LinkOK(detector, buffer, depthQueue, missed)
  BY <1>1, <1>3 DEF LinkOK, BufferLinked, QueueLinked
<1>7. ValueOK(detector, buffer, depthQueue, seenBook, seenChange, missed)
  BY <1>2, <1>4 DEF ValueOK, AheadValues, Bare
<1>8. QED
  BY <1>5, <1>6, <1>7 DEF SyncInv, Sync

(* What all the theorems below rest on.                                    *)
DetectorInv == TypeInv /\ InSort(buffer) /\ QueueInv /\ ResyncInv /\ SyncInv

LEMMA ResyncInit == Init => QueueInv /\ ResyncInv
<1> SUFFICES ASSUME Init PROVE QueueInv /\ ResyncInv
  OBVIOUS
<1>1. Len(buffer) = 0 /\ Len(depthQueue) = 0 /\ 1..0 = {} /\ depthQueue = <<>>
  BY EmptySeq DEF Init
<1>2. AwaitsAt(depthQueue, resyncing, Len(depthQueue) + 1)
  <2>1. resyncing \in BOOLEAN /\ resyncing /\ 0 + 1 = 1
    BY DEF Init
  <2>2. QED
    BY <1>1, <2>1, AwaitsFirst
<1>3. QueueInv
  BY <1>1, <1>2 DEF QueueInv, Expected, Init
<1>4. ResyncInv
  BY AbsentIsQuiet DEF ResyncInv, Init, Absent
<1>5. QED
  BY <1>3, <1>4

LEMMA DetectorInvariant == Spec => []DetectorInv
<1>1. Init => DetectorInv
  <2>1. Init => InSort(buffer)
    BY EmptySeq DEF Init, InSort
  <2>2. QED
    BY <2>1, InitTypes, ResyncInit, SyncInit DEF DetectorInv
<1>2. DetectorInv /\ [Next]_vars => DetectorInv'
  BY StepTypes, QueueStep, ResyncStep, SyncStep DEF DetectorInv
<1>3. QED
  BY <1>1, <1>2, PTL DEF Spec

(* A level of the detector has the quantity of the last update processed,  *)
(* unless the detector was left out of one.                                *)
THEOREM NeverStale == Spec => []NoStaleLevel
<1>1. DetectorInv => NoStaleLevel
  BY DEF DetectorInv, SyncInv, Sync, ValueOK, LevelValue, NoStaleLevel
<1>2. QED
  BY <1>1, DetectorInvariant, PTL

(* Between a break of the depth stream and its boundary the detector is    *)
(* not Healthy and has no episode, unless it was left out of an event.     *)
THEOREM SilentWhileResyncing == Spec => []NoDetectionWhileResyncing
<1>1. DetectorInv => NoDetectionWhileResyncing
  BY DEF DetectorInv, ResyncInv, Quiet, NoDetectionWhileResyncing
<1>2. QED
  BY <1>1, DetectorInvariant, PTL

-----------------------------------------------------------------------------
(* The trades on their way to the detector *)

TradesIn(b) == {b[i].event : i \in {j \in 1..Len(b) : IsTrade(b[j].event)}}
TradesOf(t) == {t[i] : i \in {j \in 1..Len(t) : IsTrade(t[j])}}
Flight(b, t) == TradesIn(b) \cup TradesOf(t)

JustTrade(e) == IF IsTrade(e) THEN {e} ELSE {}

(* The changes after x and up to y at price p that they tell.              *)
Numbers(F, p, x, y) == {n \in (x + 1)..y : \E e \in F : e.price = p /\ e.change = n}
Count(F, p, x, y) == Cardinality(Numbers(F, p, x, y))

LEMMA CountIs ==
  ASSUME NEW F, NEW p, NEW x \in Int, NEW y \in Int
  PROVE  IsFiniteSet(Numbers(F, p, x, y)) /\ Count(F, p, x, y) \in Nat
<1>1. IsFiniteSet((x + 1)..y)
  BY FS_Interval
<1>2. Numbers(F, p, x, y) \subseteq (x + 1)..y
  BY DEF Numbers
<1>3. IsFiniteSet(Numbers(F, p, x, y))
  BY <1>1, <1>2, FS_Subset
<1>4. QED
  BY <1>3, FS_CardinalityType DEF Count

LEMMA CountLess ==
  ASSUME NEW F, NEW G, F \subseteq G, NEW p, NEW x \in Int, NEW z \in Int, x <= z, NEW y \in Int
  PROVE  Count(F, p, z, y) <= Count(G, p, x, y)
<1>1. (z + 1)..y \subseteq (x + 1)..y
  OBVIOUS
<1>2. Numbers(F, p, z, y) \subseteq Numbers(G, p, x, y)
  BY <1>1 DEF Numbers
<1>3. QED
  BY <1>2, CountIs, FS_Subset DEF Count

LEMMA CountNone ==
  ASSUME NEW F, NEW p, NEW x \in Int
  PROVE  Count(F, p, x, x) = 0
<1>1. (x + 1)..x = {}
  OBVIOUS
<1>2. Numbers(F, p, x, x) = {}
  BY <1>1 DEF Numbers
<1>3. QED
  BY <1>2, FS_EmptySet DEF Count

(* H is F and e, a trade of another change than those of F.                *)
Plus(F, e, H) == H = F \cup {e} /\ \A f \in F : f.change # e.change

LEMMA CountMore ==
  ASSUME NEW F, NEW e, NEW H, Plus(F, e, H), NEW p, NEW x \in Int, NEW y \in Int,
         e.change \in (x + 1)..y
  PROVE  Count(H, p, x, y) = IF p = e.price THEN Count(F, p, x, y) + 1 ELSE Count(F, p, x, y)
<1> DEFINE N == Numbers(F, p, x, y)
<1>1. CASE p = e.price
  <2>1. Numbers(H, p, x, y) = N \cup {e.change} /\ e.change \notin N
    BY <1>1 DEF Numbers, Plus
  <2>2. IsFiniteSet(N)
    BY CountIs
  <2> HIDE DEF N
  <2>3. Cardinality(N \cup {e.change}) = Cardinality(N) + 1
    BY <2>1, <2>2, FS_AddElement
  <2>4. QED
    BY <1>1, <2>1, <2>3 DEF Count, N
<1>2. CASE p # e.price
  <2>1. Numbers(H, p, x, y) = N
    BY <1>2 DEF Numbers, Plus
  <2>2. QED
    BY <1>2, <2>1 DEF Count
<1>3. QED
  BY <1>1, <1>2

LEMMA CountOther ==
  ASSUME NEW F, NEW e, NEW H, Plus(F, e, H), NEW p, NEW x \in Int, NEW y \in Int,
         e.change \notin (x + 1)..y
  PROVE  Count(H, p, x, y) = Count(F, p, x, y)
<1>1. Numbers(H, p, x, y) = Numbers(F, p, x, y)
  BY DEF Numbers, Plus
<1>2. QED
  BY <1>1 DEF Count

LEMMA CountLater ==
  ASSUME NEW F, NEW p, NEW x \in Int, NEW y \in Int,
         \A f \in F : f.change \in Int /\ f.change <= y
  PROVE  Count(F, p, x, y + 1) = Count(F, p, x, y)
<1>1. \A f \in F : f.change \in (x + 1)..(y + 1) <=> f.change \in (x + 1)..y
  OBVIOUS
<1>2. Numbers(F, p, x, y + 1) = Numbers(F, p, x, y)
  BY <1>1 DEF Numbers
<1>3. QED
  BY <1>2 DEF Count

LEMMA TradesInIs ==
  ASSUME NEW b, NEW e
  PROVE  e \in TradesIn(b) <=> IsTrade(e) /\ \E i \in 1..Len(b) : b[i].event = e
  BY DEF TradesIn

LEMMA TradesOfIs ==
  ASSUME NEW t, NEW e
  PROVE  e \in TradesOf(t) <=> IsTrade(e) /\ \E i \in 1..Len(t) : t[i] = e
  BY DEF TradesOf

LEMMA FlightIs ==
  ASSUME NEW b \in Seq(Entry), NEW t \in Seq(TradeEvent), NEW e \in Flight(b, t)
  PROVE  e \in Trades /\ IsTrade(e) /\ e.change \in Nat /\ e.price \in Prices
<1>1. ASSUME NEW f \in Buffered \cup TradeEvent, IsTrade(f)
      PROVE  f \in Trades
  BY <1>1 DEF Buffered, TradeEvent, Books, Told, Breaks, IsTrade
<1>2. CASE e \in TradesIn(b)
  <2>1. PICK i \in 1..Len(b) : b[i].event = e
    BY <1>2, TradesInIs
  <2>2. b[i] \in Entry
    BY <2>1, ElementOfSeq
  <2>3. QED
    BY <1>1, <1>2, <2>1, <2>2, TradesInIs DEF Entry, Trades
<1>3. CASE e \in TradesOf(t)
  <2>1. PICK i \in 1..Len(t) : t[i] = e
    BY <1>3, TradesOfIs
  <2>2. t[i] \in TradeEvent
    BY <2>1, ElementOfSeq
  <2>3. QED
    BY <1>1, <1>3, <2>1, <2>2, TradesOfIs DEF Trades
<1>4. QED
  BY <1>2, <1>3 DEF Flight

LEMMA PoppedTrades ==
  ASSUME NEW b \in Seq(Entry), b # <<>>
  PROVE  TradesIn(b) = TradesIn(Tail(b)) \cup JustTrade(Head(b).event)
<1>1. ASSUME NEW e
      PROVE  e \in TradesIn(b) <=> e \in TradesIn(Tail(b)) \/ e \in JustTrade(Head(b).event)
  <2>1. (\E i \in 1..Len(b) : b[i].event = e)
          <=> (e = Head(b).event \/ \E i \in 1..Len(Tail(b)) : Tail(b)[i].event = e)
    BY TailIs
  <2>2. /\ e \in TradesIn(b) <=> IsTrade(e) /\ \E i \in 1..Len(b) : b[i].event = e
        /\ e \in TradesIn(Tail(b))
             <=> IsTrade(e) /\ \E i \in 1..Len(Tail(b)) : Tail(b)[i].event = e
    BY TradesInIs
  <2>3. e \in JustTrade(Head(b).event) <=> IsTrade(e) /\ e = Head(b).event
    BY DEF JustTrade
  <2>4. QED
    BY <2>1, <2>2, <2>3
<1>2. QED
  BY <1>1

LEMMA IngestedTrades ==
  ASSUME NEW t \in Seq(TradeEvent), t # <<>>
  PROVE  TradesOf(t) = TradesOf(Tail(t)) \cup JustTrade(Head(t))
<1>1. ASSUME NEW e
      PROVE  e \in TradesOf(t) <=> e \in TradesOf(Tail(t)) \/ e \in JustTrade(Head(t))
  <2>1. (\E i \in 1..Len(t) : t[i] = e) <=> (e = Head(t) \/ \E i \in 1..Len(Tail(t)) : Tail(t)[i] = e)
    BY TailIs
  <2>2. QED
    BY <2>1, TradesOfIs DEF JustTrade
<1>2. QED
  BY <1>1

LEMMA AppendedTrades ==
  ASSUME NEW t \in Seq(TradeEvent), NEW f \in TradeEvent
  PROVE  TradesOf(Append(t, f)) = TradesOf(t) \cup JustTrade(f)
<1>1. ASSUME NEW e
      PROVE  e \in TradesOf(Append(t, f)) <=> e \in TradesOf(t) \/ e \in JustTrade(f)
  <2>1. (\E i \in 1..Len(Append(t, f)) : Append(t, f)[i] = e)
          <=> (e = f \/ \E i \in 1..Len(t) : t[i] = e)
    BY AppendIs
  <2>2. QED
    BY <2>1, TradesOfIs DEF JustTrade
<1>2. QED
  BY <1>1

LEMMA PutTrades ==
  ASSUME NEW s \in Seq(Entry), NEW b \in Entry, NEW t, NEW k, Put(s, b, t, k)
  PROVE  TradesIn(t) = TradesIn(s) \cup JustTrade(b.event)
<1>1. ASSUME NEW e
      PROVE  e \in TradesIn(t) <=> e \in TradesIn(s) \/ e \in JustTrade(b.event)
  <2>1. (\E i \in 1..Len(t) : t[i].event = e)
          <=> (e = b.event \/ \E i \in 1..Len(s) : s[i].event = e)
    <3>1. ASSUME NEW i \in 1..Len(t)
          PROVE  t[i] = b \/ \E j \in 1..Len(s) : t[i] = s[j]
      <4>1. i <= k \/ i = k + 1 \/ i > k + 1
        BY PutIs
      <4>2. CASE i <= k
        BY <4>2, PutIs
      <4>3. CASE i > k + 1
        <5>1. i - 1 \in 1..Len(s) /\ t[i] = s[i - 1]
          BY <4>3, PutIs
        <5>2. QED
          BY <5>1
      <4>4. QED
        BY <4>1, <4>2, <4>3, PutIs
    <3>2. k + 1 \in 1..Len(t) /\ t[k + 1] = b /\ \A i \in 1..Len(s) : \E j \in 1..Len(t) : t[j] = s[i]
      BY PutIs
    <3>3. QED
      BY <3>1, <3>2
  <2>2. QED
    BY <2>1, TradesInIs DEF JustTrade
<1>2. QED
  BY <1>1

(* Trades that wait in different places tell of different changes, and     *)
(* none of a change that is still to come.                                 *)
DistinctIn(b) ==
  \A i, j \in 1..Len(b) :
    i # j /\ IsTrade(b[i].event) /\ IsTrade(b[j].event) => b[i].event.change # b[j].event.change

DistinctOf(t) ==
  \A i, j \in 1..Len(t) : i # j /\ IsTrade(t[i]) /\ IsTrade(t[j]) => t[i].change # t[j].change

Once(b, t, sc) ==
  /\ DistinctIn(b) /\ DistinctOf(t)
  /\ \A e \in TradesIn(b), f \in TradesOf(t) : e.change # f.change
  /\ \A e \in Flight(b, t) : e.change <= changes
  /\ sc.trade <= changes

LEMMA DistinctTail ==
  ASSUME NEW b \in Seq(Entry), b # <<>>, DistinctIn(b)
  PROVE  /\ DistinctIn(Tail(b))
         /\ IsTrade(Head(b).event) => \A f \in TradesIn(Tail(b)) : f.change # Head(b).event.change
<1>1. /\ Head(b) = b[1] /\ 1 \in 1..Len(b) /\ Len(b) \in Nat /\ Len(Tail(b)) \in Nat
      /\ \A i \in 1..Len(Tail(b)) : i + 1 \in 1..Len(b) /\ Tail(b)[i] = b[i + 1]
  BY TailIs
<1>2. ASSUME NEW i \in 1..Len(Tail(b)), NEW j \in 1..Len(Tail(b)), i # j,
             IsTrade(Tail(b)[i].event), IsTrade(Tail(b)[j].event)
      PROVE  Tail(b)[i].event.change # Tail(b)[j].event.change
  <2>1. i + 1 # j + 1
    BY <1>2
  <2>2. QED
    BY <1>1, <1>2, <2>1 DEF DistinctIn
<1>3. ASSUME IsTrade(Head(b).event), NEW f \in TradesIn(Tail(b))
      PROVE  f.change # Head(b).event.change
  <2>1. PICK i \in 1..Len(Tail(b)) : Tail(b)[i].event = f /\ IsTrade(f)
    BY <1>3, TradesInIs
  <2>2. i + 1 # 1 /\ b[i + 1].event = f /\ i + 1 \in 1..Len(b)
    BY <1>1, <2>1
  <2>3. QED
    BY <1>1, <1>3, <2>1, <2>2 DEF DistinctIn
<1>4. QED
  BY <1>2, <1>3 DEF DistinctIn

LEMMA DistinctHead ==
  ASSUME NEW t \in Seq(TradeEvent), t # <<>>, DistinctOf(t)
  PROVE  /\ DistinctOf(Tail(t))
         /\ IsTrade(Head(t)) => \A f \in TradesOf(Tail(t)) : f.change # Head(t).change
<1>1. /\ Head(t) = t[1] /\ 1 \in 1..Len(t) /\ Len(t) \in Nat /\ Len(Tail(t)) \in Nat
      /\ \A i \in 1..Len(Tail(t)) : i + 1 \in 1..Len(t) /\ Tail(t)[i] = t[i + 1]
  BY TailIs
<1>2. ASSUME NEW i \in 1..Len(Tail(t)), NEW j \in 1..Len(Tail(t)), i # j,
             IsTrade(Tail(t)[i]), IsTrade(Tail(t)[j])
      PROVE  Tail(t)[i].change # Tail(t)[j].change
  <2>1. i + 1 # j + 1
    BY <1>2
  <2>2. QED
    BY <1>1, <1>2, <2>1 DEF DistinctOf
<1>3. ASSUME IsTrade(Head(t)), NEW f \in TradesOf(Tail(t))
      PROVE  f.change # Head(t).change
  <2>1. PICK i \in 1..Len(Tail(t)) : Tail(t)[i] = f /\ IsTrade(f)
    BY <1>3, TradesOfIs
  <2>2. i + 1 # 1 /\ t[i + 1] = f /\ i + 1 \in 1..Len(t)
    BY <1>1, <2>1
  <2>3. QED
    BY <1>1, <1>3, <2>1, <2>2 DEF DistinctOf
<1>4. QED
  BY <1>2, <1>3 DEF DistinctOf

LEMMA DistinctPut ==
  ASSUME NEW s \in Seq(Entry), NEW b \in Entry, NEW t, NEW k, Put(s, b, t, k), DistinctIn(s),
         IsTrade(b.event) => \A f \in TradesIn(s) : f.change # b.event.change
  PROVE  DistinctIn(t)
<1> DEFINE Old(i) == IF i <= k THEN i ELSE i - 1
<1>1. Len(s) \in Nat /\ k \in Nat /\ Len(t) \in Nat /\ t[k + 1] = b
  BY PutIs DEF Put
<1>2. ASSUME NEW i \in 1..Len(t), i # k + 1
      PROVE  Old(i) \in 1..Len(s) /\ t[i] = s[Old(i)]
  <2>1. CASE i <= k
    BY <2>1, PutIs
  <2>2. CASE i > k + 1
    <3>1. ~(i <= k)
      BY <1>1, <2>2
    <3>2. QED
      BY <2>2, <3>1, PutIs
  <2>3. QED
    BY <1>2, <2>1, <2>2, PutIs
<1>3. ASSUME NEW i \in 1..Len(t), NEW j \in 1..Len(t), i # j, i # k + 1, j # k + 1
      PROVE  Old(i) # Old(j)
  BY <1>1, <1>3
<1> HIDE DEF Old
<1>4. ASSUME NEW i \in 1..Len(t), i # k + 1, IsTrade(t[i].event)
      PROVE  t[i].event \in TradesIn(s)
  BY <1>2, <1>4, TradesInIs
<1>5. ASSUME NEW i \in 1..Len(t), NEW j \in 1..Len(t), i # j,
             IsTrade(t[i].event), IsTrade(t[j].event)
      PROVE  t[i].event.change # t[j].event.change
  <2>1. CASE i # k + 1 /\ j # k + 1
    BY <1>2, <1>3, <1>5, <2>1 DEF DistinctIn
  <2>2. CASE i = k + 1 /\ j # k + 1
    BY <1>1, <1>4, <1>5, <2>2
  <2>3. CASE i # k + 1 /\ j = k + 1
    BY <1>1, <1>4, <1>5, <2>3
  <2>4. QED
    BY <1>5, <2>1, <2>2, <2>3
<1>6. QED
  BY <1>5 DEF DistinctIn

(* The trade at the head of the buffer is processed.                       *)
LEMMA OncePop ==
  ASSUME TypeInv, NEW t \in Seq(TradeEvent), Once(buffer, t, seenChange), NEW x, Pop(x)
  PROVE  /\ Once(Tail(buffer), t, seenChange')
         /\ Flight(buffer, t) = Flight(Tail(buffer), t) \cup JustTrade(Head(buffer).event)
         /\ IsTrade(Head(buffer).event) =>
              \A f \in Flight(Tail(buffer), t) : f.change # Head(buffer).event.change
<1> DEFINE e0 == Head(buffer).event
           b == Tail(buffer)
<1>1. buffer \in Seq(Entry) /\ buffer # <<>> /\ e0 \in Buffered /\ changes \in Nat
      /\ seenChange.trade \in Nat
  BY HeadIs DEF Pop, TypeInv
<1>2. TradesIn(buffer) = TradesIn(b) \cup JustTrade(e0)
  BY <1>1, PoppedTrades
<1>3. /\ DistinctIn(b)
      /\ IsTrade(e0) => \A f \in TradesIn(b) : f.change # e0.change
  BY <1>1, DistinctTail DEF Once
<1>4. IsTrade(e0) => e0 \in TradesIn(buffer) /\ e0 \in Flight(buffer, t)
  BY <1>2 DEF JustTrade, Flight
<1>5. Flight(buffer, t) = Flight(b, t) \cup JustTrade(e0)
  BY <1>2 DEF Flight
<1>6. seenChange'.trade <= changes
  <2>1. seenChange.trade <= changes
    BY DEF Once
  <2>2. CASE IsTrade(e0)
    <3>1. e0.change \in Nat /\ e0.change <= changes
      BY <1>1, <1>4, <2>2, FlightIs DEF Once
    <3>2. seenChange'.trade = Max2(seenChange.trade, e0.change)
      BY <1>1, <2>2, NotedIs DEF Pop, NoteProcessed
    <3>3. QED
      BY <1>1, <2>1, <3>1, <3>2 DEF Max2
  <2>3. CASE ~IsTrade(e0)
    <3>1. seenChange'.trade = seenChange.trade
      BY <1>1, <2>3, NotedIs DEF Pop, NoteProcessed
    <3>2. QED
      BY <2>1, <3>1
  <2>4. QED
    BY <2>2, <2>3
<1> HIDE DEF e0, b
<1>7. Once(b, t, seenChange')
  <2>1. \A e \in TradesIn(b), f \in TradesOf(t) : e.change # f.change
    BY <1>2 DEF Once
  <2>2. \A e \in Flight(b, t) : e.change <= changes
    BY <1>5 DEF Once
  <2>3. QED
    BY <1>3, <1>6, <2>1, <2>2 DEF Once
<1>8. ASSUME IsTrade(e0), NEW f \in Flight(b, t)
      PROVE  f.change # e0.change
  <2>1. CASE f \in TradesIn(b)
    BY <1>3, <1>8, <2>1
  <2>2. CASE f \in TradesOf(t)
    BY <1>4, <1>8, <2>2 DEF Once
  <2>3. QED
    BY <1>8, <2>1, <2>2 DEF Flight
<1>9. QED
  BY <1>5, <1>7, <1>8 DEF b, e0

(* A trade passes from the queue into the buffer, or is left out.          *)
LEMMA OnceIngest ==
  ASSUME NEW b \in Seq(Entry), NEW t \in Seq(TradeEvent), t # <<>>, NEW sc, Once(b, t, sc)
  PROVE  /\ Once(b, Tail(t), sc) /\ Once(<<>>, Tail(t), sc)
         /\ Flight(b, Tail(t)) \subseteq Flight(b, t) /\ Flight(<<>>, Tail(t)) \subseteq Flight(b, t)
         /\ \A c \in Entry : \A s, k : c.event = Head(t) /\ Put(b, c, s, k) =>
              Once(s, Tail(t), sc) /\ Flight(s, Tail(t)) \subseteq Flight(b, t)
<1> DEFINE e0 == Head(t)
           r == Tail(t)
<1>1. TradesOf(t) = TradesOf(r) \cup JustTrade(e0)
  BY IngestedTrades
<1>2. /\ DistinctOf(r)
      /\ IsTrade(e0) => \A f \in TradesOf(r) : f.change # e0.change
  BY DistinctHead DEF Once
<1>3. TradesIn(<<>>) = {} /\ DistinctIn(<<>>)
  <2>1. Len(<<>>) = 0 /\ 1..0 = {}
    BY NoneWait
  <2>2. QED
    BY <2>1 DEF TradesIn, DistinctIn
<1> HIDE DEF e0, r
<1>4. Flight(b, r) \subseteq Flight(b, t) /\ Flight(<<>>, r) \subseteq Flight(b, t)
  BY <1>1, <1>3 DEF Flight
<1>5. Once(b, r, sc)
  BY <1>1, <1>2, <1>4 DEF Once
<1>6. Once(<<>>, r, sc)
  BY <1>1, <1>2, <1>3, <1>4 DEF Once
<1>7. ASSUME NEW c \in Entry, NEW s, NEW k, c.event = e0, Put(b, c, s, k)
      PROVE  Once(s, r, sc) /\ Flight(s, r) \subseteq Flight(b, t)
  <2>1. TradesIn(s) = TradesIn(b) \cup JustTrade(e0)
    BY <1>7, PutTrades
  <2>2. IsTrade(e0) => \A f \in TradesIn(b) : f.change # e0.change
    BY <1>1 DEF Once, JustTrade
  <2>3. DistinctIn(s)
    BY <1>7, <2>2, DistinctPut DEF Once
  <2>4. Flight(s, r) \subseteq Flight(b, t)
    BY <1>1, <2>1 DEF Flight
  <2>5. \A e \in TradesIn(s), f \in TradesOf(r) : e.change # f.change
    BY <1>1, <1>2, <2>1 DEF Once, JustTrade
  <2>6. QED
    BY <1>2, <2>3, <2>4, <2>5 DEF Once
<1>8. QED
  BY <1>4, <1>5, <1>6, <1>7 DEF r, e0

-----------------------------------------------------------------------------
(* What trades take is taken from the books *)

(* What was ever removed from a price, up to an amount that never changes. *)
Removed(book, add, p) == add[p] - book[p]

(* Between two books, and between a book and the market, nothing that was  *)
(* added is lost, and each trade on its way has removed a unit.            *)
Consumed(A, F) ==
  /\ \A e, f \in A, p \in Prices : Before(e, f) =>
       /\ e.added[p] <= f.added[p]
       /\ Count(F, p, e.change, f.change)
            <= Removed(f.book, f.added, p) - Removed(e.book, e.added, p)
  /\ \A e \in A, p \in Prices :
       /\ e.added[p] <= added[p]
       /\ Count(F, p, e.change, changes)
            <= Removed(market, added, p) - Removed(e.book, e.added, p)

Later(A, sc) ==
  /\ \A e \in A, p \in Prices : sc.added[p] <= e.added[p]
  /\ \A p \in Prices : sc.added[p] <= added[p]

(* What trades took from a level, and what those on their way took since   *)
(* the book processed last, is missing in the books to come.               *)
PendingAt(d, A, F, sb, sc, p) ==
  /\ \A e \in A : sc.trade <= e.change =>
       d.levels[p].pending + Count(F, p, sc.book, e.change)
         <= Removed(e.book, e.added, p) - Removed(sb, sc.added, p)
  /\ d.levels[p].pending + Count(F, p, sc.book, changes)
       <= Removed(market, added, p) - Removed(sb, sc.added, p)

RealAt(d, sc, p) == d.episodes[p].replenished <= sc.added[p] - d.episodes[p].base

Reality(d, A, F, sb, sc, m) ==
  /\ Consumed(A, F) /\ Later(A, sc)
  /\ sc.disordered \/ m \/
       /\ \A p \in Prices : d.levels[p] # NoLevel => PendingAt(d, A, F, sb, sc, p)
       /\ \A p \in Open(d) : RealAt(d, sc, p)

(* The books, and what was processed, are of quantities.                   *)
Numeric(A, sb, sc) ==
  /\ A \subseteq Books /\ changes \in Nat
  /\ \A p \in Prices : sb[p] \in Nat /\ sc.added[p] \in Nat /\ market[p] \in Nat /\ added[p] \in Nat
  /\ sc.book \in Nat /\ sc.trade \in Nat

LEMMA BookNumbers ==
  ASSUME NEW e \in Books, NEW p \in Prices
  PROVE  e.change \in Nat /\ e.book[p] \in Nat /\ e.added[p] \in Nat
         /\ Removed(e.book, e.added, p) \in Int
BY DEF Books, Quantities, Totals, Removed

LEMMA RealLess ==
  ASSUME NEW d, NEW A, NEW F, NEW sb, NEW sc, NEW m, Numeric(A, sb, sc), DetectorOK(d),
         Reality(d, A, F, sb, sc, m), NEW C \in SUBSET A, NEW G \in SUBSET F
  PROVE  /\ Reality(d, C, G, sb, sc, m) /\ Reality(d, C, G, sb, sc, TRUE)
         /\ \A x, k : Bare(x) /\ Open(x) = {} => Reality(x, C, G, sb, sc, k)
<1>1. \A p \in Prices, x, y \in Int :
        /\ Count(G, p, x, y) <= Count(F, p, x, y)
        /\ Count(G, p, x, y) \in Nat /\ Count(F, p, x, y) \in Nat
  BY CountLess, CountIs
<1>2. /\ \A e \in A : e \in Books /\ e.change \in Int
      /\ changes \in Int /\ sc.book \in Int
      /\ \A p \in Prices : Removed(sb, sc.added, p) \in Int /\ Removed(market, added, p) \in Int
      /\ \A e \in A, p \in Prices : Removed(e.book, e.added, p) \in Int
  <2>1. \A e \in A : e \in Books /\ e.change \in Nat
    BY DEF Numeric, Books
  <2>2. \A e \in A, p \in Prices : Removed(e.book, e.added, p) \in Int
    BY <2>1, BookNumbers
  <2>3. \A p \in Prices : Removed(sb, sc.added, p) \in Int /\ Removed(market, added, p) \in Int
    BY DEF Numeric, Removed
  <2>4. QED
    BY <2>1, <2>2, <2>3 DEF Numeric
<1>3. Consumed(C, G)
  <2>1. ASSUME NEW e \in C, NEW f \in C, NEW p \in Prices, Before(e, f)
        PROVE  /\ e.added[p] <= f.added[p]
               /\ Count(G, p, e.change, f.change)
                    <= Removed(f.book, f.added, p) - Removed(e.book, e.added, p)
    <3>1. /\ e.added[p] <= f.added[p]
          /\ Count(F, p, e.change, f.change)
               <= Removed(f.book, f.added, p) - Removed(e.book, e.added, p)
      BY <2>1 DEF Reality, Consumed
    <3>2. QED
      BY <1>1, <1>2, <3>1
  <2>2. ASSUME NEW e \in C, NEW p \in Prices
        PROVE  /\ e.added[p] <= added[p]
               /\ Count(G, p, e.change, changes)
                    <= Removed(market, added, p) - Removed(e.book, e.added, p)
    <3>1. /\ e.added[p] <= added[p]
          /\ Count(F, p, e.change, changes)
               <= Removed(market, added, p) - Removed(e.book, e.added, p)
      BY DEF Reality, Consumed
    <3>2. QED
      BY <1>1, <1>2, <3>1
  <2>3. QED
    BY <2>1, <2>2 DEF Consumed
<1>4. Later(C, sc)
  BY DEF Reality, Later
<1>5. ASSUME NEW p \in Prices, d.levels[p] # NoLevel, PendingAt(d, A, F, sb, sc, p)
      PROVE  PendingAt(d, C, G, sb, sc, p)
  <2>1. d.levels[p].pending \in Nat
    BY <1>5, LevelIs DEF DetectorOK, Detectors
  <2>2. ASSUME NEW e \in C, sc.trade <= e.change
        PROVE  d.levels[p].pending + Count(G, p, sc.book, e.change)
                 <= Removed(e.book, e.added, p) - Removed(sb, sc.added, p)
    <3>1. d.levels[p].pending + Count(F, p, sc.book, e.change)
            <= Removed(e.book, e.added, p) - Removed(sb, sc.added, p)
      BY <1>5, <2>2 DEF PendingAt
    <3>2. QED
      BY <1>1, <1>2, <2>1, <3>1
  <2>3. d.levels[p].pending + Count(G, p, sc.book, changes)
          <= Removed(market, added, p) - Removed(sb, sc.added, p)
    <3>1. d.levels[p].pending + Count(F, p, sc.book, changes)
            <= Removed(market, added, p) - Removed(sb, sc.added, p)
      BY <1>5 DEF PendingAt
    <3>2. QED
      BY <1>1, <1>2, <2>1, <3>1
  <2>4. QED
    BY <2>2, <2>3 DEF PendingAt
<1>6. QED
  BY <1>3, <1>4, <1>5 DEF Reality, Bare

(* A trade is processed.                                                   *)
LEMMA RealTrade ==
  ASSUME TypeInv, NEW A, NEW F, NEW G, NEW m, Numeric(A, seenBook, seenChange),
         Reality(detector, A, F, seenBook, seenChange, m), NEW x, Pop(x),
         IsTrade(Head(buffer).event), F = G \cup {Head(buffer).event},
         \A f \in G : f.change # Head(buffer).event.change,
         Head(buffer).event.change <= changes
  PROVE  Reality(x, A, G, seenBook', seenChange', m)
<1> DEFINE e0 == Head(buffer).event
           n == e0.change
<1>1. /\ e0 \in Buffered /\ Effect(detector, e0, x) /\ ~IsBook(e0) /\ DetectorOK(x)
      /\ DetectorOK(detector) /\ e0 \in Trades
  BY HeadIs DEF Pop, TypeInv, IsTrade, IsBook, Buffered, Books, Told
<1>2. n \in Nat /\ e0.price \in Prices
  BY <1>1 DEF Trades
<1>3. /\ seenChange'.trade = Max2(seenChange.trade, n) /\ seenChange'.book = seenChange.book
      /\ seenChange'.added = seenChange.added
      /\ seenChange'.disordered <=> seenChange.disordered \/ n <= seenChange.book
      /\ seenBook' = seenBook
  BY <1>1, NotedIs DEF Pop, NoteProcessed, IsBook
<1>4. Consumed(A, G) /\ Later(A, seenChange)
  BY <1>1, RealLess DEF Reality
<1>5. Later(A, seenChange')
  BY <1>3, <1>4 DEF Later
<1>6. seenChange.trade \in Nat /\ seenChange.book \in Nat /\ changes \in Nat
      /\ seenChange'.trade >= seenChange.trade /\ seenChange'.trade >= n
      /\ seenChange'.trade \in Nat
  <2>1. seenChange.trade \in Nat /\ seenChange.book \in Nat /\ changes \in Nat
    BY DEF Numeric
  <2> HIDE DEF n
  <2>2. /\ Max2(seenChange.trade, n) \in Nat /\ Max2(seenChange.trade, n) >= seenChange.trade
        /\ Max2(seenChange.trade, n) >= n
    BY <1>2, <2>1, TimesAre
  <2>3. QED
    BY <1>3, <2>1, <2>2
<1>7. \A p \in Prices : Removed(seenBook, seenChange.added, p) \in Int
                        /\ Removed(market, added, p) \in Int
  BY DEF Numeric, Removed
<1>8. \A e \in A : e.change \in Nat /\ \A p \in Prices : Removed(e.book, e.added, p) \in Int
  <2>1. \A e \in A : e \in Books /\ e.change \in Nat
    BY DEF Numeric, Books
  <2>2. QED
    BY <2>1, BookNumbers
<1>12. F = G \cup {e0} /\ (\A f \in G : f.change # e0.change) /\ e0.change <= changes
  OBVIOUS
<1> HIDE DEF e0
<1>9. ASSUME NEW p \in Prices, x.levels[p] # NoLevel, ~(n <= seenChange.book),
             detector.levels[p] # NoLevel, PendingAt(detector, A, F, seenBook, seenChange, p)
      PROVE  PendingAt(x, A, G, seenBook', seenChange', p)
  <2>1. /\ detector.levels[p].pending \in Nat /\ x.levels[p].pending \in Nat
        /\ \/ x.levels[p].pending = detector.levels[p].pending
           \/ p = e0.price /\ x.levels[p].pending = detector.levels[p].pending + 1
    <3>1. LevelEffect(detector, e0, x, p)
      BY <1>1 DEF Effect
    <3>2. detector.levels[p] \in Level /\ x.levels[p] \in Level
      BY <1>1, <1>9 DEF DetectorOK, Detectors
    <3>3. QED
      BY <1>1, <1>9, <3>1, <3>2, LevelIs DEF LevelEffect
  <2>2. ASSUME NEW y \in Nat, n <= y
        PROVE  /\ x.levels[p].pending + Count(G, p, seenChange.book, y)
                    <= detector.levels[p].pending + Count(F, p, seenChange.book, y)
               /\ Count(G, p, seenChange.book, y) \in Nat /\ Count(F, p, seenChange.book, y) \in Nat
    <3>1. Count(G, p, seenChange.book, y) \in Nat /\ Count(F, p, seenChange.book, y) \in Nat
      BY <1>6, CountIs
    <3>2. e0.change \in (seenChange.book + 1)..y /\ seenChange.book \in Int /\ y \in Int
      BY <1>2, <1>6, <1>9, <2>2
    <3>3. Count(F, p, seenChange.book, y) =
            IF p = e0.price THEN Count(G, p, seenChange.book, y) + 1
            ELSE Count(G, p, seenChange.book, y)
      <4> HIDE DEF n
      <4>1. Plus(G, e0, F)
        BY <1>12 DEF Plus
      <4>2. QED
        BY <3>2, <4>1, CountMore
    <3>4. QED
      BY <2>1, <3>1, <3>3
  <2> HIDE DEF n
  <2>3. ASSUME NEW e \in A, seenChange'.trade <= e.change
        PROVE  x.levels[p].pending + Count(G, p, seenChange'.book, e.change)
                 <= Removed(e.book, e.added, p) - Removed(seenBook', seenChange'.added, p)
    <3>1. n <= e.change /\ seenChange.trade <= e.change /\ n \in Nat
      BY <1>2, <1>6, <1>8, <2>3
    <3>2. detector.levels[p].pending + Count(F, p, seenChange.book, e.change)
            <= Removed(e.book, e.added, p) - Removed(seenBook, seenChange.added, p)
      BY <1>9, <3>1 DEF PendingAt
    <3>3. /\ x.levels[p].pending + Count(G, p, seenChange.book, e.change)
               <= detector.levels[p].pending + Count(F, p, seenChange.book, e.change)
          /\ Count(G, p, seenChange.book, e.change) \in Nat
          /\ Count(F, p, seenChange.book, e.change) \in Nat
      BY <1>8, <2>2, <3>1
    <3>4. QED
      BY <1>3, <1>7, <1>8, <2>1, <3>2, <3>3
  <2>4. x.levels[p].pending + Count(G, p, seenChange'.book, changes)
          <= Removed(market, added, p) - Removed(seenBook', seenChange'.added, p)
    <3>1. n <= changes
      BY <1>12 DEF n
    <3>2. detector.levels[p].pending + Count(F, p, seenChange.book, changes)
            <= Removed(market, added, p) - Removed(seenBook, seenChange.added, p)
      BY <1>9 DEF PendingAt
    <3>3. /\ x.levels[p].pending + Count(G, p, seenChange.book, changes)
               <= detector.levels[p].pending + Count(F, p, seenChange.book, changes)
          /\ Count(G, p, seenChange.book, changes) \in Nat
          /\ Count(F, p, seenChange.book, changes) \in Nat
      BY <1>6, <2>2, <3>1
    <3>4. QED
      BY <1>3, <1>7, <2>1, <3>2, <3>3
  <2>5. QED
    BY <2>3, <2>4 DEF PendingAt
<1>10. ASSUME ~seenChange'.disordered, ~m
       PROVE  /\ \A p \in Prices : x.levels[p] # NoLevel => PendingAt(x, A, G, seenBook', seenChange', p)
              /\ \A p \in Open(x) : RealAt(x, seenChange', p)
  <2>1. ~seenChange.disordered /\ ~(n <= seenChange.book)
    BY <1>3, <1>10
  <2>2. /\ \A p \in Prices : detector.levels[p] # NoLevel =>
             PendingAt(detector, A, F, seenBook, seenChange, p)
        /\ \A p \in Open(detector) : RealAt(detector, seenChange, p)
    BY <1>10, <2>1 DEF Reality
  <2>3. ASSUME NEW p \in Prices, x.levels[p] # NoLevel
        PROVE  PendingAt(x, A, G, seenBook', seenChange', p)
    <3>1. LevelEffect(detector, e0, x, p)
      BY <1>1 DEF Effect
    <3>2. detector.levels[p] # NoLevel
      BY <1>1, <2>3, <3>1 DEF LevelEffect
    <3>3. QED
      BY <1>9, <2>1, <2>2, <2>3, <3>2
  <2>4. ASSUME NEW p \in Open(x)
        PROVE  RealAt(x, seenChange', p)
    <3>1. EpisodeEffect(detector, e0, x, p)
      BY <1>1 DEF Effect
    <3>2. CASE /\ p \in Open(detector) /\ x.episodes[p].base = detector.episodes[p].base
               /\ x.episodes[p].replenished = detector.episodes[p].replenished
      BY <1>3, <2>2, <3>2 DEF RealAt
    <3>3. CASE x.episodes[p].replenished = 0 /\ x.episodes[p].base = seenChange.added[p]
      <4>1. p \in Prices
        BY DEF Open
      <4>2. seenChange.added[p] \in Nat
        BY <4>1 DEF Numeric
      <4>3. QED
        BY <1>3, <3>3, <4>2 DEF RealAt
    <3>4. QED
      BY <1>1, <3>1, <3>2, <3>3 DEF EpisodeEffect
  <2>5. QED
    BY <2>3, <2>4
<1>11. QED
  BY <1>4, <1>5, <1>10 DEF Reality

(* A depth event is processed.                                             *)
LEMMA RealBook ==
  ASSUME TypeInv, NEW q \in Seq(DepthEvent), OrderOK(detector, buffer, q, seenChange),
         NEW m \in BOOLEAN, LinkOK(detector, buffer, q, m),
         ValueOK(detector, buffer, q, seenBook, seenChange, m), NEW F,
         Numeric(Ahead(buffer, q), seenBook, seenChange),
         Reality(detector, Ahead(buffer, q), F, seenBook, seenChange, m),
         NEW x, Pop(x), IsBook(Head(buffer).event)
  PROVE  Reality(x, Ahead(Tail(buffer), q), F, seenBook', seenChange', m)
<1> DEFINE e0 == Head(buffer).event
           A == Ahead(buffer, q)
           C == Ahead(Tail(buffer), q)
<1>1. /\ buffer \in Seq(Entry) /\ buffer # <<>> /\ Effect(detector, e0, x)
      /\ e0 \in Buffered /\ DetectorOK(x) /\ DetectorOK(detector) /\ ~IsTrade(e0)
  BY HeadIs DEF Pop, TypeInv, IsBook, IsTrade
<1>2. Waiting(buffer) = Waiting(Tail(buffer)) \cup {e0}
  BY <1>1, PoppedBuffer DEF JustBook
<1>3. e0 \in A /\ C \subseteq A /\ e0 \in Books
  BY <1>2 DEF Ahead, Numeric
<1>4. \A e \in C : Before(e0, e)
  BY <1>1, PoppedFirst DEF OrderOK
<1>5. /\ Passed(detector, e0, seenChange) /\ Numeric(A, seenBook, seenChange)
      /\ Consumed(A, F) /\ Later(A, seenChange)
  BY <1>3 DEF OrderOK, Reality
<1>6. e0.change \in Nat /\ seenChange.book \in Nat /\ seenChange.trade \in Nat
      /\ changes \in Nat /\ seenChange.book <= e0.change
  BY <1>3, <1>5, BookNumbers DEF Passed, Numeric, Books
<1>7. /\ seenBook' = e0.book /\ seenChange'.added = e0.added
      /\ seenChange'.trade = seenChange.trade /\ seenChange'.book = e0.change
      /\ seenChange'.disordered <=> seenChange.disordered \/ e0.change < seenChange.trade
  <2>1. seenBook' = e0.book /\ seenChange' = Noted(e0)
    BY DEF Pop, NoteProcessed, IsBook
  <2>2. Max2(seenChange.book, e0.change) = e0.change
    BY <1>6 DEF Max2
  <2>3. QED
    BY <1>1, <2>1, <2>2, NotedIs
<1>8. \A p \in Prices : /\ Removed(seenBook, seenChange.added, p) \in Int
                        /\ Removed(market, added, p) \in Int
                        /\ Removed(e0.book, e0.added, p) \in Int
                        /\ e0.book[p] \in Nat /\ e0.added[p] \in Nat
                        /\ seenBook[p] \in Nat /\ seenChange.added[p] \in Nat
  <2>1. ASSUME NEW p \in Prices
        PROVE  /\ seenBook[p] \in Nat /\ seenChange.added[p] \in Nat
               /\ market[p] \in Nat /\ added[p] \in Nat
    BY <1>5 DEF Numeric
  <2>2. ASSUME NEW p \in Prices
        PROVE  /\ Removed(e0.book, e0.added, p) \in Int
               /\ e0.book[p] \in Nat /\ e0.added[p] \in Nat
    BY <1>3, BookNumbers
  <2>3. QED
    BY <2>1, <2>2 DEF Removed
<1>9. \A e \in C : e.change \in Nat /\ e \in A
                   /\ \A p \in Prices : Removed(e.book, e.added, p) \in Int
  <2>1. \A e \in C : e \in Books /\ e.change \in Nat /\ e \in A
    BY <1>3, <1>5 DEF Numeric, Books
  <2>2. QED
    BY <2>1, BookNumbers
<1>10. Consumed(C, F)
  BY <1>3, <1>5 DEF Consumed
<1>11. Later(C, seenChange')
  BY <1>3, <1>4, <1>5, <1>7 DEF Consumed, Later
<1>12. \A n \in detector.seen : n = e0.id => e0.boundary
  BY <1>5 DEF Passed
<1> HIDE DEF A, C, e0
<1>13. ASSUME NEW p \in Prices
       PROVE  /\ \A e \in C : Count(F, p, e0.change, e.change)
                   <= Removed(e.book, e.added, p) - Removed(e0.book, e0.added, p)
              /\ Count(F, p, e0.change, changes)
                   <= Removed(market, added, p) - Removed(e0.book, e0.added, p)
  BY <1>3, <1>4, <1>5, <1>9 DEF Consumed
<1>14. ASSUME NEW p \in Prices, NEW y \in Nat
       PROVE  /\ Count(F, p, e0.change, y) \in Nat /\ Count(F, p, seenChange.book, y) \in Nat
              /\ Count(F, p, e0.change, y) <= Count(F, p, seenChange.book, y)
  BY <1>6, CountIs, CountLess
<1>15. ASSUME ~m, IsBook(e0), e0.id \in detector.seen
       PROVE  Bare(detector)
  <2>1. 1 \in 1..Len(buffer) /\ buffer[1].event = e0
    BY <1>1, TailIs DEF e0
  <2>2. Linked(detector, buffer, 1)
    BY <1>15, <2>1 DEF LinkOK, BufferLinked
  <2>3. QED
    BY <1>12, <1>15, <2>1, <2>2 DEF Linked
<1>16. IsBook(e0)
  BY DEF e0
<1>17. ASSUME NEW p \in Prices, ~m, x.levels[p] # NoLevel, e0.change >= seenChange.trade,
              detector.levels[p] # NoLevel => PendingAt(detector, A, F, seenBook, seenChange, p)
       PROVE  PendingAt(x, C, F, seenBook', seenChange', p)
  <2>1. LevelEffect(detector, e0, x, p) /\ e0.id \notin detector.seen
    <3>1. LevelEffect(detector, e0, x, p)
      BY <1>1 DEF Effect
    <3>2. QED
      BY <1>15, <1>16, <1>17, <3>1 DEF LevelEffect, Bare
  <2>2. CASE p \in e0.prices /\ x.levels[p] = [visible |-> e0.book[p], pending |-> 0]
    <3>1. x.levels[p].pending = 0
      BY <2>2
    <3>2. \A e \in C : Count(F, p, e0.change, e.change) \in Nat
      BY <1>9, <1>14
    <3>3. Count(F, p, e0.change, changes) \in Nat
      BY <1>6, <1>14
    <3>4. QED
      BY <1>7, <1>13, <3>1, <3>2, <3>3 DEF PendingAt
  <2>3. CASE p \notin e0.prices /\ ~e0.boundary /\ x.levels[p] = detector.levels[p]
    <3>1. detector.levels[p] # NoLevel
      BY <1>17, <2>3
    <3>2. Same(p, e0.book, e0.added, seenBook, seenChange.added)
      BY <1>1, <1>16, <1>17, <2>1, <2>3, <3>1, UntoldLevel DEF e0
    <3>3. Removed(e0.book, e0.added, p) = Removed(seenBook, seenChange.added, p)
      BY <3>2 DEF Same, Removed
    <3>4. x.levels[p].pending \in Nat /\ x.levels[p].pending = detector.levels[p].pending
      <4>1. x.levels[p] \in Level
        BY <1>1, <1>17 DEF DetectorOK, Detectors
      <4>2. QED
        BY <2>3, <4>1, LevelIs
    <3>5. PendingAt(detector, A, F, seenBook, seenChange, p)
      BY <1>17, <3>1
    <3>6. ASSUME NEW e \in C, seenChange'.trade <= e.change
          PROVE  x.levels[p].pending + Count(F, p, seenChange'.book, e.change)
                   <= Removed(e.book, e.added, p) - Removed(seenBook', seenChange'.added, p)
      <4>1. detector.levels[p].pending + Count(F, p, seenChange.book, e.change)
              <= Removed(e.book, e.added, p) - Removed(seenBook, seenChange.added, p)
        BY <1>7, <1>9, <3>5, <3>6 DEF PendingAt
      <4>2. /\ Count(F, p, e0.change, e.change) \in Nat
            /\ Count(F, p, seenChange.book, e.change) \in Nat
            /\ Count(F, p, e0.change, e.change) <= Count(F, p, seenChange.book, e.change)
        BY <1>9, <1>14
      <4>3. QED
        BY <1>7, <1>8, <1>9, <3>3, <3>4, <4>1, <4>2
    <3>7. x.levels[p].pending + Count(F, p, seenChange'.book, changes)
            <= Removed(market, added, p) - Removed(seenBook', seenChange'.added, p)
      <4>1. detector.levels[p].pending + Count(F, p, seenChange.book, changes)
              <= Removed(market, added, p) - Removed(seenBook, seenChange.added, p)
        BY <3>5 DEF PendingAt
      <4>2. /\ Count(F, p, e0.change, changes) \in Nat
            /\ Count(F, p, seenChange.book, changes) \in Nat
            /\ Count(F, p, e0.change, changes) <= Count(F, p, seenChange.book, changes)
        BY <1>6, <1>14
      <4>3. QED
        BY <1>7, <1>8, <3>3, <3>4, <4>1, <4>2
    <3>8. QED
      BY <3>6, <3>7 DEF PendingAt
  <2>4. QED
    BY <1>16, <1>17, <2>1, <2>2, <2>3 DEF LevelEffect
<1>18. ASSUME NEW p \in Open(x), ~m, e0.change >= seenChange.trade,
              p \in Open(detector) => RealAt(detector, seenChange, p),
              detector.levels[p] # NoLevel => PendingAt(detector, A, F, seenBook, seenChange, p)
       PROVE  RealAt(x, seenChange', p)
  <2>1. EpisodeEffect(detector, e0, x, p) /\ p \in Prices
    BY <1>1 DEF Effect, Open
  <2>2. p \in Open(detector) /\ x.episodes[p].base = detector.episodes[p].base
    BY <1>1, <2>1 DEF EpisodeEffect
  <2>3. detector.episodes[p].replenished \in Nat /\ detector.episodes[p].base \in Nat
    <3>1. detector.episodes[p] \in Episode
      BY <1>1, <2>2 DEF DetectorOK, Detectors, Open
    <3>2. QED
      BY <3>1 DEF Episode
  <2>4. seenChange.added[p] <= e0.added[p]
    BY <1>3, <1>5, <2>1 DEF Later
  <2>5. detector.episodes[p].replenished <= seenChange.added[p] - detector.episodes[p].base
    BY <1>18, <2>2 DEF RealAt
  <2>6. CASE x.episodes[p].replenished = detector.episodes[p].replenished
    <3>1. x.episodes[p].replenished <= e0.added[p] - x.episodes[p].base
      BY <1>8, <2>1, <2>2, <2>3, <2>4, <2>5, <2>6
    <3>2. QED
      BY <1>7, <3>1 DEF RealAt
  <2>7. CASE /\ detector.levels[p] # NoLevel
             /\ x.episodes[p].replenished =
                  detector.episodes[p].replenished + Replenished(detector.levels[p], e0.book[p])
    <3>1. detector.levels[p].visible = seenBook[p]
      BY <1>18, <2>1, <2>7 DEF ValueOK, LevelValue
    <3>2. detector.levels[p].pending \in Nat
      BY <1>1, <2>1, <2>7, LevelIs DEF DetectorOK, Detectors
    <3>3. detector.levels[p].pending
            <= Removed(e0.book, e0.added, p) - Removed(seenBook, seenChange.added, p)
      <4>1. detector.levels[p].pending + Count(F, p, seenChange.book, e0.change)
              <= Removed(e0.book, e0.added, p) - Removed(seenBook, seenChange.added, p)
        BY <1>3, <1>18, <2>7 DEF PendingAt
      <4>2. Count(F, p, seenChange.book, e0.change) \in Nat
        BY <1>6, <1>14, <2>1
      <4>3. QED
        BY <1>8, <2>1, <3>2, <4>1, <4>2
    <3> DEFINE b0 == e0.book[p]  a0 == e0.added[p]
               b == seenBook[p]  a == seenChange.added[p]
               k == detector.levels[p].pending
               r == Replenished(detector.levels[p], b0)
               n == detector.episodes[p].replenished  base == detector.episodes[p].base
    <3>4. /\ b0 \in Nat /\ a0 \in Nat /\ b \in Nat /\ a \in Nat /\ k \in Nat
          /\ n \in Nat /\ base \in Nat /\ a <= a0 /\ n <= a - base
      BY <1>8, <2>1, <2>3, <2>4, <2>5, <3>2
    <3>5. k <= (a0 - b0) - (a - b)
      BY <3>3 DEF Removed
    <3>6. r = Max2(b0 - Max2(b - k, 0), 0)
      BY <3>1 DEF Replenished
    <3>7. x.episodes[p].replenished = n + r /\ x.episodes[p].base = base
      BY <2>2, <2>7
    <3> HIDE DEF b0, a0, b, a, k, n, r, base
    <3>8. r \in Nat /\ r <= a0 - a
      BY <3>4, <3>5, <3>6 DEF Max2
    <3>9. n + r <= a0 - base
      BY <3>4, <3>8
    <3>10. QED
      BY <1>7, <3>7, <3>9 DEF RealAt, a0
  <2>8. QED
    BY <1>1, <2>1, <2>6, <2>7 DEF EpisodeEffect
<1>19. ASSUME ~seenChange'.disordered, ~m
       PROVE  /\ \A p \in Prices : x.levels[p] # NoLevel => PendingAt(x, C, F, seenBook', seenChange', p)
              /\ \A p \in Open(x) : RealAt(x, seenChange', p)
  <2>1. ~seenChange.disordered /\ e0.change >= seenChange.trade
    BY <1>6, <1>7, <1>19
  <2>2. /\ \A p \in Prices : detector.levels[p] # NoLevel =>
             PendingAt(detector, A, F, seenBook, seenChange, p)
        /\ \A p \in Open(detector) : RealAt(detector, seenChange, p)
    BY <1>19, <2>1 DEF Reality, A
  <2>3. \A p \in Open(x) : p \in Prices
    BY DEF Open
  <2>4. QED
    BY <1>17, <1>18, <1>19, <2>1, <2>2, <2>3
<1>20. QED
  BY <1>10, <1>11, <1>19 DEF Reality, C

(* An event that is neither a trade nor a depth event is processed.        *)
LEMMA RealOther ==
  ASSUME TypeInv, NEW A, NEW F, NEW m, Reality(detector, A, F, seenBook, seenChange, m),
         NEW x, Pop(x), ~IsTrade(Head(buffer).event), ~IsBook(Head(buffer).event)
  PROVE  Reality(x, A, F, seenBook', seenChange', m)
<1> DEFINE e0 == Head(buffer).event
<1>1. /\ Effect(detector, e0, x) /\ e0 \in Buffered /\ ~IsTrade(e0) /\ ~IsBook(e0)
      /\ DetectorOK(detector) /\ DetectorOK(x)
  BY HeadIs DEF Pop, TypeInv
<1>2. seenBook' = seenBook /\ seenChange' = seenChange
  BY <1>1, NotedIs DEF Pop, NoteProcessed, IsBook
<1> HIDE DEF e0
<1>3. ASSUME NEW p \in Prices, x.levels[p] # NoLevel
      PROVE  detector.levels[p] # NoLevel /\ x.levels[p].pending = detector.levels[p].pending
  BY <1>1, <1>3 DEF Effect, LevelEffect
<1>4. ASSUME NEW p \in Open(x)
      PROVE  /\ p \in Open(detector) /\ x.episodes[p].base = detector.episodes[p].base
             /\ x.episodes[p].replenished = detector.episodes[p].replenished
  <2>1. EpisodeEffect(detector, e0, x, p)
    BY <1>1 DEF Effect
  <2>2. QED
    BY <1>1, <2>1 DEF EpisodeEffect
<1>5. ASSUME NEW p \in Prices, x.levels[p] # NoLevel,
             PendingAt(detector, A, F, seenBook, seenChange, p)
      PROVE  PendingAt(x, A, F, seenBook, seenChange, p)
  BY <1>3, <1>5 DEF PendingAt
<1>6. ASSUME NEW p \in Open(x), RealAt(detector, seenChange, p)
      PROVE  RealAt(x, seenChange, p)
  BY <1>4, <1>6 DEF RealAt
<1>7. QED
  BY <1>2, <1>3, <1>4, <1>5, <1>6 DEF Reality

(* What holds of the refills, of the detector and of the two streams.      *)
Real(d, b, q, t, sb, sc, m) ==
  Once(b, t, sc) /\ Reality(d, Ahead(b, q), Flight(b, t), sb, sc, m)

RefillInv == Real(detector, buffer, depthQueue, tradeQueue, seenBook, seenChange, missed)

LEMMA NumericIs ==
  ASSUME TypeInv, NEW b \in Seq(Entry), NEW q \in Seq(DepthEvent)
  PROVE  /\ Numeric(Ahead(b, q), seenBook, seenChange)
         /\ buffer # <<>> /\ NoteProcessed(Head(buffer).event)
              => Numeric(Ahead(b, q), seenBook', seenChange')
<1>1. Ahead(b, q) \subseteq Books
  BY BooksAre DEF Ahead
<1>2. changes \in Nat /\ \A p \in Prices : market[p] \in Nat /\ added[p] \in Nat
  BY DEF TypeInv, Quantities, Totals
<1>3. ASSUME NEW sb \in Totals, NEW sc \in [trade: Nat, book: Nat, added: Totals, disordered: BOOLEAN]
      PROVE  Numeric(Ahead(b, q), sb, sc)
  BY <1>1, <1>2 DEF Numeric, Totals
<1>4. seenBook \in Totals /\ seenChange \in [trade: Nat, book: Nat, added: Totals, disordered: BOOLEAN]
  BY DEF TypeInv
<1>5. buffer # <<>> /\ NoteProcessed(Head(buffer).event) =>
        /\ seenBook' \in Totals
        /\ seenChange' \in [trade: Nat, book: Nat, added: Totals, disordered: BOOLEAN]
  BY NoteTypes
<1>6. QED
  BY <1>3, <1>4, <1>5

LEMMA RefillPrimed ==
  ASSUME UNCHANGED <<market, added, changes>>,
         Real(detector', buffer', depthQueue', tradeQueue', seenBook', seenChange', missed')
  PROVE  RefillInv'
<1>1. Once(buffer, tradeQueue, seenChange)'
  BY DEF Real, Once
<1>2. Reality(detector, Ahead(buffer, depthQueue), Flight(buffer, tradeQueue), seenBook, seenChange,
              missed)'
  BY DEF Real, Reality, Consumed, Later, PendingAt
<1>3. QED
  BY <1>1, <1>2 DEF RefillInv, Real

LEMMA RefillPop ==
  ASSUME TypeInv, NEW m \in BOOLEAN, Sync(detector, buffer, depthQueue, seenBook, seenChange, m),
         NEW t \in Seq(TradeEvent),
         Real(detector, buffer, depthQueue, t, seenBook, seenChange, m), NEW x, Pop(x)
  PROVE  Real(x, Tail(buffer), depthQueue, t, seenBook', seenChange', m)
<1> DEFINE e0 == Head(buffer).event
           A == Ahead(buffer, depthQueue)
           C == Ahead(Tail(buffer), depthQueue)
           F == Flight(buffer, t)
           G == Flight(Tail(buffer), t)
<1>1. /\ buffer \in Seq(Entry) /\ buffer # <<>> /\ depthQueue \in Seq(DepthEvent)
      /\ Tail(buffer) \in Seq(Entry) /\ DetectorOK(detector) /\ DetectorOK(x)
      /\ NoteProcessed(e0)
  BY HeadIs DEF Pop, TypeInv
<1>2. /\ Numeric(A, seenBook, seenChange) /\ Numeric(A, seenBook', seenChange')
  BY <1>1, NumericIs
<1>3. /\ Once(buffer, t, seenChange) /\ Reality(detector, A, F, seenBook, seenChange, m)
      /\ OrderOK(detector, buffer, depthQueue, seenChange) /\ LinkOK(detector, buffer, depthQueue, m)
      /\ ValueOK(detector, buffer, depthQueue, seenBook, seenChange, m)
  BY DEF Real, Sync
<1>4. /\ Once(Tail(buffer), t, seenChange') /\ F = G \cup JustTrade(e0)
      /\ IsTrade(e0) => \A f \in G : f.change # e0.change
  BY <1>3, OncePop
<1>5. C \subseteq A
  <2>1. Waiting(buffer) = Waiting(Tail(buffer)) \cup JustBook(e0)
    BY <1>1, PoppedBuffer
  <2>2. QED
    BY <2>1 DEF Ahead
<1>6. Reality(x, C, G, seenBook', seenChange', m)
  <2>1. CASE IsTrade(e0)
    <3>1. F = G \cup {e0} /\ e0 \in F
      BY <1>4, <2>1 DEF JustTrade
    <3>2. e0.change <= changes
      BY <1>3, <3>1 DEF Once
    <3>3. /\ TypeInv /\ Numeric(A, seenBook, seenChange) /\ Pop(x)
          /\ Reality(detector, A, F, seenBook, seenChange, m)
          /\ \A f \in G : f.change # e0.change
      BY <1>2, <1>3, <1>4, <2>1
    <3> HIDE DEF A, C, F, G
    <3>4. Reality(x, A, G, seenBook', seenChange', m)
      BY <2>1, <3>1, <3>2, <3>3, RealTrade
    <3>5. QED
      BY <1>1, <1>2, <1>5, <3>4, RealLess
  <2>2. CASE IsBook(e0)
    <3>1. JustTrade(e0) = {}
      BY <2>2 DEF JustTrade, IsTrade, IsBook
    <3>2. F = G
      BY <1>4, <3>1
    <3>3. Reality(x, C, F, seenBook', seenChange', m)
      BY <1>1, <1>2, <1>3, <2>2, RealBook
    <3>4. QED
      BY <3>2, <3>3
  <2>3. CASE ~IsTrade(e0) /\ ~IsBook(e0)
    <3>1. F = G
      BY <1>4, <2>3 DEF JustTrade
    <3> HIDE DEF A, C, F, G
    <3>2. Reality(x, A, F, seenBook', seenChange', m)
      BY <1>3, <2>3, RealOther
    <3>3. QED
      BY <1>1, <1>2, <1>5, <3>1, <3>2, RealLess
  <2>4. QED
    BY <2>1, <2>2, <2>3
<1>7. QED
  BY <1>4, <1>6 DEF Real

(* Fewer books and trades are on their way than were.                      *)
LEMMA RefillLess ==
  ASSUME NEW d, NEW b, NEW q, NEW t, NEW sb, NEW sc, NEW m, Real(d, b, q, t, sb, sc, m),
         DetectorOK(d), Numeric(Ahead(b, q), sb, sc),
         NEW c, NEW r, NEW u, Ahead(c, r) \subseteq Ahead(b, q), Flight(c, u) \subseteq Flight(b, t),
         Once(c, u, sc)
  PROVE  /\ Real(d, c, r, u, sb, sc, m) /\ Real(d, c, r, u, sb, sc, TRUE)
         /\ \A x, k : Bare(x) /\ Open(x) = {} => Real(x, c, r, u, sb, sc, k)
<1> DEFINE A == Ahead(b, q)
           C == Ahead(c, r)
           F == Flight(b, t)
           G == Flight(c, u)
<1>1. C \in SUBSET A /\ G \in SUBSET F /\ Reality(d, A, F, sb, sc, m) /\ Numeric(A, sb, sc)
  BY DEF Real
<1>2. /\ Reality(d, C, G, sb, sc, m) /\ Reality(d, C, G, sb, sc, TRUE)
      /\ \A x, k : Bare(x) /\ Open(x) = {} => Reality(x, C, G, sb, sc, k)
  <2> HIDE DEF A, C, F, G
  <2>1. QED
    BY <1>1, RealLess
<1>3. QED
  BY <1>2 DEF Real

LEMMA QueueShrinks ==
  ASSUME NEW b \in Seq(Entry), NEW q \in Seq(DepthEvent), q # <<>>, NEW t
  PROVE  /\ Ahead(b, Tail(q)) \subseteq Ahead(b, q) /\ Ahead(<<>>, q) \subseteq Ahead(b, q)
         /\ Ahead(<<>>, Tail(q)) \subseteq Ahead(b, q) /\ Flight(<<>>, t) \subseteq Flight(b, t)
<1>1. Coming(q) = Coming(Tail(q)) \cup JustBook(Head(q))
  BY PoppedQueue
<1>2. Waiting(<<>>) = {} /\ TradesIn(<<>>) = {}
  BY NoneWait DEF TradesIn
<1>3. QED
  BY <1>1, <1>2 DEF Ahead, Flight

(* A depth event is put in order.                                          *)
LEMMA RefillPut ==
  ASSUME NEW s \in Seq(Entry), InSort(s), NEW q \in Seq(DepthEvent), q # <<>>,
         Received(Head(q)) \in Entry, NEW t, NEW d, DetectorOK(d), NEW sb, NEW sc, NEW m,
         Numeric(Ahead(s, q), sb, sc), Real(d, s, q, t, sb, sc, m)
  PROVE  Real(d, Sorted(s, Received(Head(q))), Tail(q), t, sb, sc, m)
<1> DEFINE e == Head(q)
           c == Sorted(s, Received(e))
<1>1. PICK k : Put(s, Received(e), c, k)
  BY PutSort
<1>2. Received(e).event = e /\ e \in DepthEvent
  BY TailIs DEF Received
<1>3. ~IsTrade(e)
  BY <1>2 DEF IsTrade, DepthEvent, Books, Told, Breaks
<1>4. Waiting(c) = Waiting(s) \cup JustBook(e) /\ Coming(q) = Coming(Tail(q)) \cup JustBook(e)
  BY <1>1, <1>2, PutBuffer, PoppedQueue
<1>5. TradesIn(c) = TradesIn(s)
  BY <1>1, <1>2, <1>3, PutTrades DEF JustTrade
<1>6. DistinctIn(c)
  BY <1>1, <1>2, <1>3, DistinctPut DEF Real, Once
<1> HIDE DEF c, e
<1>7. Ahead(c, Tail(q)) \subseteq Ahead(s, q)
  BY <1>4 DEF Ahead
<1>8. Flight(c, t) \subseteq Flight(s, t) /\ Once(c, t, sc)
  BY <1>5, <1>6 DEF Flight, Real, Once
<1>9. Real(d, c, Tail(q), t, sb, sc, m)
  BY <1>7, <1>8, RefillLess
<1>10. QED
  BY <1>9 DEF c, e

(* A trade is put in order.                                                *)
LEMMA RefillPutTrade ==
  ASSUME NEW s \in Seq(Entry), InSort(s), NEW q \in Seq(DepthEvent),
         NEW t \in Seq(TradeEvent), t # <<>>, Head(t) \in Trades,
         Received(Head(t)) \in Entry, NEW d, DetectorOK(d), NEW sb, NEW sc, NEW m,
         Numeric(Ahead(s, q), sb, sc), Real(d, s, q, t, sb, sc, m)
  PROVE  Real(d, Sorted(s, Received(Head(t))), q, Tail(t), sb, sc, m)
<1> DEFINE e == Head(t)
           c == Sorted(s, Received(e))
<1>1. PICK k : Put(s, Received(e), c, k)
  BY PutSort
<1>2. Received(e).event = e
  BY DEF Received
<1>3. ~IsBook(e)
  BY DEF IsBook, Trades
<1>4. Waiting(c) = Waiting(s)
  BY <1>1, <1>2, <1>3, PutBuffer DEF JustBook
<1>5. Once(c, Tail(t), sc) /\ Flight(c, Tail(t)) \subseteq Flight(s, t)
  BY <1>1, <1>2, OnceIngest DEF Real
<1> HIDE DEF c, e
<1>6. Ahead(c, q) \subseteq Ahead(s, q)
  BY <1>4 DEF Ahead
<1>7. Real(d, c, q, Tail(t), sb, sc, m)
  BY <1>5, <1>6, RefillLess
<1>8. QED
  BY <1>7 DEF c, e

LEMMA FreshBare ==
  ASSUME NEW quality, NEW seen
  PROVE  Bare(Fresh(quality, seen)) /\ Open(Fresh(quality, seen)) = {}
BY DEF Fresh, Bare, Open, NoLevels, NoEpisodes

LEMMA OnceReset ==
  ASSUME NEW b, NEW t, NEW sc, Once(b, t, sc), Flight(<<>>, t) \subseteq Flight(b, t)
  PROVE  Once(<<>>, t, sc)
<1>1. TradesIn(<<>>) = {} /\ DistinctIn(<<>>)
  BY NoneWait DEF TradesIn, DistinctIn
<1>2. QED
  BY <1>1 DEF Once

LEMMA RefillIngestDepth ==
  ASSUME TypeInv, InSort(buffer), ResyncInv, SyncInv, RefillInv, IngestDepth
  PROVE  RefillInv'
<1> DEFINE q == depthQueue
           t == tradeQueue
           e == Head(q)
<1>1. /\ q \in Seq(DepthEvent) /\ q # <<>> /\ e \in DepthEvent /\ Ingest(e)
      /\ depthQueue' = Tail(q) /\ tradeQueue' = t /\ UNCHANGED <<market, added, changes>>
  BY TailIs DEF IngestDepth, TypeInv, Ingest, marketVars
<1>2. /\ buffer \in Seq(Entry) /\ missed \in BOOLEAN /\ t \in Seq(TradeEvent) /\ DetectorOK(detector)
      /\ Tail(q) \in Seq(DepthEvent)
  BY <1>1, TailIs DEF TypeInv
<1>3. OfDepth(e)
  BY <1>1, ResyncingIs
<1>4. /\ Real(detector, buffer, q, t, seenBook, seenChange, missed)
      /\ Once(buffer, t, seenChange)
  BY DEF RefillInv, Real
<1>5. Numeric(Ahead(buffer, q), seenBook, seenChange)
  BY <1>1, <1>2, NumericIs
<1>6. /\ Ahead(buffer, Tail(q)) \subseteq Ahead(buffer, q)
      /\ Ahead(<<>>, Tail(q)) \subseteq Ahead(buffer, q) /\ Flight(<<>>, t) \subseteq Flight(buffer, t)
      /\ Flight(buffer, t) \subseteq Flight(buffer, t)
  BY <1>1, <1>2, QueueShrinks
<1>7. Once(<<>>, t, seenChange)
  BY <1>4, <1>6, OnceReset
<1> HIDE DEF q, t, e
<1>8. Real(detector', buffer', Tail(q), t, seenBook', seenChange', missed')
  <2>1. CASE consumed'
    <3>1. Consume(e) /\ missed' = (missed /\ ~(e.type = "Break" /\ OfDepth(e)))
      BY <1>1, <2>1 DEF Ingest
    <3>2. ~IsBreak(e) => missed' = missed
      BY <1>2, <3>1 DEF IsBreak
    <3>3. e \in Buffered => Received(e) \in Entry
      BY ReceivedIs
    <3>4. CASE /\ e \in Buffered /\ ~IsBreak(e)
               /\ buffer' = Sorted(buffer, Received(e))
               /\ UNCHANGED <<detector, seenBook, seenChange>>
      <4>1. Real(detector, Sorted(buffer, Received(e)), Tail(q), t, seenBook, seenChange, missed)
        BY <1>1, <1>2, <1>4, <1>5, <3>3, <3>4, RefillPut DEF e
      <4>2. QED
        BY <3>2, <3>4, <4>1
    <3>5. CASE /\ e \in Buffered /\ ~IsBreak(e)
               /\ Pop(detector') /\ buffer' = Sorted(Tail(buffer), Received(e))
      <4>1. Real(detector', Tail(buffer), q, t, seenBook', seenChange', missed)
        BY <1>2, <1>4, <3>5, RefillPop DEF q, SyncInv
      <4>2. /\ buffer # <<>> /\ Tail(buffer) \in Seq(Entry) /\ InSort(Tail(buffer))
            /\ DetectorOK(detector')
        BY <1>2, <3>5, HeadIs, TailSort DEF Pop
      <4>3. Numeric(Ahead(Tail(buffer), q), seenBook', seenChange')
        BY <1>1, <3>5, <4>2, NumericIs DEF Pop
      <4>4. Real(detector', Sorted(Tail(buffer), Received(e)), Tail(q), t, seenBook', seenChange',
                 missed)
        BY <1>1, <3>3, <3>5, <4>1, <4>2, <4>3, RefillPut DEF e
      <4>5. QED
        BY <3>2, <3>5, <4>4
    <3>6. CASE /\ IsBreak(e) /\ detector' = Fresh(e.quality, detector.seen) /\ buffer' = <<>>
               /\ UNCHANGED <<seenBook, seenChange>>
      <4>1. Bare(detector') /\ Open(detector') = {}
        BY <3>6, FreshBare
      <4>2. Real(detector', <<>>, Tail(q), t, seenBook, seenChange, missed')
        BY <1>2, <1>4, <1>5, <1>6, <1>7, <4>1, RefillLess
      <4>3. QED
        BY <3>6, <4>2
    <3>7. QED
      BY <1>1, <3>1, <3>4, <3>5, <3>6, ConsumeIs
  <2>2. CASE ~consumed'
    <3>1. /\ UNCHANGED <<detector, buffer, latest, seenBook, seenChange>> /\ SyncRequirements
          /\ missed' = (missed \/ (OfDepth(e) /\ releasedAt' # 0))
      BY <1>1, <2>2 DEF Ingest, detectorVars
    <3>2. CASE missed'
      <4>1. Real(detector, buffer, Tail(q), t, seenBook, seenChange, TRUE)
        BY <1>2, <1>4, <1>5, <1>6, RefillLess
      <4>2. missed' = TRUE
        BY <1>2, <3>1, <3>2
      <4>3. QED
        BY <3>1, <4>1, <4>2
    <3>3. CASE ~missed'
      <4>1. releasedAt' = 0
        BY <1>3, <3>1, <3>3
      <4>2. Absent
        BY <2>2, <3>1, <4>1, StaysAbsent
      <4>3. Bare(detector') /\ Open(detector') = {}
        BY <3>1, <4>2, FreshBare DEF Absent
      <4>4. Real(detector', buffer, Tail(q), t, seenBook, seenChange, missed')
        BY <1>2, <1>4, <1>5, <1>6, <4>3, RefillLess
      <4>5. QED
        BY <3>1, <4>4
    <3>4. QED
      BY <3>2, <3>3
  <2>3. QED
    BY <2>1, <2>2
<1>9. QED
  BY <1>1, <1>8, RefillPrimed

LEMMA RefillIngestTrade ==
  ASSUME TypeInv, InSort(buffer), SyncInv, RefillInv, IngestTrade
  PROVE  RefillInv'
<1> DEFINE q == depthQueue
           t == tradeQueue
           e == Head(t)
<1>1. /\ t \in Seq(TradeEvent) /\ t # <<>> /\ e \in TradeEvent /\ Ingest(e)
      /\ depthQueue' = q /\ tradeQueue' = Tail(t) /\ UNCHANGED <<market, added, changes>>
  BY TailIs DEF IngestTrade, TypeInv, Ingest, marketVars
<1>2. /\ buffer \in Seq(Entry) /\ missed \in BOOLEAN /\ q \in Seq(DepthEvent) /\ DetectorOK(detector)
      /\ Tail(t) \in Seq(TradeEvent)
  BY <1>1, TailIs DEF TypeInv
<1>3. ~OfDepth(e)
  BY <1>1, ResyncingIs
<1>4. /\ Real(detector, buffer, q, t, seenBook, seenChange, missed)
      /\ Once(buffer, t, seenChange)
  BY DEF RefillInv, Real
<1>5. Numeric(Ahead(buffer, q), seenBook, seenChange)
  BY <1>1, <1>2, NumericIs
<1>6. /\ Once(buffer, Tail(t), seenChange) /\ Once(<<>>, Tail(t), seenChange)
      /\ Flight(buffer, Tail(t)) \subseteq Flight(buffer, t)
      /\ Flight(<<>>, Tail(t)) \subseteq Flight(buffer, t)
      /\ Ahead(<<>>, q) \subseteq Ahead(buffer, q) /\ Ahead(buffer, q) \subseteq Ahead(buffer, q)
  <2>1. Ahead(<<>>, q) \subseteq Ahead(buffer, q)
    BY NoneWait DEF Ahead
  <2>2. QED
    BY <1>1, <1>2, <1>4, <2>1, OnceIngest
<1>7. e \in Buffered /\ ~IsBreak(e) => e \in Trades /\ Received(e) \in Entry
  BY <1>1, ReceivedIs DEF TradeEvent, Breaks, IsBreak
<1> HIDE DEF q, t, e
<1>8. Real(detector', buffer', q, Tail(t), seenBook', seenChange', missed')
  <2>1. CASE consumed'
    <3>1. Consume(e) /\ missed' = (missed /\ ~(e.type = "Break" /\ OfDepth(e)))
      BY <1>1, <2>1 DEF Ingest
    <3>2. missed' = missed
      BY <1>2, <1>3, <3>1
    <3>3. CASE /\ e \in Buffered /\ ~IsBreak(e)
               /\ buffer' = Sorted(buffer, Received(e))
               /\ UNCHANGED <<detector, seenBook, seenChange>>
      <4>1. Real(detector, Sorted(buffer, Received(e)), q, Tail(t), seenBook, seenChange, missed)
        BY <1>1, <1>2, <1>4, <1>5, <1>7, <3>3, RefillPutTrade DEF e
      <4>2. QED
        BY <3>2, <3>3, <4>1
    <3>4. CASE /\ e \in Buffered /\ ~IsBreak(e)
               /\ Pop(detector') /\ buffer' = Sorted(Tail(buffer), Received(e))
      <4>1. Real(detector', Tail(buffer), q, t, seenBook', seenChange', missed)
        BY <1>1, <1>2, <1>4, <3>4, RefillPop DEF q, SyncInv
      <4>2. /\ buffer # <<>> /\ Tail(buffer) \in Seq(Entry) /\ InSort(Tail(buffer))
            /\ DetectorOK(detector')
        BY <1>2, <3>4, HeadIs, TailSort DEF Pop
      <4>3. Numeric(Ahead(Tail(buffer), q), seenBook', seenChange')
        BY <1>2, <3>4, <4>2, NumericIs DEF Pop
      <4>4. Real(detector', Sorted(Tail(buffer), Received(e)), q, Tail(t), seenBook', seenChange',
                 missed)
        BY <1>1, <1>2, <1>7, <3>4, <4>1, <4>2, <4>3, RefillPutTrade DEF e
      <4>5. QED
        BY <3>2, <3>4, <4>4
    <3>5. CASE /\ IsBreak(e) /\ detector' = Fresh(e.quality, detector.seen) /\ buffer' = <<>>
               /\ UNCHANGED <<seenBook, seenChange>>
      <4>1. Bare(detector') /\ Open(detector') = {}
        BY <3>5, FreshBare
      <4>2. Real(detector', <<>>, q, Tail(t), seenBook, seenChange, missed')
        BY <1>2, <1>4, <1>5, <1>6, <4>1, RefillLess
      <4>3. QED
        BY <3>5, <4>2
    <3>6. QED
      BY <1>1, <3>1, <3>3, <3>4, <3>5, ConsumeIs
  <2>2. CASE ~consumed'
    <3>1. /\ UNCHANGED <<detector, buffer, seenBook, seenChange>>
          /\ missed' = (missed \/ (OfDepth(e) /\ releasedAt' # 0))
      BY <1>1, <2>2 DEF Ingest, detectorVars
    <3>2. missed' = missed
      BY <1>2, <1>3, <3>1
    <3>3. Real(detector, buffer, q, Tail(t), seenBook, seenChange, missed)
      BY <1>2, <1>4, <1>5, <1>6, RefillLess
    <3>4. QED
      BY <3>1, <3>2, <3>3
  <2>3. QED
    BY <2>1, <2>2
<1>9. QED
  BY <1>1, <1>8, RefillPrimed

(* The market changes, and a trade may tell of it.                         *)
LEMMA RealChange ==
  ASSUME TypeInv, NEW p \in Prices, NEW qty \in Nat, Change(p, qty),
         NEW A, NEW F, NEW H, Numeric(A, seenBook, seenChange), NEW m,
         Reality(detector, A, F, seenBook, seenChange, m), DetectorOK(detector),
         \A e \in A : e.change <= changes, seenChange.book <= changes,
         \A f \in F : f.change \in Nat /\ f.change <= changes,
         \/ H = F
         \/ /\ qty = market[p] - 1
            /\ \E e : Plus(F, e, H) /\ e.price = p /\ e.change = changes + 1
  PROVE  Reality(detector, A, H, seenBook, seenChange, m)'
<1>1. /\ changes \in Nat /\ changes' = changes + 1
      /\ \A e \in A : e.change \in Nat
      /\ seenChange.book \in Nat /\ seenChange.trade \in Nat
  BY DEF Change, Numeric, Books
<1>2. UNCHANGED <<detector, seenBook, seenChange>>
  BY DEF Change, insideVars, detectorVars, historyVars
<1>3. ASSUME NEW r \in Prices
      PROVE  /\ market[r] \in Nat /\ added[r] \in Nat /\ added'[r] \in Nat /\ added[r] <= added'[r]
             /\ Removed(market, added, r) \in Int /\ Removed(market', added', r) \in Int
             /\ Removed(market, added, r) <= Removed(market', added', r)
             /\ r = p /\ qty = market[p] - 1 =>
                  Removed(market', added', r) = Removed(market, added, r) + 1
  <2>1. /\ market \in [Prices -> Nat] /\ added \in [Prices -> Nat]
        /\ market' = [market EXCEPT ![p] = qty]
        /\ added' = [added EXCEPT ![p] = @ + Max2(qty - market[p], 0)]
    BY DEF Change, TypeInv, Quantities, Totals
  <2>2. CASE r # p
    BY <2>1, <2>2 DEF Removed
  <2>3. CASE r = p
    <3> DEFINE k == market[p]  a == added[p]
    <3>1. k \in Nat /\ a \in Nat /\ market'[r] = qty /\ added'[r] = a + Max2(qty - k, 0)
          /\ market[r] = k /\ added[r] = a
      BY <2>1, <2>3
    <3> HIDE DEF k, a
    <3> DEFINE g == Max2(qty - k, 0)
    <3>2. g \in Nat /\ g >= qty - k /\ (qty = k - 1 => g = 0)
      BY <3>1 DEF Max2
    <3>3. added'[r] = a + g
      BY <3>1
    <3> HIDE DEF g
    <3>4. /\ a + g \in Nat /\ a <= a + g /\ a - k <= a + g - qty
          /\ qty = k - 1 => a + g - qty = (a - k) + 1
      BY <3>1, <3>2
    <3>5. Removed(market, added, r) = a - k /\ Removed(market', added', r) = a + g - qty
      BY <3>1, <3>2, <3>3 DEF Removed
    <3>6. market[p] = k
      BY DEF k
    <3>7. QED
      BY <3>1, <3>2, <3>3, <3>4, <3>5, <3>6
  <2>4. QED
    BY <2>2, <2>3
<1>4. ASSUME NEW r \in Prices, NEW x \in Nat, x <= changes, NEW y \in Nat, y <= changes
      PROVE  Count(H, r, x, y) = Count(F, r, x, y)
  <2>1. CASE H = F
    BY <2>1
  <2>2. ASSUME NEW e, Plus(F, e, H), e.change = changes + 1
        PROVE  Count(H, r, x, y) = Count(F, r, x, y)
    <3>1. e.change \notin (x + 1)..y
      BY <1>1, <1>4, <2>2
    <3>2. QED
      BY <2>2, <3>1, CountOther
  <2>3. QED
    BY <2>1, <2>2
<1>5. ASSUME NEW r \in Prices, NEW x \in Nat, x <= changes
      PROVE  /\ Count(H, r, x, changes') - Count(F, r, x, changes)
                  <= Removed(market', added', r) - Removed(market, added, r)
             /\ Count(H, r, x, changes') \in Nat /\ Count(F, r, x, changes) \in Nat
  <2>1. Count(F, r, x, changes') = Count(F, r, x, changes)
    BY <1>1, CountLater
  <2>2. Count(H, r, x, changes') \in Nat /\ Count(F, r, x, changes) \in Nat
    BY <1>1, CountIs
  <2>3. CASE H = F
    BY <1>3, <2>1, <2>2, <2>3
  <2>4. ASSUME NEW e, Plus(F, e, H), e.price = p, e.change = changes + 1, qty = market[p] - 1
        PROVE  Count(H, r, x, changes') - Count(F, r, x, changes)
                 <= Removed(market', added', r) - Removed(market, added, r)
    <3>1. e.change \in (x + 1)..changes' /\ x \in Int /\ changes' \in Int
      BY <1>1, <1>5, <2>4
    <3>2. Count(H, r, x, changes') = IF r = e.price THEN Count(F, r, x, changes') + 1
                                     ELSE Count(F, r, x, changes')
      BY <2>4, <3>1, CountMore
    <3>3. CASE r = p
      BY <1>3, <2>1, <2>2, <2>4, <3>2, <3>3
    <3>4. CASE r # p
      BY <1>3, <2>1, <2>2, <2>4, <3>2, <3>4
    <3>5. QED
      BY <3>3, <3>4
  <2>5. QED
    BY <2>2, <2>3, <2>4
<1>6. \A e \in A, r \in Prices : Removed(e.book, e.added, r) \in Int /\ e.added[r] \in Nat
  <2>1. \A e \in A : e \in Books
    BY DEF Numeric
  <2>2. QED
    BY <2>1, BookNumbers
<1>7. \A r \in Prices : Removed(seenBook, seenChange.added, r) \in Int /\ seenChange.added[r] \in Nat
  BY DEF Numeric, Removed
<1>8. Consumed(A, H)'
  <2>1. ASSUME NEW e \in A, NEW f \in A, NEW r \in Prices, Before(e, f)
        PROVE  /\ e.added[r] <= f.added[r]
               /\ Count(H, r, e.change, f.change)
                    <= Removed(f.book, f.added, r) - Removed(e.book, e.added, r)
    <3>1. Count(H, r, e.change, f.change) = Count(F, r, e.change, f.change)
      BY <1>1, <1>4
    <3>2. QED
      BY <2>1, <3>1 DEF Reality, Consumed
  <2>2. ASSUME NEW e \in A, NEW r \in Prices
        PROVE  /\ e.added[r] <= added'[r]
               /\ Count(H, r, e.change, changes')
                    <= Removed(market', added', r) - Removed(e.book, e.added, r)
    <3>1. /\ e.added[r] <= added[r]
          /\ Count(F, r, e.change, changes)
               <= Removed(market, added, r) - Removed(e.book, e.added, r)
      BY DEF Reality, Consumed
    <3>2. /\ Count(H, r, e.change, changes') - Count(F, r, e.change, changes)
               <= Removed(market', added', r) - Removed(market, added, r)
          /\ Count(H, r, e.change, changes') \in Nat /\ Count(F, r, e.change, changes) \in Nat
      BY <1>1, <1>5
    <3>3. e.added[r] <= added'[r]
      BY <1>3, <1>6, <3>1
    <3>4. QED
      BY <1>3, <1>6, <3>1, <3>2, <3>3
  <2>3. QED
    BY <2>1, <2>2 DEF Consumed, Before
<1>9. Later(A, seenChange)'
  <2>1. \A r \in Prices : seenChange.added[r] <= added'[r]
    <3>1. \A r \in Prices : seenChange.added[r] <= added[r]
      BY DEF Reality, Later
    <3>2. QED
      BY <1>3, <1>7, <3>1
  <2>2. QED
    BY <1>2, <2>1 DEF Reality, Later
<1>10. ASSUME NEW r \in Prices, detector.levels[r] # NoLevel,
              PendingAt(detector, A, F, seenBook, seenChange, r)
       PROVE  PendingAt(detector, A, H, seenBook, seenChange, r)'
  <2>1. detector.levels[r].pending \in Nat
    BY <1>10, LevelIs DEF DetectorOK, Detectors
  <2>2. ASSUME NEW e \in A, seenChange.trade <= e.change
        PROVE  detector.levels[r].pending + Count(H, r, seenChange.book, e.change)
                 <= Removed(e.book, e.added, r) - Removed(seenBook, seenChange.added, r)
    <3>1. Count(H, r, seenChange.book, e.change) = Count(F, r, seenChange.book, e.change)
      BY <1>1, <1>4
    <3>2. QED
      BY <1>10, <2>2, <3>1 DEF PendingAt
  <2>3. detector.levels[r].pending + Count(H, r, seenChange.book, changes')
          <= Removed(market', added', r) - Removed(seenBook, seenChange.added, r)
    <3>1. detector.levels[r].pending + Count(F, r, seenChange.book, changes)
            <= Removed(market, added, r) - Removed(seenBook, seenChange.added, r)
      BY <1>10 DEF PendingAt
    <3>2. /\ Count(H, r, seenChange.book, changes') - Count(F, r, seenChange.book, changes)
               <= Removed(market', added', r) - Removed(market, added, r)
          /\ Count(H, r, seenChange.book, changes') \in Nat
          /\ Count(F, r, seenChange.book, changes) \in Nat
      BY <1>1, <1>5
    <3>3. QED
      BY <1>3, <1>7, <2>1, <3>1, <3>2
  <2>4. QED
    BY <1>2, <2>2, <2>3 DEF PendingAt
<1>11. QED
  BY <1>2, <1>8, <1>9, <1>10 DEF Reality, RealAt, Open

LEMMA DistinctAppend ==
  ASSUME NEW t \in Seq(TradeEvent), NEW f \in TradeEvent, DistinctOf(t),
         IsTrade(f) => \A e \in TradesOf(t) : e.change # f.change
  PROVE  DistinctOf(Append(t, f))
<1>1. /\ Len(t) \in Nat /\ Len(Append(t, f)) = Len(t) + 1
      /\ Append(t, f)[Len(t) + 1] = f
      /\ \A i \in 1..Len(t) : Append(t, f)[i] = t[i]
  BY AppendIs
<1>2. ASSUME NEW i \in 1..Len(Append(t, f)), i # Len(t) + 1
      PROVE  i \in 1..Len(t)
  BY <1>1, <1>2
<1>3. ASSUME NEW i \in 1..Len(t), IsTrade(t[i]), IsTrade(f)
      PROVE  t[i].change # f.change
  BY <1>3, TradesOfIs
<1>4. ASSUME NEW i \in 1..Len(Append(t, f)), NEW j \in 1..Len(Append(t, f)), i # j,
             IsTrade(Append(t, f)[i]), IsTrade(Append(t, f)[j])
      PROVE  Append(t, f)[i].change # Append(t, f)[j].change
  <2>1. CASE i # Len(t) + 1 /\ j # Len(t) + 1
    BY <1>1, <1>2, <1>4, <2>1 DEF DistinctOf
  <2>2. CASE i = Len(t) + 1 /\ j # Len(t) + 1
    BY <1>1, <1>2, <1>3, <1>4, <2>2
  <2>3. CASE i # Len(t) + 1 /\ j = Len(t) + 1
    BY <1>1, <1>2, <1>3, <1>4, <2>3
  <2>4. QED
    BY <1>4, <2>1, <2>2, <2>3
<1>5. QED
  BY <1>4 DEF DistinctOf

(* The adapter tells of a book.                                            *)
LEMMA RealTold ==
  ASSUME TypeInv, NEW A, NEW F, Numeric(A, seenBook, seenChange), NEW m,
         Reality(detector, A, F, seenBook, seenChange, m), AheadValues(A),
         \A f \in A : Known(f), NEW e \in Books, e.book = market, e.added = added, e.change = changes,
         e.at = changedAt, e.id = updateId \/ e.id = updateId + 1, e.id = updateId => changed = {}
  PROVE  Reality(detector, A \cup {e}, F, seenBook, seenChange, m)
<1>1. /\ changes \in Nat /\ updateId \in Nat /\ changedAt \in Nat
      /\ \A f \in A : f \in Books /\ f.change \in Nat /\ f.id \in Nat
  BY TimesAre DEF TypeInv, Numeric, Books
<1>2. \A p \in Prices : added[p] \in Nat /\ Removed(market, added, p) \in Int
  BY DEF Numeric, Removed
<1>3. \A p \in Prices : Count(F, p, changes, changes) = 0
  BY <1>1, CountNone
<1>4. ASSUME NEW f \in A, NEW p \in Prices
      PROVE  /\ f.added[p] <= added[p]
             /\ Count(F, p, f.change, changes)
                  <= Removed(market, added, p) - Removed(f.book, f.added, p)
  BY DEF Reality, Consumed
<1>5. ASSUME NEW f \in A, Before(e, f), NEW p \in Prices
      PROVE  f.change = changes /\ added[p] = f.added[p]
             /\ Removed(market, added, p) = Removed(f.book, f.added, p)
  <2>1. f.change <= changes /\ f.id <= updateId /\ changes <= f.change /\ e.id <= f.id
    BY <1>5 DEF Known, Before
  <2>2. f.change = changes /\ f.id = updateId /\ e.id = updateId
    BY <1>1, <2>1
  <2>3. Same(p, f.book, f.added, market, added)
    BY <2>2 DEF AheadValues
  <2>4. QED
    BY <2>2, <2>3 DEF Same, Removed
<1>6. Consumed(A \cup {e}, F)
  <2>1. ASSUME NEW f \in A \cup {e}, NEW g \in A \cup {e}, NEW p \in Prices, Before(f, g)
        PROVE  /\ f.added[p] <= g.added[p]
               /\ Count(F, p, f.change, g.change)
                    <= Removed(g.book, g.added, p) - Removed(f.book, f.added, p)
    <3>1. CASE f \in A /\ g \in A
      BY <2>1, <3>1 DEF Reality, Consumed
    <3>2. CASE f \in A /\ g = e
      <4>1. g.book = market /\ g.added = added /\ g.change = changes
        BY <3>2
      <4>2. QED
        BY <1>4, <3>2, <4>1
    <3>3. CASE f = e /\ g \in A
      <4>1. /\ g.change = changes /\ added[p] = g.added[p]
            /\ Removed(market, added, p) = Removed(g.book, g.added, p)
        BY <1>5, <2>1, <3>3
      <4>2. f.book = market /\ f.added = added /\ f.change = changes
        BY <3>3
      <4>3. QED
        BY <1>2, <1>3, <4>1, <4>2
    <3>4. CASE f = e /\ g = e
      <4>1. /\ f.book = market /\ f.added = added /\ f.change = changes
            /\ g.book = market /\ g.added = added /\ g.change = changes
        BY <3>4
      <4>2. QED
        BY <1>2, <1>3, <4>1
    <3>5. QED
      BY <3>1, <3>2, <3>3, <3>4
  <2>2. ASSUME NEW f \in A \cup {e}, NEW p \in Prices
        PROVE  /\ f.added[p] <= added[p]
               /\ Count(F, p, f.change, changes)
                    <= Removed(market, added, p) - Removed(f.book, f.added, p)
    <3>1. CASE f = e
      <4>1. f.book = market /\ f.added = added /\ f.change = changes
        BY <3>1
      <4>2. QED
        BY <1>2, <1>3, <4>1
    <3>2. QED
      BY <1>4, <3>1
  <2>3. QED
    BY <2>1, <2>2 DEF Consumed
<1>7. Later(A \cup {e}, seenChange)
  BY DEF Reality, Later
<1>8. ASSUME NEW p \in Prices, PendingAt(detector, A, F, seenBook, seenChange, p)
      PROVE  PendingAt(detector, A \cup {e}, F, seenBook, seenChange, p)
  BY <1>8 DEF PendingAt
<1>9. QED
  BY <1>6, <1>7, <1>8 DEF Reality

(* What the adapter appends when it tells of a book.                       *)
LEMMA ToldBook ==
  ASSUME TypeInv, TypeInv', DepthBoundary \/ (DepthUpdate /\ feed = "live")
  PROVE  \E e \in Books :
           /\ e.book = market /\ e.added = added /\ e.change = changes /\ e.at = changedAt
           /\ e.id = updateId \/ e.id = updateId + 1
           /\ e.id = updateId => changed = {}
           /\ Ahead(buffer, depthQueue') \subseteq Ahead(buffer, depthQueue) \cup {e}
<1>1. /\ depthQueue \in Seq(DepthEvent) /\ updateId \in Nat /\ updateId' \in Nat
      /\ changed \in SUBSET Prices /\ now \in Times
  BY DEF TypeInv
<1>2. CASE DepthBoundary
  <2> DEFINE e == Book(TRUE, updateId', {p \in Prices : market[p] > 0})
             f == Quality("Healthy")
             r == Append(depthQueue, e)
  <2>1. {p \in Prices : market[p] > 0} \in SUBSET Prices /\ TRUE \in BOOLEAN
    OBVIOUS
  <2>2. /\ e \in Books /\ IsBook(e) /\ e.id = updateId'
        /\ e.book = market /\ e.added = added /\ e.at = changedAt /\ e.change = changes
    <3>1. e \in Books
      BY <1>1, <2>1, BookEventIs
    <3>2. QED
      BY <3>1 DEF Book, IsBook
  <2>3. e \in DepthEvent /\ f \in DepthEvent /\ ~IsBook(f)
    BY <1>1, <2>2 DEF Quality, DepthEvent, Told, IsBook
  <2>4. /\ updateId' = (IF changed = {} THEN updateId ELSE updateId + 1)
        /\ depthQueue' = depthQueue \o <<e, f>>
    BY <1>2 DEF DepthBoundary
  <2> HIDE DEF e, f
  <2>5. depthQueue' = Append(r, f) /\ r \in Seq(DepthEvent)
    BY <1>1, <2>3, <2>4, Concat2, AppendIs
  <2>6. Coming(r) = Coming(depthQueue) \cup JustBook(e)
    BY <1>1, <2>3, AppendedQueue
  <2>7. Coming(depthQueue') = Coming(r) \cup JustBook(f)
    BY <2>3, <2>5, AppendedQueue
  <2>8. Ahead(buffer, depthQueue') \subseteq Ahead(buffer, depthQueue) \cup {e}
    BY <2>3, <2>6, <2>7 DEF JustBook, Ahead
  <2>9. e.id = updateId \/ e.id = updateId + 1
    BY <2>2, <2>4
  <2>10. e.id = updateId => changed = {}
    BY <1>1, <2>2, <2>4
  <2>11. QED
    BY <2>2, <2>8, <2>9, <2>10
<1>3. CASE DepthUpdate /\ feed = "live"
  <2> DEFINE e == Book(FALSE, updateId', changed)
  <2>1. /\ e \in Books /\ e.id = updateId'
        /\ e.book = market /\ e.added = added /\ e.at = changedAt /\ e.change = changes
    <3>1. changed \in SUBSET Prices /\ FALSE \in BOOLEAN
      BY <1>1
    <3>2. e \in Books
      BY <1>1, <3>1, BookEventIs
    <3>3. QED
      BY <3>2 DEF Book
  <2>2. updateId' = updateId + 1 /\ depthQueue' = Append(depthQueue, e)
    BY <1>3 DEF DepthUpdate
  <2> HIDE DEF e
  <2>3. e \in DepthEvent
    BY <2>1 DEF DepthEvent
  <2>4. Coming(depthQueue') = Coming(depthQueue) \cup JustBook(e)
    BY <1>1, <2>2, <2>3, AppendedQueue
  <2>5. Ahead(buffer, depthQueue') \subseteq Ahead(buffer, depthQueue) \cup {e}
    BY <2>4 DEF JustBook, Ahead
  <2>6. e.id = updateId + 1 /\ e.id # updateId
    BY <1>1, <2>1, <2>2
  <2>7. QED
    BY <2>1, <2>5, <2>6
<1>4. QED
  BY <1>2, <1>3

LEMMA RefillTold ==
  ASSUME TypeInv, TypeInv', SyncInv, RefillInv, DepthBoundary \/ (DepthUpdate /\ feed = "live")
  PROVE  RefillInv'
<1>1. UNCHANGED <<market, added, changes, tradeQueue, detector, buffer, seenBook, seenChange, missed>>
  BY DEF DepthBoundary, DepthUpdate, insideVars, detectorVars, historyVars, registryVars
<1>2. PICK e \in Books :
           /\ e.book = market /\ e.added = added /\ e.change = changes /\ e.at = changedAt
           /\ e.id = updateId \/ e.id = updateId + 1
           /\ e.id = updateId => changed = {}
           /\ Ahead(buffer, depthQueue') \subseteq Ahead(buffer, depthQueue) \cup {e}
  BY ToldBook
<1> DEFINE A == Ahead(buffer, depthQueue)
           F == Flight(buffer, tradeQueue)
<1>3. buffer \in Seq(Entry) /\ depthQueue \in Seq(DepthEvent) /\ DetectorOK(detector)
  BY DEF TypeInv
<1>4. /\ Numeric(A, seenBook, seenChange) /\ Reality(detector, A, F, seenBook, seenChange, missed)
      /\ AheadValues(A) /\ \A f \in A : Known(f)
  BY <1>3, NumericIs DEF RefillInv, Real, SyncInv, Sync, ValueOK, OrderOK
<1>5. Ahead(buffer, depthQueue') \in SUBSET (A \cup {e})
  BY <1>2
<1>6. Numeric(A \cup {e}, seenBook, seenChange)
  BY <1>4 DEF Numeric
<1> HIDE DEF A
<1>7. Reality(detector, A \cup {e}, F, seenBook, seenChange, missed)
  BY <1>2, <1>4, RealTold
<1> HIDE DEF F
<1>8. Reality(detector, Ahead(buffer, depthQueue'), F, seenBook, seenChange, missed)
  <2> DEFINE B == A \cup {e}
  <2>1. Numeric(B, seenBook, seenChange) /\ Reality(detector, B, F, seenBook, seenChange, missed)
        /\ Ahead(buffer, depthQueue') \in SUBSET B
    BY <1>5, <1>6, <1>7
  <2> HIDE DEF B
  <2>2. QED
    BY <1>3, <2>1, RealLess
<1>9. Once(buffer, tradeQueue, seenChange)
  BY DEF RefillInv, Real
<1>10. Real(detector', buffer', depthQueue', tradeQueue', seenBook', seenChange', missed')
  BY <1>1, <1>8, <1>9 DEF Real, F
<1>11. QED
  BY <1>1, <1>10, RefillPrimed

(* Neither the market nor the detector changes, and no book is told.       *)
LEMMA RefillOther ==
  ASSUME TypeInv, RefillInv,
         UNCHANGED <<market, added, changes, detector, buffer, seenBook, seenChange, missed>>,
         depthQueue' = depthQueue
           \/ \E e \in DepthEvent : ~IsBook(e) /\ depthQueue' = Append(depthQueue, e),
         tradeQueue' = tradeQueue
           \/ \E e \in TradeEvent : ~IsTrade(e) /\ tradeQueue' = Append(tradeQueue, e)
  PROVE  RefillInv'
<1>1. /\ depthQueue \in Seq(DepthEvent) /\ tradeQueue \in Seq(TradeEvent)
      /\ Once(buffer, tradeQueue, seenChange)
  BY DEF TypeInv, RefillInv, Real
<1>2. Ahead(buffer, depthQueue') = Ahead(buffer, depthQueue)
  BY <1>1, AppendedQueue DEF JustBook, Ahead
<1>3. TradesOf(tradeQueue') = TradesOf(tradeQueue) /\ DistinctOf(tradeQueue')
  <2>1. CASE tradeQueue' = tradeQueue
    BY <1>1, <2>1 DEF Once
  <2>2. ASSUME NEW e \in TradeEvent, ~IsTrade(e), tradeQueue' = Append(tradeQueue, e)
        PROVE  TradesOf(tradeQueue') = TradesOf(tradeQueue) /\ DistinctOf(tradeQueue')
    BY <1>1, <2>2, AppendedTrades, DistinctAppend DEF JustTrade, Once
  <2>3. QED
    BY <2>1, <2>2
<1>4. Flight(buffer, tradeQueue') = Flight(buffer, tradeQueue) /\ Once(buffer, tradeQueue', seenChange)
  BY <1>1, <1>3 DEF Flight, Once
<1>5. Real(detector', buffer', depthQueue', tradeQueue', seenBook', seenChange', missed')
  BY <1>2, <1>4 DEF RefillInv, Real
<1>6. QED
  BY <1>5, RefillPrimed

LEMMA RefillChange ==
  ASSUME TypeInv, SyncInv, RefillInv,
         \E p \in Prices : Execute(p) \/ \E qty \in Qty(p) : Reprice(p, qty)
  PROVE  RefillInv'
<1>1. PICK p \in Prices, qty \in Nat :
         /\ Change(p, qty)
         /\ \/ UNCHANGED tradeQueue
            \/ /\ qty = market[p] - 1
               /\ tradeQueue' = Append(tradeQueue, Trade(p, changes + 1))
  <2>1. \A p \in Prices : market[p] \in Nat /\ Qty(p) \subseteq Nat
    BY QuantityIs DEF TypeInv, Quantities, Totals, Qty
  <2>2. ASSUME NEW p \in Prices, Execute(p)
        PROVE  /\ market[p] - 1 \in Nat /\ Change(p, market[p] - 1)
               /\ tradeQueue' = Append(tradeQueue, Trade(p, changes + 1))
    BY <2>1, <2>2 DEF Execute
  <2>3. ASSUME NEW p \in Prices, NEW qty \in Qty(p), Reprice(p, qty)
        PROVE  qty \in Nat /\ Change(p, qty) /\ UNCHANGED tradeQueue
    BY <2>1, <2>3 DEF Reprice
  <2>4. QED
    BY <2>2, <2>3
<1> DEFINE A == Ahead(buffer, depthQueue)
           F == Flight(buffer, tradeQueue)
           H == Flight(buffer, tradeQueue')
           e == Trade(p, changes + 1)
<1>2. /\ buffer \in Seq(Entry) /\ depthQueue \in Seq(DepthEvent) /\ tradeQueue \in Seq(TradeEvent)
      /\ DetectorOK(detector) /\ changes \in Nat /\ now \in Times
  BY DEF TypeInv
<1>3. /\ Numeric(A, seenBook, seenChange) /\ Reality(detector, A, F, seenBook, seenChange, missed)
      /\ Once(buffer, tradeQueue, seenChange)
      /\ \A f \in A : f.change <= changes
      /\ seenChange.book <= changes
  BY <1>2, NumericIs DEF RefillInv, Real, SyncInv, Sync, OrderOK, Known
<1>4. \A f \in F : f.change \in Nat /\ f.change <= changes
  BY <1>2, <1>3, FlightIs DEF Once
<1>5. /\ UNCHANGED <<depthQueue, detector, buffer, seenBook, seenChange, missed>>
      /\ changes' = changes + 1
  BY <1>1 DEF Change, insideVars, detectorVars, historyVars, registryVars
<1>6. /\ e \in Trades /\ IsTrade(e) /\ e \in TradeEvent /\ e.price = p /\ e.change = changes + 1
  <2>1. changes + 1 \in Nat
    BY <1>2
  <2>2. QED
    BY <1>2, <2>1 DEF Trade, Trades, TradeEvent, IsTrade
<1> HIDE DEF e
<1>7. ASSUME tradeQueue' = Append(tradeQueue, e)
      PROVE  Plus(F, e, H) /\ Once(buffer, tradeQueue, seenChange)'
  <2>1. TradesOf(tradeQueue') = TradesOf(tradeQueue) \cup {e}
    BY <1>2, <1>6, <1>7, AppendedTrades DEF JustTrade
  <2>2. H = F \cup {e}
    BY <2>1 DEF Flight
  <2>3. \A f \in F : f.change # e.change
    BY <1>2, <1>4, <1>6
  <2>4. TradesIn(buffer) \subseteq F /\ TradesOf(tradeQueue) \subseteq F
    BY DEF Flight
  <2>5. DistinctOf(tradeQueue')
    BY <1>2, <1>3, <1>6, <1>7, <2>3, <2>4, DistinctAppend DEF Once
  <2>6. \A f \in TradesIn(buffer), g \in TradesOf(tradeQueue') : f.change # g.change
    BY <1>3, <2>1, <2>3, <2>4 DEF Once
  <2>7. DistinctIn(buffer)
    BY <1>3 DEF Once
  <2>8. \A f \in H : f.change <= changes'
    <3>1. \A f \in F : f.change <= changes'
      BY <1>2, <1>4, <1>5
    <3>2. e.change <= changes'
      BY <1>2, <1>5, <1>6
    <3>3. QED
      BY <2>2, <3>1, <3>2
  <2>9. seenChange.trade <= changes'
    BY <1>2, <1>3, <1>5 DEF Once, Numeric
  <2>10. QED
    BY <1>5, <2>2, <2>3, <2>5, <2>6, <2>7, <2>8, <2>9 DEF Once, Plus
<1>8. ASSUME UNCHANGED tradeQueue
      PROVE  H = F /\ Once(buffer, tradeQueue, seenChange)'
  <2>1. \A f \in F : f.change <= changes'
    BY <1>2, <1>4, <1>5
  <2>2. seenChange.trade <= changes'
    BY <1>2, <1>3, <1>5 DEF Once, Numeric
  <2>3. H = F
    BY <1>8
  <2>4. QED
    BY <1>3, <1>5, <1>8, <2>1, <2>2, <2>3 DEF Once
<1>9. Once(buffer, tradeQueue, seenChange)'
  BY <1>1, <1>7, <1>8 DEF e
<1>10. \/ H = F
       \/ /\ qty = market[p] - 1
          /\ \E f : Plus(F, f, H) /\ f.price = p /\ f.change = changes + 1
  BY <1>1, <1>6, <1>7, <1>8 DEF e
<1>11. PICK B, G, K : B = A /\ G = F /\ K = H
  OBVIOUS
<1>12. /\ Numeric(B, seenBook, seenChange) /\ Reality(detector, B, G, seenBook, seenChange, missed)
       /\ \A f \in B : f.change <= changes
       /\ \A f \in G : f.change \in Nat /\ f.change <= changes
       /\ \/ K = G
          \/ /\ qty = market[p] - 1
             /\ \E f : Plus(G, f, K) /\ f.price = p /\ f.change = changes + 1
  BY <1>3, <1>4, <1>10, <1>11
<1>13. Ahead(buffer, depthQueue)' = B /\ Flight(buffer, tradeQueue)' = K /\ missed' = missed
  BY <1>5, <1>11
<1> HIDE DEF A, F, H
<1>14. Reality(detector, B, K, seenBook, seenChange, missed)'
  <2>1. PICK m : m = missed
    OBVIOUS
  <2>2. Reality(detector, B, K, seenBook, seenChange, m)'
    BY <1>1, <1>2, <1>3, <1>12, <2>1, RealChange
  <2>3. QED
    BY <1>13, <2>1, <2>2 DEF Reality
<1>15. QED
  BY <1>9, <1>13, <1>14 DEF RefillInv, Real

LEMMA RefillInit == Init => RefillInv
<1> SUFFICES ASSUME Init
             PROVE  RefillInv
  OBVIOUS
<1>1. /\ buffer = <<>> /\ depthQueue = <<>> /\ tradeQueue = <<>> /\ changes = 0
      /\ detector = Fresh("Synchronizing", {}) /\ added = [p \in Prices |-> 0]
      /\ seenChange = [trade |-> 0, book |-> 0, added |-> [p \in Prices |-> 0],
                       disordered |-> FALSE]
  BY DEF Init
<1>2. Ahead(buffer, depthQueue) = {} /\ TradesIn(buffer) = {} /\ TradesOf(tradeQueue) = {}
  BY <1>1, NoneWait DEF Ahead, Coming, TradesIn, TradesOf
<1>3. DistinctIn(buffer) /\ DistinctOf(tradeQueue)
  BY <1>1, NoneWait DEF DistinctIn, DistinctOf
<1>4. Once(buffer, tradeQueue, seenChange)
  BY <1>1, <1>2, <1>3 DEF Once, Flight
<1>5. Bare(detector) /\ Open(detector) = {}
  BY <1>1, FreshBare
<1>6. \A p \in Prices : seenChange.added[p] <= added[p]
  BY <1>1
<1>7. Reality(detector, Ahead(buffer, depthQueue), Flight(buffer, tradeQueue), seenBook, seenChange,
              missed)
  BY <1>2, <1>5, <1>6 DEF Reality, Consumed, Later, Bare
<1>8. QED
  BY <1>4, <1>7 DEF RefillInv, Real

LEMMA RefillStep ==
  ASSUME DetectorInv, DetectorInv', RefillInv, [Next]_vars
  PROVE  RefillInv'
<1>1. TypeInv /\ TypeInv' /\ InSort(buffer) /\ ResyncInv /\ SyncInv
  BY DEF DetectorInv
<1>2. CASE Tick \/ DepthConnect \/ DepthDisconnect \/ DepthGap \/ OtherMarketEvent \/ UNCHANGED vars
           \/ TradeDisconnect \/ (DepthUpdate /\ feed # "live")
  <2>1. /\ Quality("Synchronizing") \in DepthEvent /\ ~IsBook(Quality("Synchronizing"))
        /\ Break("Degraded", "depth") \in DepthEvent /\ ~IsBook(Break("Degraded", "depth"))
        /\ Break("Gap", "depth") \in DepthEvent /\ ~IsBook(Break("Gap", "depth"))
        /\ Break("Degraded", "trade") \in TradeEvent /\ ~IsTrade(Break("Degraded", "trade"))
    BY <1>1 DEF TypeInv, Quality, DepthEvent, TradeEvent, Told, Break, Breaks, IsBook, IsTrade
  <2>2. UNCHANGED <<market, added, changes, detector, buffer, seenBook, seenChange, missed>>
    BY <1>2 DEF Tick, DepthConnect, DepthDisconnect, DepthGap, OtherMarketEvent, TradeDisconnect,
       DepthUpdate, vars, insideVars, detectorVars, historyVars, registryVars, marketVars
  <2>3. CASE Tick \/ OtherMarketEvent \/ UNCHANGED vars \/ (DepthUpdate /\ feed # "live")
    <3>1. UNCHANGED <<depthQueue, tradeQueue>>
      BY <2>3 DEF Tick, OtherMarketEvent, vars, DepthUpdate
    <3>2. QED
      BY <1>1, <2>2, <3>1, RefillOther
  <2>4. CASE DepthConnect \/ DepthDisconnect \/ DepthGap
    <3>1. /\ tradeQueue' = tradeQueue
          /\ \E e \in DepthEvent : ~IsBook(e) /\ depthQueue' = Append(depthQueue, e)
      BY <2>1, <2>4 DEF DepthConnect, DepthDisconnect, DepthGap
    <3>2. QED
      BY <1>1, <2>2, <3>1, RefillOther
  <2>5. CASE TradeDisconnect
    <3>1. /\ depthQueue' = depthQueue
          /\ \E e \in TradeEvent : ~IsTrade(e) /\ tradeQueue' = Append(tradeQueue, e)
      BY <2>1, <2>5 DEF TradeDisconnect
    <3>2. QED
      BY <1>1, <2>2, <3>1, RefillOther
  <2>6. QED
    BY <1>2, <2>3, <2>4, <2>5
<1>3. CASE \E p \in Prices : Execute(p) \/ \E qty \in Qty(p) : Reprice(p, qty)
  BY <1>1, <1>3, RefillChange
<1>4. CASE DepthBoundary \/ (DepthUpdate /\ feed = "live")
  BY <1>1, <1>4, RefillTold
<1>5. CASE CollectGarbage
  <2>1. /\ UNCHANGED <<market, added, changes, depthQueue, tradeQueue, seenBook, seenChange>>
        /\ detector' = Fresh("Synchronizing", {}) /\ buffer' = <<>>
    BY <1>5 DEF CollectGarbage, marketVars, historyVars
  <2>2. /\ buffer \in Seq(Entry) /\ depthQueue \in Seq(DepthEvent) /\ DetectorOK(detector)
    BY <1>1 DEF TypeInv
  <2>3. /\ Numeric(Ahead(buffer, depthQueue), seenBook, seenChange)
        /\ Real(detector, buffer, depthQueue, tradeQueue, seenBook, seenChange, missed)
        /\ Once(buffer, tradeQueue, seenChange)
    BY <1>1, <2>2, NumericIs DEF RefillInv, Real
  <2>4. /\ Ahead(<<>>, depthQueue) \subseteq Ahead(buffer, depthQueue)
        /\ Flight(<<>>, tradeQueue) \subseteq Flight(buffer, tradeQueue)
    BY NoneWait DEF Ahead, Flight, TradesIn
  <2>5. Once(<<>>, tradeQueue, seenChange)
    BY <2>3, <2>4, OnceReset
  <2>6. Bare(detector') /\ Open(detector') = {}
    BY <2>1, FreshBare
  <2>7. Real(detector', <<>>, depthQueue, tradeQueue, seenBook, seenChange, missed')
    BY <2>2, <2>3, <2>4, <2>5, <2>6, RefillLess
  <2>8. QED
    BY <2>1, <2>7, RefillPrimed
<1>6. CASE Drain
  <2>1. /\ Pop(detector') /\ buffer' = Tail(buffer)
        /\ UNCHANGED <<market, added, changes, depthQueue, tradeQueue, missed>>
    BY <1>1, <1>6, DrainIs DEF Drain, marketVars, registryVars
  <2>2. missed \in BOOLEAN /\ tradeQueue \in Seq(TradeEvent)
    BY <1>1 DEF TypeInv
  <2>3. Real(detector', Tail(buffer), depthQueue, tradeQueue, seenBook', seenChange', missed)
    BY <1>1, <2>1, <2>2, RefillPop DEF SyncInv, RefillInv
  <2>4. QED
    BY <2>1, <2>3, RefillPrimed
<1>7. CASE IngestDepth \/ IngestTrade
  BY <1>1, <1>7, RefillIngestDepth, RefillIngestTrade
<1>8. QED
  BY <1>2, <1>3, <1>4, <1>5, <1>6, <1>7 DEF Next, Outside

(* As long as events are processed in the order of the market and none of  *)
(* the depth stream is left out, what an episode counts as refilled was    *)
(* added at its price since it began.                                      *)
THEOREM RefillsAreAdded == Spec => []RefillIsReal
<1>1. Init => RefillInv
  BY RefillInit
<1>2. DetectorInv /\ DetectorInv' /\ RefillInv /\ [Next]_vars => RefillInv'
  BY RefillStep
<1>3. RefillInv => RefillIsReal
  BY DEF RefillInv, Real, Reality, RealAt, RefillIsReal
<1>4. Spec => []DetectorInv
  BY DetectorInvariant
<1>5. QED
  BY <1>1, <1>2, <1>3, <1>4, PTL DEF Spec
=============================================================================
