--------------------------- MODULE DepthSyncProofs ---------------------------
(***************************************************************************)
(* The local book is exact, for any number of updates, any queue and any   *)
(* span of a diff.  The argument: every diff that can reach the book starts*)
(* after its predecessor (GoodDiffs), prevId is the book's own id or unset *)
(* (BookInv), so a diff that Follows brings the updates from within the    *)
(* book to its final id and none is skipped.  A subscriber's view then     *)
(* equals the book as long as it is told so, because quality leaves        *)
(* "Healthy" in the very step in which the machine stops being live.       *)
(***************************************************************************)
EXTENDS DepthSync, SequenceTheorems, TLAPS

GoodDiffs ==
  {d \in Diff : /\ d.prev < d.first /\ d.first <= d.final
                /\ market = "Spot" => d.first = d.prev + 1}

StreamInv ==
  /\ market \in Markets
  /\ exchangeId \in 1..MaxUpdate
  /\ wire \in Seq(GoodDiffs) /\ Len(wire) <= MaxWire
  /\ pending \in Seq(GoodDiffs) /\ Len(pending) <= MaxPending
  /\ incoming \in GoodDiffs \cup {NoDiff}
  /\ link \in {"up", "down"}
  /\ pc \in {"idle", "replay", "handle"}
  /\ state \in {"WaitingSnapshot", "Live"}
  /\ reply \in NoReply..MaxUpdate
  /\ gap \in BOOLEAN
  /\ quality \in {"None", "Synchronizing", "Healthy", "Gap", "Reconnect"}
  /\ pc = "replay" => Waiting

BookInv ==
  /\ lastUpdateId \in Ids
  /\ prevId \in Ids
  /\ prevId # 0 => prevId = lastUpdateId
  /\ BookIsExact

ViewInv == view \subseteq 1..MaxUpdate /\ HealthyViewIsBook

IInv == StreamInv /\ BookInv /\ ViewInv

(* The invariant holds before the first connection.                        *)
LEMMA InitHolds == Init => IInv
<1> SUFFICES ASSUME Init PROVE IInv
  OBVIOUS
<1>1. StreamInv
  <2>1. /\ wire \in Seq(GoodDiffs) /\ Len(wire) = 0
        /\ pending \in Seq(GoodDiffs) /\ Len(pending) = 0
    BY EmptySeq DEF Init
  <2>2. reply \in NoReply..MaxUpdate /\ exchangeId \in 1..MaxUpdate
    BY DepthAssumption DEF Init, Ids, NoReply
  <2>3. Len(wire) <= MaxWire /\ Len(pending) <= MaxPending
    BY <2>1, DepthAssumption
  <2>4. incoming \in GoodDiffs \cup {NoDiff}
    BY DEF Init
  <2>5. QED
    BY <2>1, <2>2, <2>3, <2>4 DEF Init, StreamInv, Waiting
<1>2. BookInv
  BY DepthAssumption DEF Init, BookInv, BookIsExact, Ids
<1>3. ViewInv
  BY DEF Init, ViewInv, HealthyViewIsBook
<1>4. QED
  BY <1>1, <1>2, <1>3 DEF IInv

(* A diff that applies leaves the book exact up to its final id.           *)
LEMMA ApplyIsExact ==
  ASSUME BookInv, market \in Markets, NEW d \in GoodDiffs,
         Applies(d), Apply(d)
  PROVE  BookInv' /\ book' = book \cup (d.prev + 1)..d.final
<1>1. /\ d.prev \in Nat /\ d.first \in Nat /\ d.final \in Ids /\ d.final \in Nat
      /\ d.prev < d.first /\ d.first <= d.final
  BY DEF GoodDiffs, Diff, Ids
<1>2. lastUpdateId \in Nat /\ prevId \in Nat /\ lastUpdateId < d.final
  BY <1>1 DEF BookInv, Applies, Skips, Ids
<1>3. d.prev <= lastUpdateId
  BY <1>1, <1>2 DEF GoodDiffs, BookInv, Applies, Follows
<1>4. (1..lastUpdateId) \cup ((d.prev + 1)..d.final) = 1..d.final
  BY <1>1, <1>2, <1>3
<1>5. QED
  BY <1>1, <1>4 DEF Apply, BookInv, BookIsExact

(* Receiving a text takes a well-formed diff off the wire.                 *)
LEMMA ReadKeeps ==
  ASSUME StreamInv, NEW t, Receive(t), Read(t)
  PROVE  /\ wire' \in Seq(GoodDiffs) /\ Len(wire') <= MaxWire
         /\ incoming' \in GoodDiffs \cup {NoDiff}
<1>1. CASE t = NoDiff
  BY <1>1 DEF StreamInv, Read
<1>2. CASE t # NoDiff
  <2>1. wire # <<>> /\ t = Head(wire) /\ wire' = Tail(wire) /\ incoming' = t
    BY <1>2 DEF Receive, Read
  <2>2. Head(wire) \in GoodDiffs /\ Tail(wire) \in Seq(GoodDiffs)
          /\ Len(Tail(wire)) = Len(wire) - 1 /\ Len(wire) \in Nat
    BY <2>1, HeadTailProperties, LenProperties DEF StreamInv
  <2>3. QED
    BY <2>1, <2>2, DepthAssumption DEF StreamInv
<1>3. QED
  BY <1>1, <1>2

(* What every step but the exchange's does with the market.                *)
LEMMA SameGood ==
  ASSUME UNCHANGED market
  PROVE  GoodDiffs' = GoodDiffs
BY DEF GoodDiffs

(* The queues, flags and control state stay well formed.                   *)
LEMMA StreamKept ==
  ASSUME StreamInv, BookInv, Next
  PROVE  StreamInv'
<1>1. ASSUME NEW first \in Ids, NEW final \in Ids, NEW sent \in BOOLEAN,
             ExchangeUpdate(first, final, sent)
      PROVE  StreamInv'
  <2> DEFINE d == [prev |-> exchangeId, first |-> first, final |-> final]
  <2>1. GoodDiffs' = GoodDiffs
    BY <1>1, SameGood DEF ExchangeUpdate
  <2>2. /\ exchangeId' \in 1..MaxUpdate
        /\ d \in GoodDiffs
    BY <1>1, DepthAssumption DEF ExchangeUpdate, GoodDiffs, Diff, Ids, StreamInv
  <2>3. wire' \in Seq(GoodDiffs) /\ Len(wire') <= MaxWire
    <3>1. CASE sent
      <4>1. wire' = Append(wire, d) /\ Len(wire) < MaxWire
        BY <1>1, <3>1 DEF ExchangeUpdate
      <4>2. Append(wire, d) \in Seq(GoodDiffs) /\ Len(Append(wire, d)) = Len(wire) + 1
        BY <2>2, AppendProperties DEF StreamInv
      <4>3. Len(wire) \in Nat
        BY LenProperties DEF StreamInv
      <4>4. QED
        BY <4>1, <4>2, <4>3, DepthAssumption
    <3>2. CASE ~sent
      BY <1>1, <3>2 DEF ExchangeUpdate, StreamInv
    <3>3. QED
      BY <3>1, <3>2
  <2>4. UNCHANGED <<market, link, syncVars, pc, incoming, outVars>>
    BY <1>1 DEF ExchangeUpdate
  <2>5. QED
    BY <2>1, <2>2, <2>3, <2>4 DEF StreamInv, Waiting, syncVars, outVars
<1>2. ASSUME NEW s \in Ids, SnapshotReply(s)
      PROVE  StreamInv'
  <2>1. GoodDiffs' = GoodDiffs
    BY <1>2, SameGood DEF SnapshotReply, exchangeVars
  <2>2. reply' \in NoReply..MaxUpdate
    BY <1>2, DepthAssumption DEF SnapshotReply, Ids, NoReply, FailedReply
  <2>3. QED
    BY <1>2, <2>1, <2>2 DEF SnapshotReply, StreamInv, Waiting, exchangeVars, outVars
<1>3. CASE Connect
  <2>1. GoodDiffs' = GoodDiffs
    BY <1>3, SameGood DEF Connect, exchangeVars
  <2>2. pending' \in Seq(GoodDiffs) /\ Len(pending') <= MaxPending
    BY <1>3, EmptySeq, DepthAssumption DEF Connect
  <2>3. reply' \in NoReply..MaxUpdate
    BY <1>3, DepthAssumption DEF Connect, BeginResync, NoReply, Ids
  <2>4. QED
    BY <1>3, <2>1, <2>2, <2>3 DEF Connect, BeginResync, StreamInv, Waiting, exchangeVars
<1>4. CASE Disconnect
  <2>1. GoodDiffs' = GoodDiffs
    BY <1>4, SameGood DEF Disconnect, exchangeVars
  <2>2. wire' \in Seq(GoodDiffs) /\ Len(wire') <= MaxWire
    BY <1>4, EmptySeq, DepthAssumption DEF Disconnect, LoseLink
  <2>3. QED
    BY <1>4, <2>1, <2>2 DEF Disconnect, LoseLink, StreamInv, Waiting, exchangeVars, syncVars
<1>5. ASSUME NEW t \in Texts, OnText(t)
      PROVE  StreamInv'
  <2>1. GoodDiffs' = GoodDiffs
    BY <1>5, SameGood DEF OnText, exchangeVars
  <2>2. wire' \in Seq(GoodDiffs) /\ Len(wire') <= MaxWire
          /\ incoming' \in GoodDiffs \cup {NoDiff}
    BY <1>5, ReadKeeps DEF OnText
  <2>3. QED
    BY <1>5, <2>1, <2>2
    DEF OnText, StreamInv, Waiting, NoDiff, exchangeVars, syncVars, outVars
<1>6. ASSUME NEW t \in Texts, OnTextSnapshotFailed(t)
      PROVE  StreamInv'
  <2>1. GoodDiffs' = GoodDiffs
    BY <1>6, SameGood DEF OnTextSnapshotFailed, exchangeVars
  <2>2. wire' \in Seq(GoodDiffs) /\ Len(wire') <= MaxWire
    BY <1>6, EmptySeq, DepthAssumption DEF OnTextSnapshotFailed, LoseLink
  <2>3. QED
    BY <1>6, <2>1, <2>2
    DEF OnTextSnapshotFailed, LoseLink, StreamInv, Waiting, exchangeVars, syncVars
<1>7. ASSUME NEW t \in Texts, OnTextSnapshot(t)
      PROVE  StreamInv'
  <2>1. GoodDiffs' = GoodDiffs
    BY <1>7, SameGood DEF OnTextSnapshot, exchangeVars
  <2>2. wire' \in Seq(GoodDiffs) /\ Len(wire') <= MaxWire
          /\ incoming' \in GoodDiffs \cup {NoDiff}
    BY <1>7, ReadKeeps DEF OnTextSnapshot
  <2>3. reply' \in NoReply..MaxUpdate
    BY <1>7, DepthAssumption DEF OnTextSnapshot, NoReply
  <2>4. QED
    BY <1>7, <2>1, <2>2, <2>3
    DEF OnTextSnapshot, StreamInv, Waiting, NoDiff, exchangeVars, outVars
<1>8. ASSUME pc = "replay", pending # <<>>, pending' = Tail(pending), UNCHANGED market
      PROVE  /\ GoodDiffs' = GoodDiffs
             /\ pending' \in Seq(GoodDiffs) /\ Len(pending') <= MaxPending
  <2>1. Tail(pending) \in Seq(GoodDiffs) /\ Len(Tail(pending)) = Len(pending) - 1
          /\ Len(pending) \in Nat
    BY <1>8, HeadTailProperties, LenProperties DEF StreamInv
  <2>2. QED
    BY <1>8, <2>1, SameGood, DepthAssumption DEF StreamInv
<1>9. CASE ReplayDiff
  BY <1>8, <1>9 DEF ReplayDiff, StreamInv, Waiting, exchangeVars, outVars, NoDiff
<1>10. CASE ReplayGap
  <2>1. reply' \in NoReply..MaxUpdate
    BY <1>10, DepthAssumption DEF ReplayGap, BeginResync, NoReply
  <2>2. QED
    BY <1>8, <1>10, <2>1
    DEF ReplayGap, BeginResync, StreamInv, Waiting, exchangeVars, outVars, NoDiff
<1>11. CASE ReplayEnd
  <2>1. GoodDiffs' = GoodDiffs
    BY <1>11, SameGood DEF ReplayEnd, exchangeVars
  <2>2. QED
    BY <1>11, <2>1 DEF ReplayEnd, StreamInv, Waiting, exchangeVars, NoDiff
<1>12. CASE HandleOtherText
  <2>1. GoodDiffs' = GoodDiffs
    BY <1>12, SameGood DEF HandleOtherText, exchangeVars
  <2>2. QED
    BY <1>12, <2>1
    DEF HandleOtherText, StreamInv, Waiting, exchangeVars, syncVars, outVars, NoDiff
<1>13. ASSUME HandleText
       PROVE  /\ GoodDiffs' = GoodDiffs
              /\ incoming \in GoodDiffs
              /\ incoming.final \in Ids
              /\ pc' = "idle" /\ incoming' = NoDiff /\ UNCHANGED <<exchangeVars, wire, link>>
  BY <1>13, SameGood DEF HandleText, exchangeVars, StreamInv, GoodDiffs, Diff
<1>14. ASSUME NEW g \in BOOLEAN, TakeGap(g)
       PROVE  /\ gap' \in BOOLEAN
              /\ quality' \in {"None", "Synchronizing", "Healthy", "Gap", "Reconnect"}
  BY <1>14 DEF TakeGap, StreamInv
<1>15. CASE QueueDiff
  <2> DEFINE room == IF Len(pending) = MaxPending THEN Tail(pending) ELSE pending
  <2>1. HandleText /\ TakeGap(gap) /\ pending' = Append(room, incoming)
          /\ UNCHANGED state /\ UNCHANGED reply
    BY <1>15 DEF QueueDiff
  <2>2. Len(pending) \in Nat
    BY LenProperties DEF StreamInv
  <2>3. room \in Seq(GoodDiffs) /\ Len(room) \in Nat /\ Len(room) < MaxPending
    <3>1. CASE Len(pending) = MaxPending
      <4>1. pending # <<>>
        BY <3>1, EmptySeq, DepthAssumption
      <4>2. Tail(pending) \in Seq(GoodDiffs) /\ Len(Tail(pending)) = Len(pending) - 1
        BY <4>1, HeadTailProperties DEF StreamInv
      <4>3. QED
        BY <3>1, <4>2, DepthAssumption
    <3>2. CASE Len(pending) # MaxPending
      BY <2>2, <3>2, DepthAssumption DEF StreamInv
    <3>3. QED
      BY <3>1, <3>2
  <2>4. incoming \in GoodDiffs
    BY <2>1, <1>13
  <2> HIDE DEF room
  <2>5. pending' \in Seq(GoodDiffs) /\ Len(pending') <= MaxPending
    BY <2>1, <2>3, <2>4, AppendProperties, DepthAssumption
  <2>6. QED
    BY <1>13, <1>14, <2>1, <2>5 DEF StreamInv, Waiting, exchangeVars
<1>16. CASE LiveSkip
  <2>1. HandleText /\ TakeGap(gap)
    BY <1>16 DEF LiveSkip
  <2>2. QED
    BY <1>13, <1>14, <1>16, <2>1 DEF LiveSkip, StreamInv, Waiting, exchangeVars
<1>17. CASE LiveApply
  <2>1. HandleText /\ TakeGap(gap)
    BY <1>17 DEF LiveApply
  <2>2. QED
    BY <1>13, <1>14, <1>17, <2>1 DEF LiveApply, StreamInv, Waiting, exchangeVars
<1>18. CASE LiveGap
  <2>1. HandleText /\ TakeGap(TRUE) /\ BeginResync /\ pending' = <<incoming>>
    BY <1>18 DEF LiveGap
  <2>2. pending' \in Seq(GoodDiffs) /\ Len(pending') <= MaxPending
    BY <1>13, <2>1, DepthAssumption
  <2>3. reply' \in NoReply..MaxUpdate
    BY <2>1, DepthAssumption DEF BeginResync, NoReply
  <2>4. QED
    BY <1>13, <1>14, <2>1, <2>2, <2>3 DEF BeginResync, StreamInv, Waiting, exchangeVars
<1>19. QED
  BY <1>1, <1>2, <1>3, <1>4, <1>5, <1>6, <1>7, <1>9, <1>10, <1>11, <1>12, <1>15, <1>16,
     <1>17, <1>18
  DEF Next, Step, Text

(* The book stays exact through every step.                                *)
LEMMA BookKept ==
  ASSUME StreamInv, BookInv, Next
  PROVE  BookInv'
<1>1. ASSUME UNCHANGED bookVars
      PROVE  BookInv'
  BY <1>1 DEF bookVars, BookInv, BookIsExact
<1>2. ASSUME NEW first \in Ids, NEW final \in Ids, NEW sent \in BOOLEAN,
             ExchangeUpdate(first, final, sent)
      PROVE  BookInv'
  BY <1>1, <1>2 DEF ExchangeUpdate
<1>3. ASSUME NEW s \in Ids, SnapshotReply(s)
      PROVE  BookInv'
  BY <1>1, <1>3 DEF SnapshotReply
<1>4. CASE Connect
  BY <1>4, DepthAssumption DEF Connect, BookInv, BookIsExact, Ids
<1>5. CASE Disconnect
  BY <1>1, <1>5 DEF Disconnect
<1>6. ASSUME NEW t \in Texts, OnText(t) \/ OnTextSnapshotFailed(t)
      PROVE  BookInv'
  BY <1>1, <1>6 DEF OnText, OnTextSnapshotFailed
<1>7. ASSUME NEW t \in Texts, OnTextSnapshot(t)
      PROVE  BookInv'
  <2>1. book' = 1..reply /\ lastUpdateId' = reply /\ prevId' = 0 /\ reply \in Ids
    BY <1>7, DepthAssumption DEF OnTextSnapshot, StreamInv, NoReply, FailedReply, Ids
  <2>2. QED
    BY <2>1, DepthAssumption DEF BookInv, BookIsExact, Ids
<1>8. CASE ReplayDiff
  <2>1. CASE Applies(Head(pending))
    <3>1. Head(pending) \in GoodDiffs
      BY <1>8, HeadTailProperties DEF ReplayDiff, StreamInv
    <3>2. Apply(Head(pending))
      BY <1>8, <2>1 DEF ReplayDiff
    <3>3. QED
      BY <2>1, <3>1, <3>2, ApplyIsExact DEF StreamInv
  <2>2. CASE ~Applies(Head(pending))
    BY <1>1, <1>8, <2>2 DEF ReplayDiff
  <2>3. QED
    BY <2>1, <2>2
<1>9. CASE ReplayGap \/ ReplayEnd \/ HandleOtherText \/ QueueDiff \/ LiveSkip
  BY <1>1, <1>9 DEF ReplayGap, ReplayEnd, HandleOtherText, QueueDiff, LiveSkip
<1>10. CASE LiveApply
  <2>1. incoming \in GoodDiffs
    BY <1>10 DEF LiveApply, HandleText, StreamInv
  <2>2. QED
    BY <1>10, <2>1, ApplyIsExact DEF LiveApply, StreamInv
<1>11. CASE LiveGap
  BY <1>11, DepthAssumption DEF LiveGap, BookInv, BookIsExact, Ids
<1>12. QED
  BY <1>2, <1>3, <1>4, <1>5, <1>6, <1>7, <1>8, <1>9, <1>10, <1>11 DEF Next, Step, Text

(* A subscriber told "Healthy" keeps the machine's book.                   *)
LEMMA ViewKept ==
  ASSUME StreamInv, BookInv, ViewInv, Next
  PROVE  ViewInv'
<1>1. ASSUME UNCHANGED <<market, state, book, view, quality>>
      PROVE  ViewInv'
  BY <1>1 DEF ViewInv, HealthyViewIsBook, Linear, Waiting
<1>2. book \subseteq 1..MaxUpdate
  BY DepthAssumption DEF BookInv, BookIsExact, Ids
<1>3. ASSUME NEW first \in Ids, NEW final \in Ids, NEW sent \in BOOLEAN,
             ExchangeUpdate(first, final, sent)
      PROVE  ViewInv'
  BY <1>1, <1>3 DEF ExchangeUpdate, bookVars, syncVars, outVars
<1>4. ASSUME NEW s \in Ids, SnapshotReply(s)
      PROVE  ViewInv'
  BY <1>1, <1>4 DEF SnapshotReply, exchangeVars, bookVars, outVars
<1>5. ASSUME UNCHANGED <<market, view>>, Linear => quality' # "Healthy"
      PROVE  ViewInv'
  BY <1>5 DEF ViewInv, HealthyViewIsBook, Linear
<1>6. CASE Connect
  BY <1>5, <1>6 DEF Connect, exchangeVars
<1>7. CASE Disconnect
  BY <1>5, <1>7 DEF Disconnect, LoseLink, exchangeVars
<1>8. ASSUME NEW t \in Texts, OnText(t)
      PROVE  ViewInv'
  BY <1>1, <1>8 DEF OnText, exchangeVars, bookVars, syncVars, outVars
<1>9. ASSUME NEW t \in Texts, OnTextSnapshotFailed(t)
      PROVE  ViewInv'
  BY <1>5, <1>9 DEF OnTextSnapshotFailed, LoseLink, exchangeVars
<1>10. ASSUME Waiting, UNCHANGED <<market, view, quality>>
       PROVE  ViewInv'
  BY <1>5, <1>10 DEF ViewInv, HealthyViewIsBook
<1>11. ASSUME NEW t \in Texts, OnTextSnapshot(t)
       PROVE  ViewInv'
  BY <1>10, <1>11 DEF OnTextSnapshot, exchangeVars, outVars
<1>12. CASE ReplayDiff \/ ReplayGap
  BY <1>10, <1>12 DEF ReplayDiff, ReplayGap, StreamInv, exchangeVars, outVars
<1>13. CASE ReplayEnd
  BY <1>2, <1>13 DEF ReplayEnd, ViewInv, HealthyViewIsBook, Waiting, bookVars
<1>14. CASE HandleOtherText
  BY <1>1, <1>14 DEF HandleOtherText, exchangeVars, bookVars, syncVars, outVars
<1>15. ASSUME NEW g \in BOOLEAN, HandleText, TakeGap(g), UNCHANGED <<state, book, view>>
       PROVE  ViewInv'
  BY <1>15
  DEF HandleText, TakeGap, ViewInv, HealthyViewIsBook, Linear, Waiting, exchangeVars
<1>16. CASE QueueDiff \/ LiveSkip
  BY <1>15, <1>16 DEF QueueDiff, LiveSkip, StreamInv, bookVars
<1>17. CASE LiveApply
  <2> DEFINE brought == (incoming.prev + 1)..incoming.final
  <2>1. incoming \in GoodDiffs
    BY <1>17 DEF LiveApply, HandleText, StreamInv
  <2>2. brought \subseteq 1..MaxUpdate
    BY <2>1, DepthAssumption DEF GoodDiffs, Diff, Ids
  <2>3. /\ view' = IF Linear THEN view \cup brought ELSE view
        /\ book' = book \cup brought
        /\ Linear' = Linear /\ Waiting' = Waiting
        /\ Linear => quality' \in {quality, "Gap"}
    BY <1>17
    DEF LiveApply, Apply, HandleText, TakeGap, Linear, Waiting, exchangeVars
  <2> HIDE DEF brought
  <2>4. QED
    BY <2>2, <2>3 DEF ViewInv, HealthyViewIsBook
<1>18. CASE LiveGap
  BY <1>5, <1>18 DEF LiveGap, HandleText, TakeGap, Linear, exchangeVars
<1>19. QED
  BY <1>3, <1>4, <1>6, <1>7, <1>8, <1>9, <1>11, <1>12, <1>13, <1>14, <1>16, <1>17, <1>18
  DEF Next, Step, Text

(* The invariant of the stream, its book and its subscriber.               *)
THEOREM Invariance == Spec => []IInv
<1>1. Init => IInv
  BY InitHolds
<1>2. IInv /\ [Next]_vars => IInv'
  <2> SUFFICES ASSUME IInv, [Next]_vars PROVE IInv'
    OBVIOUS
  <2>1. CASE Next
    BY <2>1, StreamKept, BookKept, ViewKept DEF IInv
  <2>2. CASE UNCHANGED vars
    BY <2>2
    DEF IInv, StreamInv, BookInv, ViewInv, BookIsExact, HealthyViewIsBook, GoodDiffs,
        Linear, Waiting, vars, exchangeVars, bookVars, syncVars, outVars
  <2>3. QED
    BY <2>1, <2>2
<1>3. QED
  BY <1>1, <1>2, PTL DEF Spec

(* Every variable keeps its type: the queue of diffs never exceeds         *)
(* MAX_PENDING_DEPTH_EVENTS.                                               *)
THEOREM TypeCorrect == Spec => []TypeOK
<1>1. IInv => TypeOK
  <2> SUFFICES ASSUME IInv PROVE TypeOK
    OBVIOUS
  <2>1. wire \in Seq(Diff) /\ pending \in Seq(Diff) /\ incoming \in Diff
    <3>1. GoodDiffs \subseteq Diff
      BY DEF GoodDiffs
    <3>2. NoDiff \in Diff
      BY DepthAssumption DEF NoDiff, Diff, Ids
    <3>3. QED
      BY <3>1, <3>2, SeqMonotonic DEF IInv, StreamInv
  <2>2. book \subseteq 1..MaxUpdate
    BY DepthAssumption DEF IInv, BookInv, BookIsExact, Ids
  <2>3. QED
    BY <2>1, <2>2 DEF IInv, StreamInv, BookInv, ViewInv, TypeOK
<1>2. QED
  BY <1>1, Invariance, PTL

(* The local book holds exactly the exchange's updates up to its id: no    *)
(* loss, overflow of the queue, stale snapshot or failed replay leaves a   *)
(* hole in it.                                                             *)
THEOREM BookExact == Spec => []BookIsExact
<1>1. IInv => BookIsExact
  BY DEF IInv, BookInv
<1>2. QED
  BY <1>1, Invariance, PTL

(* A subscriber last told "Healthy" has the machine's book.                *)
THEOREM HealthyView == Spec => []HealthyViewIsBook
<1>1. IInv => HealthyViewIsBook
  BY DEF IInv, ViewInv
<1>2. QED
  BY <1>1, Invariance, PTL

=============================================================================
