------------------------------ MODULE DepthSync ------------------------------
(***************************************************************************)
(* The local order book of one Binance depth stream (DepthAdapter and      *)
(* DepthSyncMachine in exchange/src/adapter/hub/binance/stream.rs): diffs  *)
(* arrive on a websocket, a REST snapshot is fetched aside, and the two    *)
(* are joined by their update ids.                                         *)
(*                                                                         *)
(* The book is modelled by the set of exchange updates it reflects: the    *)
(* exchange numbers its updates 1, 2, ..., a snapshot taken at s reflects  *)
(* 1..s, and a diff brings the updates after its predecessor up to its     *)
(* final id.  Levels carry absolute quantities, so applying an update      *)
(* twice is harmless and missing one is not.                               *)
(*                                                                         *)
(* One call of on_text runs without suspending.  It is split here at its   *)
(* loop (pc says where it is: polling the snapshot, replaying the queued   *)
(* diffs, handling the text); the book is touched by nobody else.          *)
(***************************************************************************)
EXTENDS Integers, Sequences

CONSTANTS
  MaxUpdate,    \* bound on the exchange's update ids
  MaxSpan,      \* bound on the updates in one diff
  MaxWire,      \* bound on the texts in flight
  MaxPending    \* MAX_PENDING_DEPTH_EVENTS

ASSUME DepthAssumption ==
  /\ MaxUpdate \in Nat \ {0}
  /\ MaxSpan \in Nat \ {0}
  /\ MaxWire \in Nat \ {0}
  /\ MaxPending \in Nat \ {0}

VARIABLES
  market,         \* the market kind, fixed
  exchangeId,     \* last update id on the exchange
  wire,           \* diffs sent and not yet read
  link,           \* "up" while the websocket is connected
  state,          \* DepthSyncMachine.state
  reply,          \* what the snapshot task has put in its channel
  prevId,         \* DepthSyncMachine.prev_id
  pending,        \* DepthSyncMachine.pending
  book,           \* current: the updates it reflects
  lastUpdateId,   \* current.last_update_id
  gap,            \* DepthSyncMachine.gap_detected
  pc,             \* where on_text is
  incoming,       \* the text on_text was called with
  view,           \* the book a subscriber has built from BookDelta events
  quality         \* the last Quality or Reconnect event sent

exchangeVars == <<market, exchangeId>>
bookVars == <<prevId, book, lastUpdateId>>
syncVars == <<state, reply, pending, gap>>
outVars == <<view, quality>>
vars == <<exchangeVars, wire, link, bookVars, syncVars, pc, incoming, outVars>>

Markets == {"Spot", "LinearPerps", "InversePerps"}

Ids == 0..MaxUpdate
Diff == [prev: Ids, first: Ids, final: Ids]

(* A text without depth: one that does not parse, or the empty payload     *)
(* that read_frame forwards for a ping.                                    *)
NoDiff == [prev |-> 0, first |-> 0, final |-> 0]

NoReply == -1
FailedReply == 0

-----------------------------------------------------------------------------
(* apply_depth_diff *)

Skips(d) == lastUpdateId = 0 \/ d.final <= lastUpdateId

(* Mutant: the first diff after a snapshot may start anywhere below it.    *)
MutantFollows(d) ==
  IF prevId = 0 THEN lastUpdateId + 1 <= d.final
  ELSE IF market = "Spot" THEN prevId = d.first - 1
  ELSE prevId = d.prev

(* The first diff after a snapshot must contain the next update; a later   *)
(* one must name its predecessor (spot diffs do so by their first id).     *)
Follows(d) ==
  IF prevId = 0 THEN d.first <= lastUpdateId + 1 /\ lastUpdateId + 1 <= d.final
  ELSE IF market = "Spot" THEN prevId = d.first - 1
  ELSE prevId = d.prev

NeedsResync(d) == ~Skips(d) /\ ~Follows(d)

Applies(d) == ~Skips(d) /\ Follows(d)

Apply(d) ==
  /\ book' = book \cup (d.prev + 1)..d.final
  /\ lastUpdateId' = d.final
  /\ prevId' = d.final

(* begin_resync: a new snapshot is requested; the channel of the last      *)
(* request is dropped with whatever it held.                               *)
BeginResync == state' = "WaitingSnapshot" /\ reply' = NoReply

Linear == market = "LinearPerps"

-----------------------------------------------------------------------------
Init ==
  /\ market \in Markets
  /\ exchangeId = 1
  /\ wire = <<>>
  /\ link = "down"
  /\ state = "Live" /\ reply = NoReply /\ pending = <<>> /\ gap = FALSE
  /\ prevId = 0 /\ book = {} /\ lastUpdateId = 0
  /\ pc = "idle" /\ incoming = NoDiff
  /\ view = {} /\ quality = "None"

(* The exchange: some updates go out as one diff.  The first id of a perp  *)
(* diff may lie past its predecessor, by updates of other books.  The diff *)
(* is lost when the link is down, and may be dropped by the server.        *)
ExchangeUpdate(first, final, sent) ==
  /\ final \in (exchangeId + 1)..(exchangeId + MaxSpan) \cap Ids
  /\ first \in (exchangeId + 1)..final
  /\ market = "Spot" => first = exchangeId + 1
  /\ exchangeId' = final
  /\ IF sent
     THEN /\ link = "up" /\ Len(wire) < MaxWire
          /\ wire' = Append(wire, [prev |-> exchangeId, first |-> first, final |-> final])
     ELSE UNCHANGED wire
  /\ UNCHANGED <<market, link, bookVars, syncVars, pc, incoming, outVars>>

(* The snapshot task: the REST answer may be older than the stream.        *)
SnapshotReply(s) ==
  /\ state = "WaitingSnapshot" /\ reply = NoReply
  /\ s \in FailedReply..exchangeId
  /\ reply' = s
  /\ UNCHANGED <<exchangeVars, wire, link, bookVars, state, pending, gap, pc, incoming,
                 outVars>>

-----------------------------------------------------------------------------
(* connect makes a new machine, on_connected starts its first snapshot.    *)
Connect ==
  /\ link = "down"
  /\ link' = "up"
  /\ BeginResync
  /\ pending' = <<>> /\ gap' = FALSE
  /\ prevId' = 0 /\ book' = {} /\ lastUpdateId' = 0
  /\ quality' = IF Linear THEN "Synchronizing" ELSE quality
  /\ UNCHANGED <<exchangeVars, wire, pc, incoming, view>>

(* on_disconnected; the machine is left as it is.                          *)
LoseLink ==
  /\ link' = "down"
  /\ wire' = <<>>
  /\ quality' = IF Linear THEN "Reconnect" ELSE quality

Disconnect ==
  /\ link = "up" /\ pc = "idle"
  /\ LoseLink
  /\ UNCHANGED <<exchangeVars, bookVars, syncVars, pc, incoming, view>>

(* A text comes in: the next diff, or one without depth.                   *)
Receive(t) ==
  /\ link = "up" /\ pc = "idle"
  /\ \/ wire # <<>> /\ t = Head(wire)
     \/ t = NoDiff

Read(t) ==
  /\ wire' = IF t = NoDiff THEN wire ELSE Tail(wire)
  /\ incoming' = t

Waiting == state = "WaitingSnapshot"

(* on_text with no snapshot to take.                                       *)
OnText(t) ==
  /\ Receive(t) /\ Read(t)
  /\ ~Waiting \/ reply = NoReply
  /\ pc' = "handle"
  /\ UNCHANGED <<exchangeVars, link, bookVars, syncVars, outVars>>

(* Mutant: a failed snapshot request is ignored.                           *)
MutantOnTextSnapshotFailed(t) ==
  /\ Receive(t) /\ Read(t)
  /\ Waiting /\ reply = FailedReply
  /\ pc' = "handle"
  /\ UNCHANGED <<exchangeVars, link, bookVars, syncVars, outVars>>

(* ... when the snapshot request failed: the connection is given up.       *)
OnTextSnapshotFailed(t) ==
  /\ Receive(t)
  /\ Waiting /\ reply = FailedReply
  /\ LoseLink
  /\ UNCHANGED <<exchangeVars, bookVars, syncVars, pc, incoming, view>>

(* ... when it has come: it replaces the book.                             *)
OnTextSnapshot(t) ==
  /\ Receive(t) /\ Read(t)
  /\ Waiting /\ reply > FailedReply
  /\ book' = 1..reply /\ lastUpdateId' = reply /\ prevId' = 0
  /\ reply' = NoReply
  /\ pc' = "replay"
  /\ UNCHANGED <<exchangeVars, link, state, pending, gap, outVars>>

(* handle_snapshot_result: the queued diffs are replayed.                  *)
ReplayDiff ==
  /\ pc = "replay" /\ pending # <<>>
  /\ ~NeedsResync(Head(pending))
  /\ IF Applies(Head(pending)) THEN Apply(Head(pending)) ELSE UNCHANGED bookVars
  /\ pending' = Tail(pending)
  /\ UNCHANGED <<exchangeVars, wire, link, state, reply, gap, pc, incoming, outVars>>

(* ... one that does not follow is dropped and a new snapshot requested.   *)
ReplayGap ==
  /\ pc = "replay" /\ pending # <<>>
  /\ NeedsResync(Head(pending))
  /\ pending' = Tail(pending)
  /\ gap' = TRUE
  /\ BeginResync
  /\ pc' = "handle"
  /\ UNCHANGED <<exchangeVars, wire, link, bookVars, incoming, outVars>>

(* ... after the last one the boundary is published.                       *)
ReplayEnd ==
  /\ pc = "replay" /\ pending = <<>>
  /\ view' = book
  /\ quality' = "Healthy"
  /\ state' = "Live"
  /\ pc' = "handle"
  /\ UNCHANGED <<exchangeVars, wire, link, bookVars, reply, pending, gap, incoming>>

(* take_gap, after a diff was handled.                                     *)
TakeGap(detected) ==
  IF Linear
  THEN gap' = FALSE /\ quality' = IF detected THEN "Gap" ELSE quality
  ELSE gap' = detected /\ UNCHANGED quality

HandleOtherText ==
  /\ pc = "handle" /\ incoming = NoDiff
  /\ pc' = "idle"
  /\ UNCHANGED <<exchangeVars, wire, link, bookVars, syncVars, incoming, outVars>>

HandleText ==
  /\ pc = "handle" /\ incoming # NoDiff
  /\ pc' = "idle" /\ incoming' = NoDiff
  /\ UNCHANGED <<exchangeVars, wire, link>>

(* Mutant: the queue grows without bound.                                  *)
MutantQueueDiff ==
  /\ HandleText
  /\ Waiting
  /\ pending' = Append(pending, incoming)
  /\ TakeGap(gap)
  /\ UNCHANGED <<bookVars, state, reply, view>>

(* queue_pending_diff: a full queue loses its oldest diff.                 *)
QueueDiff ==
  /\ HandleText
  /\ Waiting
  /\ pending' = Append(IF Len(pending) = MaxPending THEN Tail(pending) ELSE pending,
                       incoming)
  /\ TakeGap(gap)
  /\ UNCHANGED <<bookVars, state, reply, view>>

(* on_live_diff *)
LiveSkip ==
  /\ HandleText
  /\ ~Waiting /\ Skips(incoming)
  /\ TakeGap(gap)
  /\ UNCHANGED <<bookVars, state, reply, pending, view>>

LiveApply ==
  /\ HandleText
  /\ ~Waiting /\ Applies(incoming)
  /\ Apply(incoming)
  /\ view' = IF Linear THEN view \cup (incoming.prev + 1)..incoming.final ELSE view
  /\ TakeGap(gap)
  /\ UNCHANGED <<state, reply, pending>>

(* Mutant: a gap in the live stream is not flagged.                        *)
MutantLiveGap ==
  /\ HandleText
  /\ ~Waiting /\ NeedsResync(incoming)
  /\ pending' = <<incoming>>
  /\ prevId' = 0
  /\ BeginResync
  /\ TakeGap(gap)
  /\ UNCHANGED <<book, lastUpdateId, view>>

LiveGap ==
  /\ HandleText
  /\ ~Waiting /\ NeedsResync(incoming)
  /\ pending' = <<incoming>>
  /\ prevId' = 0
  /\ BeginResync
  /\ TakeGap(TRUE)
  /\ UNCHANGED <<book, lastUpdateId, view>>

-----------------------------------------------------------------------------
Step ==
  \/ ReplayDiff \/ ReplayGap \/ ReplayEnd
  \/ HandleOtherText \/ QueueDiff \/ LiveSkip \/ LiveApply \/ LiveGap

Texts == {NoDiff} \cup {wire[i] : i \in 1..Len(wire)}

Text == \E t \in Texts : OnText(t) \/ OnTextSnapshotFailed(t) \/ OnTextSnapshot(t)

Next ==
  \/ \E first, final \in Ids, sent \in BOOLEAN : ExchangeUpdate(first, final, sent)
  \/ \E s \in Ids : SnapshotReply(s)
  \/ Connect \/ Disconnect \/ Text \/ Step

Spec == Init /\ [][Next]_vars

(* Texts keep coming while the link is up (a silent one is closed by the   *)
(* heartbeat), on_text runs to its end, and a snapshot request ends.       *)
FairSpec ==
  /\ Spec
  /\ WF_vars(Text) /\ WF_vars(Step)
  /\ WF_vars(\E s \in Ids : SnapshotReply(s))

-----------------------------------------------------------------------------
(* Properties *)

TypeOK ==
  /\ market \in Markets
  /\ exchangeId \in 1..MaxUpdate
  /\ wire \in Seq(Diff) /\ Len(wire) <= MaxWire
  /\ link \in {"up", "down"}
  /\ state \in {"WaitingSnapshot", "Live"}
  /\ reply \in NoReply..MaxUpdate
  /\ prevId \in Ids
  /\ pending \in Seq(Diff) /\ Len(pending) <= MaxPending
  /\ book \subseteq 1..MaxUpdate
  /\ lastUpdateId \in Ids
  /\ gap \in BOOLEAN
  /\ pc \in {"idle", "replay", "handle"}
  /\ incoming \in Diff
  /\ view \subseteq 1..MaxUpdate
  /\ quality \in {"None", "Synchronizing", "Healthy", "Gap", "Reconnect"}

(* The local book has every update of the exchange up to its id and none   *)
(* after it, whatever was lost, queued, dropped from the queue or skipped, *)
(* and however old the snapshot is.                                        *)
BookIsExact == book = 1..lastUpdateId

(* A subscriber of the order flow of a perpetual that was last told        *)
(* "Healthy" has built the same book from its boundary and deltas, at      *)
(* every point of a gap, a resync, a failed replay or a reconnect.         *)
HealthyViewIsBook == Linear /\ quality = "Healthy" => ~Waiting /\ view = book

(* A resync comes to an end: by a book that is live again or by giving up  *)
(* the connection.                                                         *)
ResyncEnds == Waiting /\ link = "up" ~> ~Waiting \/ link = "down"
=============================================================================
