------------------------------ MODULE Reconnect ------------------------------
(***************************************************************************)
(* What the application does when connections break and return: websocket  *)
(* sessions that come and go, the events they queue for the user           *)
(* interface, and its two answers to them (src/main.rs) - the connection   *)
(* state of module Connectivity and the repair of module Backfill.         *)
(*                                                                         *)
(* A session carries a group of streams.  It is replaced, without a word,  *)
(* when the dashboard's panes ask for other streams of that group.  Events *)
(* of one session arrive in order, those of several in any order, and all  *)
(* of them late.                                                           *)
(***************************************************************************)
EXTENDS Connectivity, Backfill

CONSTANTS
  Sessions,
  Carries,     \* Carries[g]: the streams that session g may carry
  Basic,       \* streams the panes ask for from the beginning
  OwnRanges,   \* what a chart may fetch by itself: pairs <<from, to>>
  Faults,      \* kinds of faults that happen
  MaxFaults,   \* bound on them
  MaxInbox     \* bound on the events under way from one session

ASSUME ReconnectAssumption ==
  /\ Carries \in [Sessions -> SUBSET Streams]
  /\ \A s \in Streams : \E g \in Sessions : s \in Carries[g]
  /\ \A g, h \in Sessions : g # h => Carries[g] \cap Carries[h] = {}
  /\ TradeStreams \subseteq Streams
  /\ Basic \subseteq Streams
  /\ \A p \in Panes : StreamOf[p] \in Basic
  /\ OwnRanges \subseteq Moments \X Moments
  /\ MaxFaults \in Nat
  /\ MaxInbox \in Nat

VARIABLES
  now,
  wanted,     \* configured_market_streams
  link,       \* link[g]: the session is connected
  inbox,      \* inbox[g]: its events under way
  net,        \* market_connectivity
  silent,     \* silent[g]: down since it was started, unannounced (history)
  faults      \* how many faults there have been (bound)

worldVars == <<now, wanted, link, inbox, net, silent, faults>>
vars == <<worldVars, dashVars>>

SessionOf(s) == CHOOSE g \in Sessions : s \in Carries[g]

Carried(g) == Carries[g] \cap wanted

Event(kind, streams, m) == [kind |-> kind, streams |-> streams, at |-> m]

Init ==
  /\ now = 0
  /\ wanted = Basic
  /\ link = [g \in Sessions |-> FALSE]
  /\ inbox = [g \in Sessions |-> <<>>]
  /\ net = NewConnectivity
  /\ silent = [g \in Sessions |-> TRUE]
  /\ faults = 0
  /\ BackfillInit

-----------------------------------------------------------------------------
(* Sessions *)

Fault(kind) ==
  /\ kind \in Faults
  /\ faults < MaxFaults
  /\ faults' = faults + 1

Send(g, event) ==
  /\ Len(inbox[g]) < MaxInbox
  /\ inbox' = [inbox EXCEPT ![g] = Append(@, event)]

(* The session is up: its streams are announced.                           *)
Connect(g) ==
  /\ ~link[g]
  /\ Carried(g) # {}
  /\ link' = [link EXCEPT ![g] = TRUE]
  /\ silent' = [silent EXCEPT ![g] = FALSE]
  /\ Send(g, Event("Connected", Carried(g), now))
  /\ UNCHANGED <<now, wanted, net, faults, dashVars>>

(* It breaks, or an attempt to connect fails: either is announced.         *)
Break(g) ==
  /\ Fault(IF link[g] THEN "break" ELSE "connect")
  /\ Carried(g) # {}
  /\ link' = [link EXCEPT ![g] = FALSE]
  /\ silent' = [silent EXCEPT ![g] = FALSE]
  /\ Send(g, Event("Disconnected", Carried(g), now))
  /\ UNCHANGED <<now, wanted, net, dashVars>>

(* What is lost with events that are not delivered: their trades, and the  *)
(* gap after a break that nobody hears of.                                 *)
LostWith(events) ==
  UNION {IF e.kind = "Trades" THEN {e.at}
         ELSE IF e.kind = "Disconnected" THEN (e.at + 1)..now
         ELSE {} : e \in ToSet(events)}

(* Another pane is opened or closed: the session of its stream is dropped  *)
(* with the events it still holds and a new one is started.                *)
Resubscribe(s) ==
  /\ Fault("resubscribe")
  /\ s \notin Basic
  /\ LET g == SessionOf(s)
     IN  /\ wanted' = IF s \in wanted THEN wanted \ {s} ELSE wanted \cup {s}
         /\ link' = [link EXCEPT ![g] = FALSE]
         /\ silent' = [silent EXCEPT ![g] = TRUE]
         /\ \E kept \in 0..Len(inbox[g]) :
              /\ inbox' = [inbox EXCEPT ![g] = SubSeq(@, 1, kept)]
              /\ GiveUp({p \in Panes : StreamOf[p] \in Carries[g]},
                        LostWith(SubSeq(inbox[g], kept + 1, Len(inbox[g]))))
  /\ UNCHANGED <<now, net, lastLive, gaps, reserved, jobs, charts, lapsed>>

TradesUnderWay(g, s) ==
  {inbox[g][i].at : i \in {k \in DOMAIN inbox[g] :
                             inbox[g][k].kind = "Trades" /\ s \in inbox[g][k].streams}}

(* Nothing live has been seen yet: what is missed then is not a gap.       *)
NeverLive(s) == lastLive[s] = NoMoment /\ TradesUnderWay(SessionOf(s), s) = {}

(* Time passes; every trade stream that is up brings the trade of the new  *)
(* moment.                                                                 *)
Advance ==
  /\ now < LastMoment
  /\ now' = now + 1
  /\ LET busy(g) == now' \in Traded /\ link[g] /\ Carried(g) \cap TradeStreams # {}
         lost(s) == /\ now' \in Traded
                    /\ ~link[SessionOf(s)]
                    /\ silent[SessionOf(s)] \/ NeverLive(s)
     IN  /\ \A g \in Sessions : busy(g) => Len(inbox[g]) < MaxInbox
         /\ inbox' = [g \in Sessions |->
              IF busy(g)
                THEN Append(inbox[g], Event("Trades", Carried(g) \cap TradeStreams, now'))
                ELSE inbox[g]]
         /\ GiveUp({p \in Panes : lost(StreamOf[p])}, {now'})
  /\ UNCHANGED <<wanted, link, net, silent, faults,
                 lastLive, gaps, reserved, jobs, charts, lapsed>>

-----------------------------------------------------------------------------
(* Messages of the application *)

(* apply_connectivity_transition, after the state has been evaluated.      *)
Apply(before) ==
  /\ net' = Evaluated(before, now)
  /\ IF Transition(before, now) = "Restored" THEN Execute(now, FALSE)
     ELSE UNCHANGED dashVars

Received(g, kind) ==
  /\ inbox[g] # <<>>
  /\ Head(inbox[g]).kind = kind
  /\ inbox' = [inbox EXCEPT ![g] = Tail(@)]

OnConnected(g) ==
  /\ Received(g, "Connected")
  /\ Apply(WithConnected(net, Head(inbox[g]).streams))
  /\ UNCHANGED <<now, wanted, link, silent, faults>>

(* The streams are missing now, so this evaluation never restores.         *)
OnDisconnected(g) ==
  LET streams == Head(inbox[g]).streams
  IN  /\ Received(g, "Disconnected")
      /\ RecordGaps(streams)
      /\ net' = Evaluated(WithDisconnected(net, streams), now)
      /\ UNCHANGED <<now, wanted, link, silent, faults>>

(* One batch per stream, here of one trade stream each.                    *)
OnTrades(g) ==
  /\ inbox[g] # <<>>
  /\ Head(inbox[g]).kind = "Trades"
  /\ \E s \in Head(inbox[g]).streams :
       /\ Ingest(s, Head(inbox[g]).at)
       /\ inbox' = IF Head(inbox[g]).streams = {s}
                     THEN [inbox EXCEPT ![g] = Tail(@)]
                     ELSE [inbox EXCEPT ![g][1].streams = @ \ {s}]
  /\ UNCHANGED <<now, wanted, link, net, silent, faults>>

(* Message::Tick: the state is brought in line with the panes, and once    *)
(* more evaluated if that changed nothing; the dashboard's own tick is     *)
(* left out while the overlay is up.                                       *)
UiTick ==
  LET synced   == Expecting(net, wanted)
      after    == Evaluated(synced, now)
      first    == Transition(synced, now)
      restored == \/ first = "Restored"
                  \/ first = "None" /\ Transition(after, now) = "Restored"
  IN  /\ net' = IF first = "None" THEN Evaluated(after, now) ELSE after
      /\ IF restored THEN Execute(now, TRUE)
         ELSE IF net'.phase = "Offline" THEN UNCHANGED dashVars
         ELSE HandleCleanup
      /\ UNCHANGED <<now, wanted, link, inbox, silent, faults>>

(* Workers report: in batches, and in the end with success, with a tail    *)
(* they did not traverse, or with an error.                                *)
OnBatch(j) ==
  /\ \E m \in Moments : Deliver(j, m)
  /\ UNCHANGED worldVars

OnCompleted(j) ==
  /\ IF ((j.upTo + 1)..Current(j).to) \cap Traded = {} THEN UNCHANGED faults
     ELSE Fault("tail")
  /\ Completed(j)
  /\ UNCHANGED <<now, wanted, link, inbox, net, silent>>

OnFailed(j) ==
  /\ Fault("failed")
  /\ Failed(j)
  /\ UNCHANGED <<now, wanted, link, inbox, net, silent>>

OnOwnFetch(p) ==
  /\ Fault("own")
  /\ \E r \in OwnRanges : r[2] <= now /\ OwnFetch(p, r[1], r[2])
  /\ UNCHANGED <<now, wanted, link, inbox, net, silent>>

OnClearCache ==
  /\ Fault("clear")
  /\ ClearCache
  /\ UNCHANGED <<now, wanted, link, inbox, net, silent>>

-----------------------------------------------------------------------------
Next ==
  \/ Advance
  \/ \E g \in Sessions : \/ Connect(g) \/ Break(g)
                         \/ OnConnected(g) \/ OnDisconnected(g) \/ OnTrades(g)
  \/ \E s \in Streams : Resubscribe(s)
  \/ UiTick
  \/ \E j \in jobs : OnBatch(j) \/ OnCompleted(j) \/ OnFailed(j)
  \/ \E p \in Panes : OnOwnFetch(p)
  \/ OnClearCache

Spec == Init /\ [][Next]_vars

-----------------------------------------------------------------------------
(* Properties *)

(* Every variable has its type; a gap begins no later than the last live   *)
(* trade, reservations and the chunks of the workers lie in the past, and  *)
(* a worker stands within its current chunk.                               *)
TypeOK ==
  /\ now \in Moments
  /\ wanted \in SUBSET Streams
  /\ link \in [Sessions -> BOOLEAN]
  /\ net \in ConnectivityType
  /\ lastLive \in [TradeStreams -> Moments \cup {NoMoment}]
  /\ gaps \in [TradeStreams -> Moments \cup {NoMoment}]
  /\ \A s \in TradeStreams : gaps[s] <= lastLive[s]
  /\ \A r \in reserved : r.from <= r.to /\ r.to <= r.born /\ r.born <= now
  /\ \A j \in jobs : /\ j.chunks # <<>> /\ j.panes # {}
                     /\ \A c \in ToSet(j.chunks) : c.from <= c.to /\ c.to <= j.born
                     /\ j.upTo \in (Current(j).from - 1)..Current(j).to
  /\ \A p \in Panes : charts[p].loaded \subseteq Traded

(* The break of s that is under way, and what will be noted as missed.     *)
Announced(g, s) ==
  {m \in Moments : \E i \in DOMAIN inbox[g] :
     LET seen == {lastLive[s]} \cup
           {inbox[g][k].at : k \in {n \in 1..(i - 1) :
              inbox[g][n].kind = "Trades" /\ s \in inbox[g][n].streams}}
     IN  /\ inbox[g][i].kind = "Disconnected"
         /\ s \in inbox[g][i].streams
         /\ seen # {NoMoment}
         /\ m > Max(seen)}

Noted(s) == IF gaps[s] = NoMoment THEN {} ELSE (gaps[s] + 1)..LastMoment

(* A trade missed in any order of breaks and returns is not forgotten: it  *)
(* is loaded, on its way, in a gap that is noted or about to be, or being  *)
(* downloaded - or one of the cases of "left" applies to it.               *)
MissedIsRemembered ==
  \A p \in Panes : LET s == StreamOf[p] g == SessionOf(s) IN
    Traded \cap (1..now) \subseteq
      charts[p].loaded \cup left[p] \cup TradesUnderWay(g, s) \cup Announced(g, s)
        \cup Noted(s) \cup Remaining(p, jobs)

(* A stream that counts as connected is so, or the news of its break is    *)
(* under way, or its session has just been replaced.                       *)
ConnectedIsTrue ==
  \A s \in net.connected \cap wanted :
    LET g == SessionOf(s) IN
      \/ link[g]
      \/ silent[g]
      \/ \E i \in DOMAIN inbox[g] : inbox[g][i].kind = "Disconnected"

(* What is reserved is being worked on; otherwise it could not be repaired *)
(* again before it expires.                                                *)
ReservedIsWorkedOn ==
  \A r \in reserved : \E j \in jobs :
    j.stream = r.stream /\ \E c \in ToSet(j.chunks) : c.from = r.from /\ c.to = r.to

(* Two chains of workers do not download the same trades, unless the       *)
(* reservation of one of the two ranges has expired.  (Once it has, a      *)
(* range may be under way twice; the older worker then releases, by stream *)
(* and bounds, what protected the younger one.)                            *)
NoDoubleRepair ==
  \A i, j \in jobs : i # j /\ i.stream = j.stream =>
    \A c \in ToSet(i.chunks), d \in ToSet(j.chunks) :
      Span(c) \cap Span(d) # {} =>
        RangeOf(i.stream, c) \in lapsed \/ RangeOf(j.stream, d) \in lapsed

(* The overlay tells the truth about the streams the events told of: no    *)
(* "online" with one of them missing, and "offline" only after one was     *)
(* missing for the whole grace (market_service.rs:127-157).                *)
OverlayIsTrue ==
  /\ net.phase = "Online" => Complete(net) /\ ~net.hadDisconnect
  /\ net.phase = "Offline" => ~Complete(net) /\ now - net.since >= Grace

(* No false alarm: whatever faults there were and in whatever order their  *)
(* events came, once every session the panes need is up and its events     *)
(* have been handled, the next tick takes the overlay down; no stream of a *)
(* closed pane, and no replaced session, keeps it up.                      *)
NoFalseAlarm ==
  (\A g \in Sessions : Carried(g) # {} => link[g] /\ inbox[g] = <<>>)
    => Evaluated(Expecting(net, wanted), now).phase = "Online"

(* Nothing is under way and everything is connected.                       *)
Quiet ==
  /\ jobs = {}
  /\ net.phase = "Online"
  /\ \A g \in Sessions : link[g] /\ inbox[g] = <<>>
  /\ \A s \in TradeStreams : gaps[s] = NoMoment

(* The doc of backfill_disconnected_streams (dashboard.rs:2879): "This     *)
(* recovers the complete offline interval without launching a burst of     *)
(* concurrent REST calls or silently dropping older data."  So a chart has *)
(* no hole behind its first trade when all is quiet again.  The code skips *)
(* a chunk as a whole when a part of it is reserved (dashboard.rs:3077).   *)
OfflineIsRecovered ==
  Quiet => \A p \in Panes : \A m \in charts[p].loaded :
             Traded \cap (m..now) \subseteq charts[p].loaded
=============================================================================
