------------------------------- MODULE WsSession -------------------------------
(***************************************************************************)
(* A websocket session (WsSession::run and WsConnection::run in            *)
(* src/exchange/src/adapter/ws.rs): a task that connects for ever, with    *)
(* growing delays; an I/O task per connection that reads frames, answers   *)
(* and sends pings and gives a silent server up; the adapter of a stream,  *)
(* which turns texts into events at once or, for trades, in batches; and   *)
(* the bounded channel to the application, which drops what finds no room. *)
(*                                                                         *)
(* Time advances in units; the I/O task keeps its deadlines, the session   *)
(* task and the application may be late.                                   *)
(***************************************************************************)
EXTENDS Heartbeat, Sequences

CONSTANTS
  Adapters,      \* [policy, buffered]: heartbeat_policy, and whether the
                 \* adapter collects trades until on_tick
  InitialDelay,  \* ReconnectBackoff::INITIAL
  MaxDelay,      \* ReconnectBackoff::MAX
  StableAfter,   \* STABLE_THRESHOLD
  Capacity,      \* of the event channel
  AnswerWithin,  \* a server that is alive answers a ping
  SpeaksEvery,   \* a server that is alive sends its own pings
  MaxTrades,     \* bound on the trades of the market
  MaxFaults      \* bound on what goes wrong

(* What makes a policy reasonable: a server that is alive can answer, or   *)
(* speak, before the connection gives it up.                               *)
Reasonable(p) ==
  \/ /\ p.kind = "Periodic"
     /\ p.every \in Nat /\ p.silence \in Nat
     /\ p.every + AnswerWithin < p.silence
  \/ /\ p.kind = "AfterIdle"
     /\ p.idle \in Nat /\ p.response \in Nat
     /\ AnswerWithin < p.response
  \/ /\ p.kind = "ServerDriven"
     /\ p.silence \in Nat
     /\ SpeaksEvery < p.silence

ASSUME WsSessionAssumption ==
  /\ \A a \in Adapters : Reasonable(a.policy)
  /\ InitialDelay \in Nat \ {0}
  /\ MaxDelay \in Nat /\ InitialDelay <= MaxDelay
  /\ StableAfter \in Nat
  /\ Capacity \in Nat \ {0}
  /\ AnswerWithin \in Nat
  /\ SpeaksEvery \in Nat
  /\ MaxTrades \in Nat
  /\ MaxFaults \in Nat

VARIABLES
  adapter,   \* which adapter runs (fixed)
  mode,      \* of the session task
  sleep,     \* time left of the delay before the next attempt
  delay,     \* ReconnectBackoff.current
  age,       \* of the connection, up to StableAfter
  stable,    \* is_stable
  gotData,   \* data_received
  io,        \* the I/O task
  beat,      \* its heartbeat
  frames,    \* frames on the way from it to the session task
  buffer,    \* TradeBuffer
  channel,   \* events on the way to the application
  talks,     \* the server is alive
  asked,     \* how long it owes the answer to a ping, or Nothing
  made,      \* trades of the market so far, connected or not
  faults,    \* how much went wrong (bound)
  view,      \* what the application has been told (history)
  dropped    \* kinds of events that found no room (history)

sessionVars == <<mode, sleep, delay, age, stable, gotData>>
ioVars      == <<io, beat, talks, asked>>
outVars     == <<channel, dropped>>
vars == <<adapter, sessionVars, ioVars, outVars, frames, buffer, made, faults, view>>

policy == adapter.policy

Nothing == -1

Notice(kind) == [kind |-> kind, trades |-> {}]

TradesReceived(trades) == [kind |-> "Trades", trades |-> trades]

Frame(kind, trade) == [kind |-> kind, trade |-> trade]

Init ==
  /\ adapter \in Adapters
  /\ mode = "Connecting"
  /\ sleep = 0
  /\ delay = InitialDelay
  /\ age = 0
  /\ stable = FALSE
  /\ gotData = FALSE
  /\ io = "None"
  /\ beat = NewBeat(policy)
  /\ frames = <<>>
  /\ buffer = {}
  /\ channel = <<>>
  /\ talks = FALSE
  /\ asked = Nothing
  /\ made = 0
  /\ faults = 0
  /\ view = [up |-> FALSE, last |-> 0, warned |-> TRUE, hole |-> FALSE,
             outside |-> FALSE, missed |-> FALSE]
  /\ dropped = {}

Fault ==
  /\ faults < MaxFaults
  /\ faults' = faults + 1

-----------------------------------------------------------------------------
(* The event channel *)

(* event_tx.send with its result ignored.                                  *)
Send(event) ==
  IF Len(channel) < Capacity
    THEN channel' = Append(channel, event) /\ UNCHANGED dropped
    ELSE dropped' = dropped \cup {event.kind} /\ UNCHANGED channel

(* flush: all buffered trades in one event, or no event.                   *)
Flush ==
  /\ buffer' = {}
  /\ IF buffer = {} THEN UNCHANGED outVars ELSE Send(TradesReceived(buffer))

(* A notice of connection or disconnection; "missed" remembers that the    *)
(* last one was dropped.                                                   *)
Tell(kind) ==
  /\ Send(Notice(kind))
  /\ view' = [view EXCEPT !.missed = Len(channel) >= Capacity]

-----------------------------------------------------------------------------
(* The delay between attempts *)

Doubled(d) == Min({2 * d, MaxDelay})

(* delay(): a quarter more or less, but not over the cap.                  *)
Jittered(d) == ((3 * d) \div 4)..Min({(5 * d + 3) \div 4, MaxDelay})

SleepFor(d) ==
  /\ mode' = "Sleeping"
  /\ sleep' \in Jittered(d)

-----------------------------------------------------------------------------
(* The session task *)

ConnectFails ==
  /\ mode = "Connecting"
  /\ Fault
  /\ Tell("Disconnected")
  /\ SleepFor(delay)
  /\ delay' = Doubled(delay)
  /\ UNCHANGED <<adapter, age, stable, gotData, ioVars, frames, buffer, made>>

(* The I/O task is started, and on_connected flushes.                      *)
ConnectSucceeds ==
  /\ mode = "Connecting"
  /\ mode' = "Greeting"
  /\ io' = "Running"
  /\ beat' = NewBeat(policy)
  /\ talks' = TRUE
  /\ asked' = Nothing
  /\ frames' = <<>>
  /\ age' = 0
  /\ stable' = FALSE
  /\ gotData' = FALSE
  /\ Flush
  /\ UNCHANGED <<adapter, sleep, delay, made, faults, view>>

Greet ==
  /\ mode = "Greeting"
  /\ mode' = "Up"
  /\ Tell("Connected")
  /\ UNCHANGED <<adapter, sleep, delay, age, stable, gotData, ioVars, frames,
                 buffer, made, faults>>

(* tick_sleep.                                                             *)
OnTick ==
  /\ mode = "Up"
  /\ buffer # {}
  /\ Flush
  /\ UNCHANGED <<adapter, mode, sleep, delay, age, stable, gotData, ioVars, frames,
                 made, faults, view>>

(* Mutant: on_disconnected leaves the trades in the buffer.                *)
MutantLeave ==
  /\ mode' = "Leaving"
  /\ io' = "None"
  /\ frames' = <<>>
  /\ delay' = IF gotData THEN delay ELSE Doubled(delay)
  /\ UNCHANGED <<adapter, sleep, age, stable, gotData, beat, talks, asked, outVars,
                 buffer, made, faults, view>>

(* The connection is over: the I/O task goes with the frames it still had, *)
(* the delay grows unless a text had brought events, and on_disconnected   *)
(* hands out what the adapter holds.                                       *)
Leave ==
  /\ mode' = "Leaving"
  /\ io' = "None"
  /\ frames' = <<>>
  /\ delay' = IF gotData THEN delay ELSE Doubled(delay)
  /\ Flush
  /\ UNCHANGED <<adapter, sleep, age, stable, gotData, beat, talks, asked, made,
                 faults, view>>

(* Mutant: events of a text do not count as data.                          *)
MutantBrings == FALSE

(* on_text of a trade adapter only collects; the others return events,     *)
(* and only then has the connection brought data (had_events).             *)
Brings == ~adapter.buffered

(* Mutant: the trade of a text is only kept if nothing else waits.         *)
MutantCollected(trade) == IF buffer = {} THEN {trade} ELSE buffer

Collected(trade) == buffer \cup {trade}

OnText(trade) ==
  /\ frames' = Tail(frames)
  /\ IF adapter.buffered THEN buffer' = Collected(trade) /\ UNCHANGED outVars
     ELSE Send(TradesReceived({trade})) /\ UNCHANGED buffer
  /\ gotData' = (gotData \/ Brings)
  /\ delay' = IF Brings THEN InitialDelay ELSE delay
  /\ UNCHANGED <<adapter, mode, sleep, age, stable, ioVars, made, faults, view>>

(* A frame; the loop that drains up to 256 more is a repetition of this.   *)
OnFrame ==
  /\ mode = "Up"
  /\ frames # <<>>
  /\ IF Head(frames).kind = "trade" THEN OnText(Head(frames).trade) ELSE Leave

(* The I/O task is gone without a word.                                    *)
OnIoGone ==
  /\ mode = "Up"
  /\ frames = <<>>
  /\ io = "Done"
  /\ Leave

OnStable ==
  /\ mode = "Up"
  /\ ~stable
  /\ age >= StableAfter
  /\ stable' = TRUE
  /\ delay' = InitialDelay
  /\ UNCHANGED <<adapter, mode, sleep, age, gotData, ioVars, outVars, frames,
                 buffer, made, faults, view>>

(* Mutant: nothing is said when an attempt follows at once.                *)
MutantAnnounce ==
  /\ mode = "Leaving"
  /\ IF delay = InitialDelay THEN UNCHANGED <<outVars, view>> ELSE Tell("Disconnected")
  /\ SleepFor(delay)
  /\ UNCHANGED <<adapter, delay, age, stable, gotData, ioVars, frames, buffer,
                 made, faults>>

(* The notice that ends every connection, and the delay.                   *)
Announce ==
  /\ mode = "Leaving"
  /\ Tell("Disconnected")
  /\ SleepFor(delay)
  /\ UNCHANGED <<adapter, delay, age, stable, gotData, ioVars, frames, buffer,
                 made, faults>>

Wake ==
  /\ mode = "Sleeping"
  /\ sleep = 0
  /\ mode' = "Connecting"
  /\ UNCHANGED <<adapter, sleep, delay, age, stable, gotData, ioVars, outVars,
                 frames, buffer, made, faults, view>>

-----------------------------------------------------------------------------
(* The I/O task *)

(* A ping that falls due is written, and the server owes an answer.        *)
Beaten(b, owed) ==
  IF DeadlineAction(policy, b) = "SendPing"
    THEN beat' = PingSent(policy, b) /\ asked' = IF owed = Nothing THEN 0 ELSE owed
    ELSE beat' = b /\ asked' = owed

(* After every frame a ping that fell due meanwhile is sent.               *)
Read(owed) ==
  /\ io = "Running"
  /\ talks
  /\ Beaten(MarkActivity(beat), owed)
  /\ UNCHANGED <<adapter, sessionVars, outVars, buffer, io, talks, view>>

(* A text with a trade.                                                    *)
ReadTrade ==
  /\ made < MaxTrades
  /\ made' = made + 1
  /\ frames' = Append(frames, Frame("trade", made'))
  /\ Read(asked)
  /\ UNCHANGED faults

(* An answer to a ping, or a ping of the server: frames without data.      *)
ReadQuiet == Read(Nothing) /\ UNCHANGED <<frames, made, faults>>

(* A text that the adapter rejects.                                        *)
ReadBad ==
  /\ Fault
  /\ frames' = Append(frames, Frame("bad", 0))
  /\ Read(asked)
  /\ UNCHANGED made

IoEnds(last) ==
  /\ io' = "Done"
  /\ talks' = FALSE
  /\ frames' = frames \o last
  /\ UNCHANGED <<adapter, sessionVars, outVars, beat, asked, buffer, made, view>>

(* A deadline of the heartbeat has come.                                   *)
AtDeadline ==
  /\ io = "Running"
  /\ NextDeadline(policy, beat) <= 0
  /\ IF DeadlineAction(policy, beat) = "Timeout"
       THEN IoEnds(<<Frame("error", 0)>>) /\ UNCHANGED faults
       ELSE /\ Beaten(beat, asked)
            /\ UNCHANGED <<adapter, sessionVars, outVars, frames, buffer, made, faults,
                           view, io, talks>>

(* A close frame, a failed read or a failed write; or a panic, which says  *)
(* nothing.                                                                *)
Breaks ==
  /\ io = "Running"
  /\ Fault
  /\ \E last \in {<<>>, <<Frame("error", 0)>>} : IoEnds(last)

(* The server says no more, and nothing tells the connection.              *)
GoesSilent ==
  /\ io = "Running"
  /\ talks
  /\ Fault
  /\ talks' = FALSE
  /\ UNCHANGED <<adapter, sessionVars, io, beat, asked, outVars, frames, buffer, made,
                 view>>

-----------------------------------------------------------------------------
(* The rest of the world *)

(* A trade that no connection reports.                                     *)
TradeUnseen ==
  /\ ~talks
  /\ made < MaxTrades
  /\ made' = made + 1
  /\ UNCHANGED <<adapter, sessionVars, ioVars, outVars, frames, buffer, faults, view>>

(* What a server that is alive does not leave undone.                      *)
ServerIsPrompt ==
  /\ asked = Nothing \/ asked < AnswerWithin
  /\ policy.kind = "ServerDriven" => beat.silent < SpeaksEvery

Tick ==
  /\ mode = "Sleeping" => sleep > 0
  /\ io = "Running" => NextDeadline(policy, beat) > 0
  /\ io = "Running" /\ talks => ServerIsPrompt
  /\ sleep' = IF mode = "Sleeping" THEN sleep - 1 ELSE sleep
  /\ age' = IF mode = "Up" THEN Min({age + 1, StableAfter}) ELSE age
  /\ beat' = IF io = "Running" THEN Later(policy, beat) ELSE beat
  /\ asked' = IF asked = Nothing THEN asked ELSE Min({asked + 1, AnswerWithin})
  /\ UNCHANGED <<adapter, mode, delay, stable, gotData, io, talks, outVars,
                 frames, buffer, made, faults, view>>

(* The application takes an event and compares the trades with the last    *)
(* one it has: is one missing, without a notice in between?                *)
Told(event) ==
  CASE event.kind = "Connected" -> [view EXCEPT !.up = TRUE]
    [] event.kind = "Disconnected" -> [view EXCEPT !.up = FALSE, !.warned = TRUE]
    [] event.kind = "Trades" ->
         [view EXCEPT !.last = Max(event.trades),
            !.warned = FALSE,
            !.outside = @ \/ ~view.up,
            !.hole = @ \/ (~view.warned
                              /\ ~(((view.last + 1)..Max(event.trades)) \subseteq event.trades))]

Receive ==
  /\ channel # <<>>
  /\ channel' = Tail(channel)
  /\ view' = Told(Head(channel))
  /\ UNCHANGED <<adapter, sessionVars, ioVars, dropped, frames, buffer, made, faults>>

-----------------------------------------------------------------------------
Session == \/ ConnectFails \/ ConnectSucceeds \/ Greet \/ OnTick \/ OnFrame \/ OnIoGone
           \/ OnStable \/ Announce \/ Wake

Io == ReadTrade \/ ReadQuiet \/ ReadBad \/ AtDeadline \/ Breaks \/ GoesSilent

Next == Session \/ Io \/ TradeUnseen \/ Tick \/ Receive

(* Tasks that can run do, time passes, and of infinitely many attempts to  *)
(* connect one succeeds.                                                   *)
Fairness ==
  /\ WF_vars(Greet \/ OnFrame \/ OnIoGone \/ Announce \/ Wake)
  /\ WF_vars(AtDeadline)
  /\ WF_vars(Tick)
  /\ WF_vars(ReadQuiet)
  /\ SF_vars(ConnectSucceeds)

Spec == Init /\ [][Next]_vars

FairSpec == Spec /\ Fairness

-----------------------------------------------------------------------------
(* Properties *)

(* Every variable has its type, and the tasks agree on what there is: no   *)
(* I/O task but of a live connection, no buffered trade without one.       *)
TypeOK ==
  /\ adapter \in Adapters
  /\ mode \in {"Connecting", "Greeting", "Up", "Leaving", "Sleeping"}
  /\ sleep \in 0..MaxDelay
  /\ delay \in InitialDelay..MaxDelay
  /\ age \in 0..StableAfter
  /\ io \in {"None", "Running", "Done"}
  /\ io # "None" <=> mode \in {"Greeting", "Up"}
  /\ beat \in Beats
  /\ \A i \in DOMAIN frames : frames[i].kind \in {"trade", "bad", "error"}
  /\ buffer \subseteq 1..made
  /\ buffer # {} => mode = "Up" /\ adapter.buffered
  /\ Len(channel) <= Capacity
  /\ asked \in {Nothing} \cup 0..AnswerWithin

(* A silent server is noticed in time, under every policy: no connection   *)
(* is silent longer than its limit, and a deadline that has come is never  *)
(* answered with more waiting (ws.rs:552-630).                             *)
SilenceIsNoticed ==
  io = "Running" =>
    /\ beat.silent <= Limit(policy)
    /\ NextDeadline(policy, beat) <= 0 => DeadlineAction(policy, beat) # "Wait"

(* A server that answers pings, or sends its own, is never given up as     *)
(* dead, however little it has to say and whatever frames and pings cross. *)
LivingIsKept ==
  io = "Running" /\ talks => DeadlineAction(policy, beat) # "Timeout"

(* What the application will believe when it has read its events is true,  *)
(* unless the last notice found the channel full.                          *)
Believed ==
  \/ \E i \in DOMAIN channel :
       /\ channel[i].kind = "Connected"
       /\ \A j \in DOMAIN channel : j > i => channel[j].kind = "Trades"
  \/ view.up /\ \A i \in DOMAIN channel : channel[i].kind = "Trades"

BeliefIsTrue == ~view.missed => (Believed <=> mode \in {"Up", "Leaving"})

(* The application never skips a trade without having been told of a       *)
(* disconnection in between - on which it repairs the gap - unless the     *)
(* channel was full (ws.rs:260, 283, 299).                                 *)
NoSilentLoss == view.hole => dropped \cap {"Trades", "Disconnected"} # {}

(* Trades of a connection come between its two notices: those that were in *)
(* the buffer when it ended are not delivered with the next one.           *)
TradesWhileConnected == view.outside => "Connected" \in dropped

(* A connection whose server died, noticed or not, is replaced in the end. *)
DeadIsReplaced == (mode = "Up" /\ ~talks) ~> (mode = "Up" /\ talks)
=============================================================================
