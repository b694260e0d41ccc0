---------------------------- MODULE ReconnectProofs ----------------------------
(***************************************************************************)
(* Proofs about module Reconnect.                                          *)
(*                                                                         *)
(* First the connection state the user sees (module Connectivity): it      *)
(* tells the truth about the events it was given, it believes a stream     *)
(* connected only if it is or the news is on its way, and it comes back    *)
(* online by itself (invariant ReconnectInv).                              *)
(*                                                                         *)
(* Then the repair (module Backfill): the planner, each operation of the   *)
(* dashboard (invariant DashInv, step property NothingForgotten), what the *)
(* queues of the sessions still bring, and all of it together (invariant   *)
(* RepairInv): what a pane missed is accounted for or on its way.          *)
(***************************************************************************)
EXTENDS Reconnect, SequenceTheorems, TradeRangesProofs, TLAPS

-----------------------------------------------------------------------------
(* The overlay *)

(* An overlay that is up was put up after the grace.                       *)
Shown(n, t) ==
  /\ n \in ConnectivityType
  /\ n.phase = "Offline" => n.since # None /\ t - n.since >= Grace

OverlayInv ==
  /\ now \in Nat
  /\ wanted \subseteq Streams
  /\ Shown(net, now)
  /\ net.phase = "Online" => Complete(net) /\ ~net.hadDisconnect
  /\ net.phase = "Offline" => ~Complete(net)

LEMMA NetFields ==
  ASSUME NEW n \in ConnectivityType
  PROVE  /\ n.expected \subseteq Streams /\ n.connected \subseteq Streams
         /\ n.phase \in Phases /\ n.since \in Nat \cup {None}
         /\ n.hadDisconnect \in BOOLEAN
BY DEF ConnectivityType

(* Whatever is evaluated becomes true and keeps its streams.               *)
LEMMA EvaluatedIsTrue ==
  ASSUME NEW t \in Nat, NEW n, Shown(n, t)
  PROVE  /\ Shown(Evaluated(n, t), t)
         /\ Evaluated(n, t).phase = "Online"
              => Complete(Evaluated(n, t)) /\ ~Evaluated(n, t).hadDisconnect
         /\ Evaluated(n, t).phase = "Offline" => ~Complete(Evaluated(n, t))
         /\ Evaluated(n, t).connected = n.connected
         /\ Evaluated(n, t).expected = n.expected
         /\ Complete(n) => Evaluated(n, t).phase = "Online"
<1> DEFINE r == Evaluated(n, t)
<1>1. n \in ConnectivityType /\ Grace \in Nat /\ None = -1
  BY ConnectivityAssumption DEF Shown, None
<1>2. CASE Complete(n)
  <2>1. r = [n EXCEPT !.since = None, !.phase = "Online", !.hadDisconnect = FALSE]
    BY <1>2 DEF Evaluated
  <2>2. /\ r.expected = n.expected /\ r.connected = n.connected
        /\ r.phase = "Online" /\ ~r.hadDisconnect
        /\ r \in ConnectivityType
    BY <1>1, <2>1 DEF ConnectivityType, Phases
  <2> HIDE DEF r
  <2>3. Complete(r) /\ "Online" # "Offline"
    BY <1>2, <2>2 DEF Complete
  <2>4. QED
    BY <2>2, <2>3 DEF r, Shown
<1>3. CASE ~Complete(n)
  <2> DEFINE s == Since(n, t)
             up == n.phase = "Offline" \/ GraceElapsed(n, t)
  <2>1. r = [n EXCEPT !.since = s, !.phase = IF up THEN "Offline" ELSE "Connecting"]
    BY <1>1, <1>3 DEF Evaluated, ConnectivityType
  <2>2. s \in Nat /\ n.since \in Nat \cup {None}
    BY <1>1 DEF Since, ConnectivityType
  <2>3. up => t - s >= Grace
    BY <1>1, <2>2 DEF Shown, GraceElapsed, Since
  <2> HIDE DEF s, up
  <2>4. /\ r.expected = n.expected /\ r.connected = n.connected
        /\ r.since = s /\ r.phase = IF up THEN "Offline" ELSE "Connecting"
        /\ r \in ConnectivityType
    BY <1>1, <2>1, <2>2 DEF ConnectivityType, Phases
  <2> HIDE DEF r
  <2>5. ~Complete(r) /\ s # None /\ r.phase # "Online"
    BY <1>1, <1>3, <2>2, <2>4 DEF Complete
  <2>6. Shown(r, t)
    BY <2>3, <2>4, <2>5 DEF Shown
  <2>7. QED
    BY <1>3, <2>4, <2>5, <2>6 DEF r
<1>4. QED
  BY <1>2, <1>3

(* What the methods do before they evaluate leaves the overlay as it is.   *)
LEMMA PreparedIsShown ==
  ASSUME NEW t \in Nat, NEW n, Shown(n, t), NEW S \in SUBSET Streams
  PROVE  /\ Shown(Expecting(n, S), t)
         /\ Expecting(n, S).connected = n.connected \cap S
         /\ Expecting(n, S).expected = S
         /\ Shown(WithDisconnected(n, S), t)
         /\ WithDisconnected(n, S).connected = n.connected \ S
<1>1. n \in ConnectivityType
  BY DEF Shown
<1>2. /\ Expecting(n, S) \in ConnectivityType
      /\ Expecting(n, S).connected = n.connected \cap S
      /\ Expecting(n, S).expected = S
      /\ Expecting(n, S).phase = n.phase /\ Expecting(n, S).since = n.since
  BY <1>1 DEF Expecting, ConnectivityType
<1>3. (n.hadDisconnect \/ n.phase = "Online") \in BOOLEAN
  OBVIOUS
<1>4. /\ WithDisconnected(n, S) \in ConnectivityType
      /\ WithDisconnected(n, S).connected = n.connected \ S
      /\ WithDisconnected(n, S).phase = n.phase /\ WithDisconnected(n, S).since = n.since
  BY <1>1, <1>3 DEF WithDisconnected, ConnectivityType
<1>5. QED
  BY <1>2, <1>4 DEF Shown

LEMMA ConnectingIsShown ==
  ASSUME NEW t \in Nat, NEW n, Shown(n, t), NEW S \in SUBSET Streams
  PROVE  /\ Shown(WithConnected(n, S), t)
         /\ WithConnected(n, S).connected = n.connected \cup S
<1>1. n \in ConnectivityType
  BY DEF Shown
<1>2. /\ WithConnected(n, S) \in ConnectivityType
      /\ WithConnected(n, S).connected = n.connected \cup S
      /\ WithConnected(n, S).phase = n.phase /\ WithConnected(n, S).since = n.since
  BY <1>1 DEF WithConnected, ConnectivityType
<1>3. QED
  BY <1>2 DEF Shown

-----------------------------------------------------------------------------
(* Events under way *)

Kinds == {"Connected", "Disconnected", "Trades"}

Events(g) == [kind : Kinds, streams : SUBSET Carries[g], at : Nat]

TellsUp(e, s) == e.kind = "Connected" /\ s \in e.streams
TellsDown(e, s) == e.kind = "Disconnected" /\ s \in e.streams

(* Is stream s believed up once the events of ch are handled, if "up" now? *)
Ends(ch, up, s) ==
  \/ \E k \in 1..Len(ch) : /\ TellsUp(ch[k], s)
                           /\ \A j \in (k + 1)..Len(ch) : ~TellsDown(ch[j], s)
  \/ up /\ \A j \in 1..Len(ch) : ~TellsDown(ch[j], s)

LEMMA NotBoth == \A e, s : ~(TellsUp(e, s) /\ TellsDown(e, s))
<1>1. "Connected" # "Disconnected"
  OBVIOUS
<1>2. QED
  BY <1>1 DEF TellsUp, TellsDown

LEMMA EndsEmpty ==
  ASSUME NEW up \in BOOLEAN, NEW s
  PROVE  Ends(<<>>, up, s) <=> up
BY DEF Ends

LEMMA EndsSame ==
  ASSUME NEW ch, NEW other, NEW up \in BOOLEAN, NEW s,
         Len(other) = Len(ch), Len(ch) \in Nat,
         \A i \in 1..Len(ch) : /\ TellsUp(other[i], s) <=> TellsUp(ch[i], s)
                               /\ TellsDown(other[i], s) <=> TellsDown(ch[i], s)
  PROVE  Ends(other, up, s) <=> Ends(ch, up, s)
<1>1. \A k \in 1..Len(ch) : \A j \in (k + 1)..Len(ch) : j \in 1..Len(ch)
  OBVIOUS
<1>2. QED
  BY <1>1 DEF Ends

(* The last event decides ...                                              *)
LEMMA EndsAppend ==
  ASSUME NEW T, NEW ch \in Seq(T), NEW e \in T, NEW up \in BOOLEAN, NEW s
  PROVE  Ends(Append(ch, e), up, s)
           <=> (TellsUp(e, s) \/ (~TellsDown(e, s) /\ Ends(ch, up, s)))
<1> DEFINE more == Append(ch, e)
           n == Len(ch)
<1>1. /\ n \in Nat /\ Len(more) = n + 1
      /\ \A j \in 1..n : more[j] = ch[j]
      /\ more[n + 1] = e
  BY AppendProperties
<1> HIDE DEF more, n
<1>2. ASSUME TellsUp(e, s)
      PROVE  Ends(more, up, s)
  <2>1. n + 1 \in 1..(n + 1) /\ \A j \in ((n + 1) + 1)..(n + 1) : FALSE
    BY <1>1
  <2>2. QED
    BY <1>1, <1>2, <2>1 DEF Ends
<1>3. ASSUME ~TellsDown(e, s), Ends(ch, up, s)
      PROVE  Ends(more, up, s)
  <2>1. \A j \in 1..(n + 1) : j \in 1..n \/ j = n + 1
    BY <1>1
  <2>2. CASE \E k \in 1..n : /\ TellsUp(ch[k], s)
                             /\ \A j \in (k + 1)..n : ~TellsDown(ch[j], s)
    <3>1. PICK k \in 1..n : /\ TellsUp(ch[k], s)
                            /\ \A j \in (k + 1)..n : ~TellsDown(ch[j], s)
      BY <2>2
    <3>2. k \in 1..(n + 1) /\ TellsUp(more[k], s)
      BY <1>1, <3>1
    <3>3. ASSUME NEW j \in (k + 1)..(n + 1)
          PROVE  ~TellsDown(more[j], s)
      <4>1. j \in (k + 1)..n \/ j = n + 1
        BY <1>1
      <4>2. (k + 1)..n \subseteq 1..n
        BY <1>1
      <4>3. QED
        BY <1>1, <1>3, <3>1, <4>1, <4>2
    <3>4. QED
      BY <1>1, <3>2, <3>3 DEF Ends
  <2>3. CASE up /\ \A j \in 1..n : ~TellsDown(ch[j], s)
    <3>1. \A j \in 1..(n + 1) : ~TellsDown(more[j], s)
      BY <1>1, <1>3, <2>1, <2>3
    <3>2. QED
      BY <1>1, <2>3, <3>1 DEF Ends
  <2>4. QED
    BY <1>3, <2>2, <2>3 DEF Ends, n
<1>4. ASSUME Ends(more, up, s), ~TellsUp(e, s)
      PROVE  ~TellsDown(e, s) /\ Ends(ch, up, s)
  <2>1. CASE \E k \in 1..(n + 1) : /\ TellsUp(more[k], s)
                                   /\ \A j \in (k + 1)..(n + 1) : ~TellsDown(more[j], s)
    <3>1. PICK k \in 1..(n + 1) : /\ TellsUp(more[k], s)
                                  /\ \A j \in (k + 1)..(n + 1) : ~TellsDown(more[j], s)
      BY <2>1
    <3>2. k \in 1..n
      BY <1>1, <1>4, <3>1
    <3>3. n + 1 \in (k + 1)..(n + 1)
      BY <1>1, <3>2
    <3>4. \A j \in (k + 1)..n : j \in (k + 1)..(n + 1) /\ j \in 1..n
      BY <1>1, <3>2
    <3>5. \A j \in (k + 1)..n : ~TellsDown(ch[j], s)
      BY <1>1, <3>1, <3>4
    <3>6. TellsUp(ch[k], s)
      BY <1>1, <3>1, <3>2
    <3>7. QED
      BY <1>1, <3>1, <3>2, <3>3, <3>5, <3>6 DEF Ends, n
  <2>2. CASE up /\ \A j \in 1..(n + 1) : ~TellsDown(more[j], s)
    <3>1. n + 1 \in 1..(n + 1) /\ \A j \in 1..n : j \in 1..(n + 1)
      BY <1>1
    <3>2. up /\ ~TellsDown(e, s) /\ \A j \in 1..n : ~TellsDown(ch[j], s)
      BY <1>1, <2>2, <3>1
    <3>3. QED
      BY <3>2 DEF Ends, n
  <2>3. QED
    BY <1>1, <1>4, <2>1, <2>2 DEF Ends
<1>5. QED
  BY <1>2, <1>3, <1>4, NotBoth DEF more

(* ... and handling the first one changes nothing in the end.              *)
LEMMA EndsTail ==
  ASSUME NEW T, NEW ch \in Seq(T), ch # <<>>, NEW up \in BOOLEAN, NEW next \in BOOLEAN,
         NEW s,
         next <=> (TellsUp(Head(ch), s) \/ (~TellsDown(Head(ch), s) /\ up))
  PROVE  Ends(Tail(ch), next, s) <=> Ends(ch, up, s)
<1> DEFINE rest == Tail(ch)
           n == Len(ch)
<1>1. /\ n \in Nat \ {0} /\ Len(rest) = n - 1
      /\ \A j \in 1..(n - 1) : rest[j] = ch[j + 1]
      /\ Head(ch) = ch[1]
  BY HeadTailProperties
<1> HIDE DEF rest, n
<1>2. ASSUME Ends(rest, next, s)
      PROVE  Ends(ch, up, s)
  <2>1. CASE \E k \in 1..(n - 1) : /\ TellsUp(rest[k], s)
                                   /\ \A j \in (k + 1)..(n - 1) : ~TellsDown(rest[j], s)
    <3>1. PICK k \in 1..(n - 1) : /\ TellsUp(rest[k], s)
                                  /\ \A j \in (k + 1)..(n - 1) : ~TellsDown(rest[j], s)
      BY <2>1
    <3>2. k + 1 \in 1..n /\ TellsUp(ch[k + 1], s)
      BY <1>1, <3>1
    <3>3. ASSUME NEW j \in ((k + 1) + 1)..n
          PROVE  ~TellsDown(ch[j], s)
      <4>1. j - 1 \in (k + 1)..(n - 1) /\ j - 1 \in 1..(n - 1) /\ (j - 1) + 1 = j
        BY <1>1
      <4>2. QED
        BY <1>1, <3>1, <4>1
    <3>4. QED
      BY <3>2, <3>3 DEF Ends, n
  <2>2. CASE next /\ \A j \in 1..(n - 1) : ~TellsDown(rest[j], s)
    <3>1. ASSUME NEW j \in 2..n
          PROVE  ~TellsDown(ch[j], s)
      <4>1. j - 1 \in 1..(n - 1) /\ (j - 1) + 1 = j
        BY <1>1
      <4>2. QED
        BY <1>1, <2>2, <4>1
    <3>2. CASE TellsUp(ch[1], s)
      <4>1. 1 \in 1..n /\ 1 + 1 = 2
        BY <1>1
      <4>2. QED
        BY <3>1, <3>2, <4>1 DEF Ends, n
    <3>3. CASE ~TellsUp(ch[1], s)
      <4>1. up /\ ~TellsDown(ch[1], s)
        BY <1>1, <2>2, <3>3
      <4>2. \A j \in 1..n : j = 1 \/ j \in 2..n
        BY <1>1
      <4>3. QED
        BY <3>1, <4>1, <4>2 DEF Ends, n
    <3>4. QED
      BY <3>2, <3>3
  <2>3. QED
    BY <1>1, <1>2, <2>1, <2>2 DEF Ends
<1>3. ASSUME Ends(ch, up, s)
      PROVE  Ends(rest, next, s)
  <2>1. CASE \E k \in 1..n : /\ TellsUp(ch[k], s)
                             /\ \A j \in (k + 1)..n : ~TellsDown(ch[j], s)
    <3>1. PICK k \in 1..n : /\ TellsUp(ch[k], s)
                            /\ \A j \in (k + 1)..n : ~TellsDown(ch[j], s)
      BY <2>1
    <3>2. ASSUME NEW j \in k..(n - 1)
          PROVE  ~TellsDown(rest[j], s)
      <4>1. j + 1 \in (k + 1)..n /\ j \in 1..(n - 1)
        BY <1>1
      <4>2. QED
        BY <1>1, <3>1, <4>1
    <3>3. CASE k = 1
      <4>1. next
        BY <1>1, <3>1, <3>3
      <4>2. QED
        BY <1>1, <3>2, <3>3, <4>1 DEF Ends
    <3>4. CASE k # 1
      <4>1. k - 1 \in 1..(n - 1) /\ (k - 1) + 1 = k
        BY <1>1, <3>4
      <4>2. TellsUp(rest[k - 1], s)
        BY <1>1, <3>1, <4>1
      <4>3. QED
        BY <1>1, <3>2, <4>1, <4>2 DEF Ends
    <3>5. QED
      BY <3>3, <3>4
  <2>2. CASE up /\ \A j \in 1..n : ~TellsDown(ch[j], s)
    <3>1. 1 \in 1..n
      BY <1>1
    <3>2. next
      BY <1>1, <2>2, <3>1
    <3>3. ASSUME NEW j \in 1..(n - 1)
          PROVE  ~TellsDown(rest[j], s)
      <4>1. j + 1 \in 1..n
        BY <1>1
      <4>2. QED
        BY <1>1, <2>2, <4>1
    <3>4. QED
      BY <1>1, <3>2, <3>3 DEF Ends
  <2>3. QED
    BY <1>3, <2>1, <2>2 DEF Ends, n
<1>4. QED
  BY <1>2, <1>3 DEF rest

-----------------------------------------------------------------------------
(* The invariant *)

(* A session that has said anything since it was started has told the      *)
(* truth: once its events are handled, the streams it carries are believed *)
(* up exactly when it is.                                                  *)
Truthful(g, up, quiet, ch, W, C) ==
  /\ up \in BOOLEAN /\ quiet \in BOOLEAN
  /\ ch \in Seq(Events(g))
  /\ up => ~quiet
  /\ ~quiet => \A s \in Carries[g] \cap W : up <=> Ends(ch, s \in C, s)

LinkInv ==
  /\ DOMAIN link = Sessions /\ DOMAIN silent = Sessions /\ DOMAIN inbox = Sessions
  /\ \A g \in Sessions : Truthful(g, link[g], silent[g], inbox[g], wanted, net.connected)

ReconnectInv == OverlayInv /\ LinkInv

LEMMA SessionsApart ==
  /\ \A s \in Streams : SessionOf(s) \in Sessions /\ s \in Carries[SessionOf(s)]
  /\ \A g \in Sessions : Carries[g] \subseteq Streams
  /\ \A g, h \in Sessions : g # h => \A s \in Carries[g] : s \notin Carries[h]
<1>1. /\ Carries \in [Sessions -> SUBSET Streams]
      /\ \A s \in Streams : \E g \in Sessions : s \in Carries[g]
      /\ \A g, h \in Sessions : g # h => Carries[g] \cap Carries[h] = {}
  BY ReconnectAssumption
<1>2. QED
  BY <1>1 DEF SessionOf

(* What a step of session g may do to the others: nothing.                 *)
LEMMA OthersTruthful ==
  ASSUME LinkInv, NEW g \in Sessions, NEW h \in Sessions, h # g, NEW W, NEW C,
         \A s \in Carries[h] : /\ s \in W <=> s \in wanted
                               /\ s \in W => (s \in C <=> s \in net.connected)
  PROVE  Truthful(h, link[h], silent[h], inbox[h], W, C)
<1>1. Truthful(h, link[h], silent[h], inbox[h], wanted, net.connected)
  BY DEF LinkInv
<1>2. \A s \in Carries[h] \cap W : s \in wanted /\ (s \in C) = (s \in net.connected)
  OBVIOUS
<1>3. \A s \in Carries[h] \cap W : Ends(inbox[h], s \in C, s)
                                     <=> Ends(inbox[h], s \in net.connected, s)
  BY <1>2
<1>4. QED
  BY <1>1, <1>2, <1>3 DEF Truthful

LEMMA EventFields ==
  ASSUME NEW g, NEW e \in Events(g)
  PROVE  e.kind \in Kinds /\ e.streams \subseteq Carries[g] /\ e.at \in Nat
BY DEF Events

(* The session says how it is.                                             *)
LEMMA SayingIsTruthful ==
  ASSUME NEW g \in Sessions, NEW ch \in Seq(Events(g)), NEW W, NEW C, NEW t \in Nat,
         NEW up \in BOOLEAN
  PROVE  Truthful(g, up, FALSE,
                  Append(ch, Event(IF up THEN "Connected" ELSE "Disconnected",
                                   Carries[g] \cap W, t)), W, C)
<1> DEFINE e == Event(IF up THEN "Connected" ELSE "Disconnected", Carries[g] \cap W, t)
<1>1. e \in Events(g)
  BY DEF Event, Events, Kinds
<1>2. \A s \in Carries[g] \cap W : TellsUp(e, s) = up /\ TellsDown(e, s) = ~up
  BY DEF Event, TellsUp, TellsDown
<1> HIDE DEF e
<1>3. Append(ch, e) \in Seq(Events(g))
  BY <1>1, AppendProperties
<1>4. ASSUME NEW s \in Carries[g] \cap W
      PROVE  up <=> Ends(Append(ch, e), s \in C, s)
  <2>1. (s \in C) \in BOOLEAN
    OBVIOUS
  <2>2. Ends(Append(ch, e), s \in C, s)
          <=> (TellsUp(e, s) \/ (~TellsDown(e, s) /\ Ends(ch, s \in C, s)))
    BY <1>1, <2>1, EndsAppend
  <2>3. QED
    BY <1>2, <2>2
<1>5. Truthful(g, up, FALSE, Append(ch, e), W, C)
  BY <1>3, <1>4 DEF Truthful
<1>6. QED
  BY <1>5 DEF e

(* The application handles its first event.                                *)
LEMMA HandlingIsTruthful ==
  ASSUME NEW g \in Sessions, NEW up, NEW quiet, NEW ch, NEW W, NEW C, NEW D,
         Truthful(g, up, quiet, ch, W, C), ch # <<>>,
         \A s \in Carries[g] \cap W :
           s \in D <=> (TellsUp(Head(ch), s) \/ (~TellsDown(Head(ch), s) /\ s \in C))
  PROVE  Truthful(g, up, quiet, Tail(ch), W, D)
<1>1. ch \in Seq(Events(g))
  BY DEF Truthful
<1>2. Tail(ch) \in Seq(Events(g))
  BY <1>1, HeadTailProperties
<1>3. ASSUME NEW s \in Carries[g] \cap W
      PROVE  Ends(Tail(ch), s \in D, s) <=> Ends(ch, s \in C, s)
  <2>1. (s \in C) \in BOOLEAN /\ (s \in D) \in BOOLEAN
    OBVIOUS
  <2>2. QED
    BY <1>1, <2>1, EndsTail
<1>4. QED
  BY <1>2, <1>3 DEF Truthful

(* Trades change nothing.                                                  *)
LEMMA TradesSayNothing ==
  ASSUME NEW e, e.kind = "Trades", NEW s
  PROVE  ~TellsUp(e, s) /\ ~TellsDown(e, s)
BY DEF TellsUp, TellsDown

-----------------------------------------------------------------------------
(* Every step keeps the invariant *)

LEMMA OverlayKept ==
  ASSUME OverlayInv, net' = net, wanted' \subseteq Streams, now' \in Nat, now' >= now
  PROVE  OverlayInv'
<1>1. /\ Grace \in Nat /\ now \in Nat
      /\ net.since # None => net.since \in Nat
  BY ConnectivityAssumption DEF OverlayInv, Shown, ConnectivityType
<1>2. net.phase = "Offline" => now' - net.since >= Grace
  BY <1>1 DEF OverlayInv, Shown
<1>3. Shown(net, now')
  BY <1>2 DEF OverlayInv, Shown
<1>4. QED
  BY <1>3 DEF OverlayInv, Complete, Shown

LEMMA OverlayEvaluated ==
  ASSUME OverlayInv, NEW n, Shown(n, now), net' = Evaluated(n, now),
         UNCHANGED <<now, wanted>>
  PROVE  OverlayInv' /\ net'.connected = n.connected
<1>1. now \in Nat
  BY DEF OverlayInv
<1>2. /\ Shown(net', now)
      /\ net'.phase = "Online" => Complete(net') /\ ~net'.hadDisconnect
      /\ net'.phase = "Offline" => ~Complete(net')
      /\ net'.connected = n.connected
  BY <1>1, EvaluatedIsTrue
<1>3. QED
  BY <1>1, <1>2 DEF OverlayInv

LEMMA InvInit == Init => ReconnectInv
<1> SUFFICES ASSUME Init
             PROVE  ReconnectInv
  OBVIOUS
<1>1. /\ net = NewConnectivity /\ now = 0 /\ wanted \subseteq Streams
  BY ReconnectAssumption DEF Init
<1>2. net \in ConnectivityType /\ net.phase = "Connecting"
  BY <1>1 DEF NewConnectivity, ConnectivityType, Phases
<1>3. OverlayInv
  BY <1>1, <1>2 DEF OverlayInv, Shown
<1>4. \A g \in Sessions : link[g] = FALSE /\ silent[g] = TRUE /\ inbox[g] = <<>>
  BY DEF Init
<1>5. \A g \in Sessions : <<>> \in Seq(Events(g))
  OBVIOUS
<1>6. LinkInv
  BY <1>4, <1>5 DEF LinkInv, Truthful, Init
<1>7. QED
  BY <1>3, <1>6 DEF ReconnectInv

(* A step of session g alone, as far as the links go.                      *)
LEMMA OneSession ==
  ASSUME LinkInv, NEW g \in Sessions,
         DOMAIN link' = Sessions, DOMAIN silent' = Sessions, DOMAIN inbox' = Sessions,
         \A h \in Sessions \ {g} :
           /\ link'[h] = link[h] /\ silent'[h] = silent[h] /\ inbox'[h] = inbox[h]
           /\ \A s \in Carries[h] : /\ s \in wanted' <=> s \in wanted
                                    /\ s \in net'.connected <=> s \in net.connected,
         Truthful(g, link'[g], silent'[g], inbox'[g], wanted', net'.connected)
  PROVE  LinkInv'
<1>1. ASSUME NEW h \in Sessions, h # g
      PROVE  Truthful(h, link'[h], silent'[h], inbox'[h], wanted', net'.connected)
  <2>1. Truthful(h, link[h], silent[h], inbox[h], wanted', net'.connected)
    BY <1>1, OthersTruthful
  <2>2. QED
    BY <1>1, <2>1
<1>2. QED
  BY <1>1 DEF LinkInv

LEMMA ConnectTruthful ==
  ASSUME ReconnectInv, NEW g \in Sessions, Connect(g)
  PROVE  ReconnectInv'
<1>1. /\ now \in Nat /\ net' = net /\ now' = now /\ wanted' = wanted /\ OverlayInv
      /\ wanted \subseteq Streams
  BY DEF ReconnectInv, OverlayInv, Connect
<1>2. OverlayInv'
  BY <1>1, OverlayKept
<1>3. LinkInv /\ inbox[g] \in Seq(Events(g))
  BY DEF ReconnectInv, LinkInv, Truthful
<1>4. /\ link' = [link EXCEPT ![g] = TRUE]
      /\ silent' = [silent EXCEPT ![g] = FALSE]
      /\ inbox' = [inbox EXCEPT ![g] =
                     Append(@, Event("Connected", Carries[g] \cap wanted, now))]
  BY DEF Connect, Send, Carried
<1>5. Truthful(g, TRUE, FALSE,
               Append(inbox[g], Event("Connected", Carries[g] \cap wanted, now)),
               wanted, net.connected)
  <2>1. Truthful(g, TRUE, FALSE,
                 Append(inbox[g], Event(IF TRUE THEN "Connected" ELSE "Disconnected",
                                        Carries[g] \cap wanted, now)),
                 wanted, net.connected)
    BY <1>1, <1>3, SayingIsTruthful
  <2>2. QED
    BY <2>1
<1>6. LinkInv'
  BY <1>1, <1>3, <1>4, <1>5, OneSession DEF LinkInv
<1>7. QED
  BY <1>2, <1>6 DEF ReconnectInv

LEMMA BreakTruthful ==
  ASSUME ReconnectInv, NEW g \in Sessions, Break(g)
  PROVE  ReconnectInv'
<1>1. /\ now \in Nat /\ net' = net /\ now' = now /\ wanted' = wanted /\ OverlayInv
      /\ wanted \subseteq Streams
  BY DEF ReconnectInv, OverlayInv, Break
<1>2. OverlayInv'
  BY <1>1, OverlayKept
<1>3. LinkInv /\ inbox[g] \in Seq(Events(g))
  BY DEF ReconnectInv, LinkInv, Truthful
<1>4. /\ link' = [link EXCEPT ![g] = FALSE]
      /\ silent' = [silent EXCEPT ![g] = FALSE]
      /\ inbox' = [inbox EXCEPT ![g] =
                     Append(@, Event("Disconnected", Carries[g] \cap wanted, now))]
  BY DEF Break, Send, Carried
<1>5. Truthful(g, FALSE, FALSE,
               Append(inbox[g], Event("Disconnected", Carries[g] \cap wanted, now)),
               wanted, net.connected)
  <2>1. Truthful(g, FALSE, FALSE,
                 Append(inbox[g], Event(IF FALSE THEN "Connected" ELSE "Disconnected",
                                        Carries[g] \cap wanted, now)),
                 wanted, net.connected)
    BY <1>1, <1>3, SayingIsTruthful
  <2>2. QED
    BY <2>1
<1>6. LinkInv'
  BY <1>1, <1>3, <1>4, <1>5, OneSession DEF LinkInv
<1>7. QED
  BY <1>2, <1>6 DEF ReconnectInv

LEMMA ResubscribeTruthful ==
  ASSUME ReconnectInv, NEW s \in Streams, Resubscribe(s)
  PROVE  ReconnectInv'
<1> DEFINE g == SessionOf(s)
<1>1. g \in Sessions /\ s \in Carries[g]
  BY SessionsApart
<1>2. /\ now \in Nat /\ net' = net /\ now' = now /\ OverlayInv /\ LinkInv
      /\ wanted \subseteq Streams
      /\ wanted' = IF s \in wanted THEN wanted \ {s} ELSE wanted \cup {s}
      /\ link' = [link EXCEPT ![g] = FALSE]
      /\ silent' = [silent EXCEPT ![g] = TRUE]
  BY DEF ReconnectInv, OverlayInv, Resubscribe
<1>3. PICK kept \in 0..Len(inbox[g]) : inbox' = [inbox EXCEPT ![g] = SubSeq(@, 1, kept)]
  BY DEF Resubscribe
<1> HIDE DEF g
<1>4. OverlayInv'
  BY <1>2, OverlayKept
<1>5. inbox[g] \in Seq(Events(g))
  BY <1>1, <1>2 DEF LinkInv, Truthful
<1>6. SubSeq(inbox[g], 1, kept) \in Seq(Events(g))
  <2>1. \A i \in 1..kept : inbox[g][i] \in Events(g)
    BY <1>5
  <2>2. QED
    BY <1>5, <2>1, SubSeqProperties
<1>7. Truthful(g, FALSE, TRUE, SubSeq(inbox[g], 1, kept), wanted', net.connected)
  BY <1>6 DEF Truthful
<1>8. \A h \in Sessions \ {g} : \A x \in Carries[h] : x # s
  BY <1>1, SessionsApart
<1>9. DOMAIN link = Sessions /\ DOMAIN silent = Sessions /\ DOMAIN inbox = Sessions
  BY <1>2 DEF LinkInv
<1>10. /\ DOMAIN link' = Sessions /\ DOMAIN silent' = Sessions /\ DOMAIN inbox' = Sessions
       /\ \A h \in Sessions \ {g} :
            link'[h] = link[h] /\ silent'[h] = silent[h] /\ inbox'[h] = inbox[h]
       /\ link'[g] = FALSE /\ silent'[g] = TRUE /\ inbox'[g] = SubSeq(inbox[g], 1, kept)
  BY <1>1, <1>2, <1>3, <1>9
<1>11. \A x : x # s => (x \in wanted' <=> x \in wanted)
  BY <1>2
<1>12. Truthful(g, link'[g], silent'[g], inbox'[g], wanted', net'.connected)
  BY <1>2, <1>7, <1>10
<1>13. \A h \in Sessions \ {g} : \A x \in Carries[h] :
         /\ x \in wanted' <=> x \in wanted
         /\ x \in net'.connected <=> x \in net.connected
  BY <1>2, <1>8, <1>11
<1>14. LinkInv
  BY <1>2
<1>15. LinkInv'
  BY <1>1, <1>10, <1>12, <1>13, <1>14, OneSession
<1>16. QED
  BY <1>4, <1>15 DEF ReconnectInv

LEMMA AdvanceTruthful ==
  ASSUME ReconnectInv, Advance
  PROVE  ReconnectInv'
<1> DEFINE busy(g) == now' \in Traded /\ link[g] /\ Carried(g) \cap TradeStreams # {}
           e(g) == Event("Trades", Carried(g) \cap TradeStreams, now')
<1>1. /\ now \in Nat /\ now' = now + 1 /\ wanted' = wanted /\ net' = net
      /\ link' = link /\ silent' = silent /\ OverlayInv /\ LinkInv
      /\ wanted \subseteq Streams
      /\ inbox' = [g \in Sessions |-> IF busy(g) THEN Append(inbox[g], e(g)) ELSE inbox[g]]
  BY DEF ReconnectInv, OverlayInv, Advance
<1>2. OverlayInv'
  BY <1>1, OverlayKept
<1>3. ASSUME NEW g \in Sessions
      PROVE  Truthful(g, link[g], silent[g], inbox'[g], wanted, net.connected)
  <2>1. Truthful(g, link[g], silent[g], inbox[g], wanted, net.connected)
    BY <1>1 DEF LinkInv
  <2>2. inbox[g] \in Seq(Events(g))
    BY <2>1 DEF Truthful
  <2>3. e(g) \in Events(g) /\ e(g).kind = "Trades"
    BY <1>1 DEF Events, Event, Kinds, Carried
  <2>4. inbox'[g] = IF busy(g) THEN Append(inbox[g], e(g)) ELSE inbox[g]
    BY <1>1
  <2> HIDE DEF busy, e
  <2>5. Append(inbox[g], e(g)) \in Seq(Events(g))
    BY <2>2, <2>3, AppendProperties
  <2>6. ASSUME NEW s
        PROVE  Ends(Append(inbox[g], e(g)), s \in net.connected, s)
                 <=> Ends(inbox[g], s \in net.connected, s)
    <3>1. (s \in net.connected) \in BOOLEAN
      OBVIOUS
    <3>2. ~TellsUp(e(g), s) /\ ~TellsDown(e(g), s)
      BY <2>3, TradesSayNothing
    <3>3. QED
      BY <2>2, <2>3, <3>1, <3>2, EndsAppend
  <2>7. Truthful(g, link[g], silent[g], Append(inbox[g], e(g)), wanted, net.connected)
    BY <2>1, <2>5, <2>6 DEF Truthful
  <2>8. QED
    BY <2>1, <2>4, <2>7
<1>4. DOMAIN inbox' = Sessions /\ DOMAIN link = Sessions /\ DOMAIN silent = Sessions
  BY <1>1 DEF LinkInv
<1>5. LinkInv'
  BY <1>1, <1>3, <1>4 DEF LinkInv
<1>6. QED
  BY <1>2, <1>5 DEF ReconnectInv

(* What the handlers of events have in common.                             *)
LEMMA HandledTruthful ==
  ASSUME ReconnectInv, NEW g \in Sessions, inbox[g] # <<>>,
         inbox' = [inbox EXCEPT ![g] = Tail(@)],
         UNCHANGED <<now, wanted, link, silent>>,
         OverlayInv',
         \A s \in Carries[g] \cap wanted :
           s \in net'.connected
             <=> (TellsUp(Head(inbox[g]), s)
                    \/ (~TellsDown(Head(inbox[g]), s) /\ s \in net.connected)),
         \A s : s \notin Carries[g]
           => (s \in net'.connected <=> s \in net.connected)
  PROVE  ReconnectInv'
<1>1. LinkInv /\ wanted' = wanted /\ link' = link /\ silent' = silent
  BY DEF ReconnectInv
<1>2. /\ DOMAIN link' = Sessions /\ DOMAIN silent' = Sessions /\ DOMAIN inbox' = Sessions
      /\ inbox'[g] = Tail(inbox[g])
      /\ \A h \in Sessions \ {g} : inbox'[h] = inbox[h]
  BY <1>1 DEF LinkInv
<1>3. Truthful(g, link[g], silent[g], inbox[g], wanted, net.connected)
  BY <1>1 DEF LinkInv
<1>4. Truthful(g, link[g], silent[g], Tail(inbox[g]), wanted, net'.connected)
  BY <1>3, HandlingIsTruthful
<1>5. \A h \in Sessions \ {g} : \A s \in Carries[h] : s \notin Carries[g]
  BY SessionsApart
<1>6. LinkInv'
  BY <1>1, <1>2, <1>4, <1>5, OneSession
<1>7. QED
  BY <1>6 DEF ReconnectInv

LEMMA OnConnectedTruthful ==
  ASSUME ReconnectInv, NEW g \in Sessions, OnConnected(g)
  PROVE  ReconnectInv'
<1> DEFINE e == Head(inbox[g])
           n == WithConnected(net, e.streams)
<1>1. /\ inbox[g] # <<>> /\ e.kind = "Connected"
      /\ inbox' = [inbox EXCEPT ![g] = Tail(@)]
      /\ net' = Evaluated(n, now)
      /\ UNCHANGED <<now, wanted, link, silent>>
  BY DEF OnConnected, Received, Apply
<1>2. OverlayInv /\ now \in Nat /\ Shown(net, now) /\ inbox[g] \in Seq(Events(g))
  BY DEF ReconnectInv, OverlayInv, LinkInv, Truthful
<1>3. e \in Events(g)
  BY <1>1, <1>2, HeadTailProperties
<1> HIDE DEF e
<1>4. e.streams \subseteq Carries[g] /\ e.streams \in SUBSET Streams
  BY <1>3, EventFields, SessionsApart
<1>5. Shown(n, now) /\ n.connected = net.connected \cup e.streams
  BY <1>2, <1>4, ConnectingIsShown
<1> HIDE DEF n
<1>6. OverlayInv' /\ net'.connected = net.connected \cup e.streams
  BY <1>1, <1>2, <1>5, OverlayEvaluated
<1>7. \A s : (TellsUp(e, s) <=> s \in e.streams) /\ ~TellsDown(e, s)
  BY <1>1 DEF TellsUp, TellsDown
<1>8. \A s : s \in net'.connected
              <=> (TellsUp(e, s) \/ (~TellsDown(e, s) /\ s \in net.connected))
  BY <1>6, <1>7
<1>9. \A s : s \notin Carries[g] => (s \in net'.connected <=> s \in net.connected)
  BY <1>4, <1>6
<1>10. QED
  BY <1>1, <1>6, <1>8, <1>9, HandledTruthful DEF e

LEMMA OnDisconnectedTruthful ==
  ASSUME ReconnectInv, NEW g \in Sessions, OnDisconnected(g)
  PROVE  ReconnectInv'
<1> DEFINE e == Head(inbox[g])
           n == WithDisconnected(net, e.streams)
<1>1. /\ inbox[g] # <<>> /\ e.kind = "Disconnected"
      /\ inbox' = [inbox EXCEPT ![g] = Tail(@)]
      /\ net' = Evaluated(n, now)
      /\ UNCHANGED <<now, wanted, link, silent>>
  BY DEF OnDisconnected, Received
<1>2. OverlayInv /\ now \in Nat /\ Shown(net, now) /\ inbox[g] \in Seq(Events(g))
  BY DEF ReconnectInv, OverlayInv, LinkInv, Truthful
<1>3. e \in Events(g)
  BY <1>1, <1>2, HeadTailProperties
<1> HIDE DEF e
<1>4. e.streams \subseteq Carries[g] /\ e.streams \in SUBSET Streams
  BY <1>3, EventFields, SessionsApart
<1>5. Shown(n, now) /\ n.connected = net.connected \ e.streams
  BY <1>2, <1>4, PreparedIsShown
<1> HIDE DEF n
<1>6. OverlayInv' /\ net'.connected = net.connected \ e.streams
  BY <1>1, <1>2, <1>5, OverlayEvaluated
<1>7. \A s : ~TellsUp(e, s) /\ (TellsDown(e, s) <=> s \in e.streams)
  BY <1>1 DEF TellsUp, TellsDown
<1>8. \A s : s \in net'.connected
              <=> (TellsUp(e, s) \/ (~TellsDown(e, s) /\ s \in net.connected))
  BY <1>6, <1>7
<1>9. \A s : s \notin Carries[g] => (s \in net'.connected <=> s \in net.connected)
  BY <1>4, <1>6
<1>10. QED
  BY <1>1, <1>6, <1>8, <1>9, HandledTruthful DEF e

LEMMA OnTradesTruthful ==
  ASSUME ReconnectInv, NEW g \in Sessions, OnTrades(g)
  PROVE  ReconnectInv'
<1> DEFINE ch == inbox[g]
           e == Head(ch)
<1>1. /\ ch # <<>> /\ e.kind = "Trades"
      /\ UNCHANGED <<now, wanted, link, silent, net>>
  BY DEF OnTrades
<1>2. PICK s \in e.streams :
        inbox' = IF e.streams = {s} THEN [inbox EXCEPT ![g] = Tail(@)]
                 ELSE [inbox EXCEPT ![g][1].streams = @ \ {s}]
  BY DEF OnTrades
<1>3. /\ OverlayInv /\ LinkInv /\ now \in Nat /\ wanted \subseteq Streams
      /\ ch \in Seq(Events(g))
      /\ Truthful(g, link[g], silent[g], ch, wanted, net.connected)
  BY DEF ReconnectInv, OverlayInv, LinkInv, Truthful
<1>4. OverlayInv'
  BY <1>1, <1>3, OverlayKept
<1>5. /\ Len(ch) \in Nat \ {0} /\ e = ch[1] /\ DOMAIN ch = 1..Len(ch)
      /\ \A i \in 1..Len(ch) : ch[i] \in Events(g)
  BY <1>1, <1>3, HeadTailProperties
<1>6. \A x : ~TellsUp(e, x) /\ ~TellsDown(e, x)
  BY <1>1, TradesSayNothing
<1>7. CASE e.streams = {s}
  <2>1. inbox' = [inbox EXCEPT ![g] = Tail(@)]
    BY <1>2, <1>7
  <2>2. QED
    BY <1>1, <1>4, <1>6, <2>1, HandledTruthful
<1>8. CASE e.streams # {s}
  <2> DEFINE f == [e EXCEPT !.streams = @ \ {s}]
             more == [ch EXCEPT ![1] = f]
  <2>1. inbox' = [inbox EXCEPT ![g] = more]
    BY <1>2, <1>3, <1>5, <1>8 DEF LinkInv
  <2>2. f \in Events(g) /\ f.kind = "Trades"
    BY <1>1, <1>5 DEF Events
  <2> HIDE DEF f
  <2>3. /\ more \in Seq(Events(g)) /\ Len(more) = Len(ch)
        /\ more[1] = f /\ \A i \in 1..Len(ch) : i # 1 => more[i] = ch[i]
    BY <1>3, <1>5, <2>2, ExceptSeq
  <2> HIDE DEF more
  <2>4. ASSUME NEW x
        PROVE  Ends(more, x \in net.connected, x) <=> Ends(ch, x \in net.connected, x)
    <3>1. ~TellsUp(f, x) /\ ~TellsDown(f, x)
      BY <2>2, TradesSayNothing
    <3>2. \A i \in 1..Len(ch) : /\ TellsUp(more[i], x) <=> TellsUp(ch[i], x)
                                /\ TellsDown(more[i], x) <=> TellsDown(ch[i], x)
      <4>1. ASSUME NEW i \in 1..Len(ch)
            PROVE  /\ TellsUp(more[i], x) <=> TellsUp(ch[i], x)
                   /\ TellsDown(more[i], x) <=> TellsDown(ch[i], x)
        <5>1. CASE i = 1
          <6>1. ~TellsUp(ch[1], x) /\ ~TellsDown(ch[1], x)
            BY <1>5, <1>6
          <6>2. QED
            BY <2>3, <3>1, <5>1, <6>1
        <5>2. CASE i # 1
          BY <2>3, <5>2
        <5>3. QED
          BY <5>1, <5>2
      <4>2. QED
        BY <4>1
    <3>3. (x \in net.connected) \in BOOLEAN /\ Len(ch) \in Nat
      BY <1>5
    <3>4. PICK up \in BOOLEAN : up = (x \in net.connected)
      BY <3>3
    <3>5. Ends(more, up, x) <=> Ends(ch, up, x)
      BY <2>3, <3>2, <3>3, EndsSame
    <3>6. QED
      BY <3>4, <3>5
  <2>5. Truthful(g, link[g], silent[g], more, wanted, net.connected)
    BY <1>3, <2>3, <2>4 DEF Truthful
  <2>6. LinkInv'
    BY <1>1, <1>3, <2>1, <2>5, OneSession DEF LinkInv
  <2>7. QED
    BY <1>4, <2>6 DEF ReconnectInv
<1>9. QED
  BY <1>7, <1>8

(* The links are what they were, the streams wanted keep their state.      *)
LEMMA LinksKept ==
  ASSUME LinkInv, UNCHANGED <<wanted, link, silent, inbox>>,
         \A s \in wanted : s \in net'.connected <=> s \in net.connected
  PROVE  LinkInv'
<1>1. ASSUME NEW g \in Sessions
      PROVE  Truthful(g, link[g], silent[g], inbox[g], wanted, net'.connected)
  <2>1. Truthful(g, link[g], silent[g], inbox[g], wanted, net.connected)
    BY DEF LinkInv
  <2>2. \A s \in Carries[g] \cap wanted : (s \in net'.connected) = (s \in net.connected)
    OBVIOUS
  <2>3. QED
    BY <2>1, <2>2 DEF Truthful
<1>2. QED
  BY <1>1 DEF LinkInv

LEMMA UiTickTruthful ==
  ASSUME ReconnectInv, UiTick
  PROVE  ReconnectInv'
<1> DEFINE synced == Expecting(net, wanted)
           after  == Evaluated(synced, now)
<1>1. /\ OverlayInv /\ LinkInv /\ now \in Nat /\ wanted \in SUBSET Streams
      /\ Shown(net, now)
  BY DEF ReconnectInv, OverlayInv
<1>2. UNCHANGED <<now, wanted, link, inbox, silent>>
  BY DEF UiTick
<1>3. net' = Evaluated(after, now) \/ net' = after
  BY DEF UiTick
<1>4. Shown(synced, now) /\ synced.connected = net.connected \cap wanted
  BY <1>1, PreparedIsShown
<1> HIDE DEF synced
<1>5. Shown(after, now) /\ after.connected = synced.connected
  BY <1>1, <1>4, EvaluatedIsTrue
<1>6. OverlayInv' /\ net'.connected = synced.connected
  <2>1. CASE net' = after
    BY <1>1, <1>2, <1>4, <2>1, OverlayEvaluated
  <2>2. CASE net' = Evaluated(after, now)
    <3> HIDE DEF after
    <3>1. OverlayInv' /\ net'.connected = after.connected
      BY <1>1, <1>2, <1>5, <2>2, OverlayEvaluated
    <3>2. QED
      BY <1>5, <3>1
  <2>3. QED
    BY <1>3, <2>1, <2>2
<1>7. LinkInv'
  BY <1>1, <1>2, <1>4, <1>6, LinksKept
<1>8. QED
  BY <1>6, <1>7 DEF ReconnectInv

(* The workers and the charts do not touch the connection.                 *)
LEMMA RestTruthful ==
  ASSUME ReconnectInv, UNCHANGED <<now, wanted, link, inbox, net, silent>>
  PROVE  ReconnectInv'
<1>1. now \in Nat /\ OverlayInv /\ LinkInv /\ wanted \subseteq Streams
  BY DEF ReconnectInv, OverlayInv
<1>2. OverlayInv'
  BY <1>1, OverlayKept
<1>3. LinkInv'
  BY <1>1, LinksKept
<1>4. QED
  BY <1>2, <1>3 DEF ReconnectInv

LEMMA InvNext == ReconnectInv /\ [Next]_vars => ReconnectInv'
<1> SUFFICES ASSUME ReconnectInv, [Next]_vars
             PROVE  ReconnectInv'
  OBVIOUS
<1>1. CASE Advance
  BY <1>1, AdvanceTruthful
<1>2. ASSUME NEW g \in Sessions, Connect(g)
      PROVE  ReconnectInv'
  BY <1>2, ConnectTruthful
<1>3. ASSUME NEW g \in Sessions, Break(g)
      PROVE  ReconnectInv'
  BY <1>3, BreakTruthful
<1>4. ASSUME NEW g \in Sessions, OnConnected(g)
      PROVE  ReconnectInv'
  BY <1>4, OnConnectedTruthful
<1>5. ASSUME NEW g \in Sessions, OnDisconnected(g)
      PROVE  ReconnectInv'
  BY <1>5, OnDisconnectedTruthful
<1>6. ASSUME NEW g \in Sessions, OnTrades(g)
      PROVE  ReconnectInv'
  BY <1>6, OnTradesTruthful
<1>7. ASSUME NEW s \in Streams, Resubscribe(s)
      PROVE  ReconnectInv'
  BY <1>7, ResubscribeTruthful
<1>8. CASE UiTick
  BY <1>8, UiTickTruthful
<1>9. ASSUME NEW j \in jobs, OnBatch(j) \/ OnCompleted(j) \/ OnFailed(j)
      PROVE  ReconnectInv'
  <2>1. UNCHANGED <<now, wanted, link, inbox, net, silent>>
    BY <1>9 DEF OnBatch, OnCompleted, OnFailed, worldVars
  <2>2. QED
    BY <2>1, RestTruthful
<1>10. ASSUME NEW p \in Panes, OnOwnFetch(p)
       PROVE  ReconnectInv'
  BY <1>10, RestTruthful DEF OnOwnFetch
<1>11. CASE OnClearCache
  BY <1>11, RestTruthful DEF OnClearCache
<1>12. CASE UNCHANGED vars
  BY <1>12, RestTruthful DEF vars, worldVars
<1>13. QED
  BY <1>1, <1>2, <1>3, <1>4, <1>5, <1>6, <1>7, <1>8, <1>9, <1>10, <1>11, <1>12 DEF Next

-----------------------------------------------------------------------------
(* Theorems about the overlay *)

(* The overlay follows the events it was given, and the sessions tell the  *)
(* truth, whatever breaks, returns and replacements there are.             *)
THEOREM ReconnectInvariance == Spec => []ReconnectInv
<1>1. QED
  BY InvInit, InvNext, PTL DEF Spec

(* No "online" with a stream missing, no "offline" before the grace is     *)
(* over or with every stream there.                                        *)
THEOREM OverlayTrue == Spec => []OverlayIsTrue
<1>1. ReconnectInv => OverlayIsTrue
  BY DEF ReconnectInv, OverlayInv, OverlayIsTrue, Shown
<1>2. QED
  BY <1>1, ReconnectInvariance, PTL

(* A stream believed connected is so, or was just replaced, or the news of *)
(* its break is on the way.                                                *)
THEOREM ConnectedTrue == Spec => []ConnectedIsTrue
<1>1. ReconnectInv => ConnectedIsTrue
  <2> SUFFICES ASSUME ReconnectInv, NEW s \in net.connected \cap wanted,
                      ~link[SessionOf(s)], ~silent[SessionOf(s)]
               PROVE  \E i \in DOMAIN inbox[SessionOf(s)] :
                        inbox[SessionOf(s)][i].kind = "Disconnected"
    BY DEF ConnectedIsTrue
  <2> DEFINE g == SessionOf(s)
  <2>1. s \in Streams
    BY DEF ReconnectInv, OverlayInv
  <2>2. g \in Sessions /\ s \in Carries[g]
    BY <2>1, SessionsApart
  <2> HIDE DEF g
  <2>3. Truthful(g, link[g], silent[g], inbox[g], wanted, net.connected)
    BY <2>2 DEF ReconnectInv, LinkInv
  <2>4. ~Ends(inbox[g], s \in net.connected, s) /\ inbox[g] \in Seq(Events(g))
    BY <2>2, <2>3 DEF Truthful, g
  <2>5. PICK j \in 1..Len(inbox[g]) : TellsDown(inbox[g][j], s)
    BY <2>4 DEF Ends
  <2>6. QED
    BY <2>4, <2>5 DEF TellsDown, g
<1>2. QED
  BY <1>1, ReconnectInvariance, PTL

(* When every session that is needed is up and heard, the next evaluation  *)
(* takes the overlay down.                                                 *)
THEOREM FalseAlarmEnds == Spec => []NoFalseAlarm
<1>1. ReconnectInv => NoFalseAlarm
  <2> SUFFICES ASSUME ReconnectInv,
                      \A g \in Sessions : Carried(g) # {} => link[g] /\ inbox[g] = <<>>
               PROVE  Evaluated(Expecting(net, wanted), now).phase = "Online"
    BY DEF NoFalseAlarm
  <2>1. /\ now \in Nat /\ wanted \in SUBSET Streams /\ Shown(net, now)
    BY DEF ReconnectInv, OverlayInv
  <2>2. ASSUME NEW s \in wanted
        PROVE  s \in net.connected
    <3> DEFINE g == SessionOf(s)
    <3>1. g \in Sessions /\ s \in Carries[g]
      BY <2>1, SessionsApart
    <3> HIDE DEF g
    <3>2. Carried(g) # {} /\ s \in Carries[g] \cap wanted
      BY <3>1 DEF Carried
    <3>3. link[g] /\ inbox[g] = <<>>
      BY <3>1, <3>2
    <3>4. Truthful(g, link[g], silent[g], inbox[g], wanted, net.connected)
      BY <3>1 DEF ReconnectInv, LinkInv
    <3>5. Ends(<<>>, s \in net.connected, s)
      BY <3>2, <3>3, <3>4 DEF Truthful
    <3>6. (s \in net.connected) \in BOOLEAN
      OBVIOUS
    <3>7. QED
      BY <3>5, <3>6, EndsEmpty
  <2> DEFINE n == Expecting(net, wanted)
  <2>3. /\ Shown(n, now)
        /\ n.connected = net.connected \cap wanted /\ n.expected = wanted
    BY <2>1, PreparedIsShown
  <2> HIDE DEF n
  <2>4. Complete(n)
    BY <2>2, <2>3 DEF Complete
  <2>5. Evaluated(n, now).phase = "Online"
    BY <2>1, <2>3, <2>4, EvaluatedIsTrue
  <2>6. QED
    BY <2>5 DEF n
<1>2. QED
  BY <1>1, ReconnectInvariance, PTL

-----------------------------------------------------------------------------
(* The planner *)

(* What holds at the start and is handed from each number to the next      *)
(* holds of all of them.                                                   *)
LEMMA Climb ==
  ASSUME NEW N \in Nat, NEW S, 0 \in S, \A n \in 0..(N - 1) : n \in S => n + 1 \in S
  PROVE  \A n \in 0..N : n \in S
<1> SUFFICES ASSUME {n \in 0..N : n \notin S} # {}
             PROVE  FALSE
  OBVIOUS
<1> DEFINE bad == {n \in 0..N : n \notin S}
<1>1. bad \in SUBSET (0..N) /\ bad # {} /\ 0 \in Int /\ N \in Int
  OBVIOUS
<1>2. PICK m \in bad : \A n \in bad : m <= n
  <2> HIDE DEF bad
  <2>1. QED
    BY <1>1, BoundedHasEnds
<1>3. m \in 0..N /\ m \notin S /\ m # 0
  OBVIOUS
<1>4. m - 1 \in 0..(N - 1) /\ m - 1 \in 0..N /\ (m - 1) + 1 = m
  BY <1>3
<1>5. m - 1 \notin bad
  <2> HIDE DEF bad
  <2>1. QED
    BY <1>2, <1>3
<1>6. m - 1 \in S
  BY <1>4, <1>5
<1>7. QED
  BY <1>3, <1>4, <1>6

(* A group as it is planned at moment t.                                   *)
Chunk2 == [from : Moments, to : Moments]

GroupOK(g, t) ==
  /\ g.stream \in TradeStreams
  /\ g.panes \in SUBSET Panes /\ g.panes # {}
  /\ g.from \in Moments /\ g.to \in Moments
  /\ g.from <= g.to /\ g.to <= t

LEMMA SmallerIs ==
  ASSUME NEW a \in Int, NEW b \in Int
  PROVE  /\ Min({a, b}) \in {a, b} /\ Min({a, b}) <= a /\ Min({a, b}) <= b
         /\ Max({a, b}) \in {a, b} /\ a <= Max({a, b}) /\ b <= Max({a, b})
<1>1. /\ \E m \in {a, b} : \A n \in {a, b} : m <= n
      /\ \E m \in {a, b} : \A n \in {a, b} : m >= n
  OBVIOUS
<1>2. QED
  BY <1>1 DEF Min, Max

LEMMA Division ==
  ASSUME NEW a \in Nat, NEW L \in Nat \ {0}
  PROVE  /\ a \div L \in Nat
         /\ (a \div L) * L <= a /\ a < (a \div L) * L + L
OBVIOUS

LEMMA Times ==
  ASSUME NEW L \in Nat \ {0}, NEW i \in Int, NEW k \in Int, i < k
  PROVE  i * L + L <= k * L /\ i * L \in Int /\ k * L \in Int
OBVIOUS

(* The chunks of a group follow one another without a hole.                *)
LEMMA ChunksAre ==
  ASSUME NEW t \in Moments, NEW g, GroupOK(g, t)
  PROVE  LET n == ChunkCount(g) all == Chunks(g) IN
         /\ n \in Nat /\ all \in [1..n -> Chunk2]
         /\ \A i \in 1..n : /\ all[i] \in Chunk2 /\ all[i].from <= all[i].to
                            /\ g.from <= all[i].from /\ all[i].to <= g.to
         /\ \A i, k \in 1..n : i # k => all[i] # all[k]
         /\ \A m \in g.from..g.to : \E i \in 1..n : m \in Span(all[i])
<1> DEFINE n == ChunkCount(g)
           all == Chunks(g)
           L == ChunkLength
           From(i) == ChunkFrom(g, i)
           To(i) == ChunkTo(g, i)
           d == g.to - g.from
           q == d \div L
<1>1. /\ L \in Nat \ {0} /\ LastMoment \in Nat /\ Moments = 0..LastMoment
      /\ g.from \in Nat /\ g.to \in Nat /\ g.from <= g.to /\ d \in Nat
      /\ g.from \in Moments /\ g.to \in Moments
  BY BackfillAssumption DEF Moments, GroupOK
<1>2. q \in Nat /\ q * L <= d /\ d < q * L + L /\ n = q + 1
  <2> HIDE DEF d, L
  <2>1. q \in Nat /\ q * L <= d /\ d < q * L + L
    BY <1>1, Division
  <2>2. QED
    BY <2>1 DEF ChunkCount, d, L
<1>3. all = [i \in 1..n |-> [from |-> From(i), to |-> To(i)]]
  BY DEF Chunks
<1> HIDE DEF q, n
<1>4. ASSUME NEW i \in 1..n
      PROVE  /\ From(i) \in Int /\ From(i) = g.from + (i - 1) * L
             /\ g.from <= From(i) /\ From(i) <= g.to
             /\ (i - 1) * L \in Nat
  <2>1. i - 1 \in Nat /\ i - 1 <= q
    BY <1>2
  <2>2. (i - 1) * L \in Nat /\ (i - 1) * L <= q * L
    <3>1. CASE i - 1 = q
      BY <1>1, <1>2, <3>1
    <3>2. CASE i - 1 < q
      BY <1>1, <1>2, <2>1, <3>2, Times
    <3>3. QED
      BY <1>2, <2>1, <3>1, <3>2
  <2>3. From(i) = g.from + (i - 1) * L
    BY DEF ChunkFrom
  <2>4. QED
    <3> HIDE DEF From, L
    <3>1. PICK w, z : w = (i - 1) * L /\ z = q * L
      OBVIOUS
    <3>2. w \in Nat /\ w <= z /\ z <= g.to - g.from
      BY <1>2, <2>2, <3>1 DEF d
    <3>3. From(i) = g.from + w /\ z \in Int
      BY <1>1, <1>2, <2>3, <3>1
    <3>4. From(i) \in Int /\ g.from <= From(i) /\ From(i) <= g.to
      BY <1>1, <3>2, <3>3
    <3>5. QED
      BY <2>3, <3>1, <3>2, <3>4
<1>5. ASSUME NEW i \in 1..n
      PROVE  /\ To(i) \in {g.to, From(i) + L - 1} /\ To(i) <= g.to /\ To(i) <= From(i) + L - 1
             /\ From(i) <= To(i) /\ To(i) \in Int
  <2>1. From(i) \in Int /\ From(i) <= g.to
    BY <1>4
  <2>2. To(i) = Min({g.to, From(i) + L - 1})
    BY DEF ChunkTo
  <2> HIDE DEF From, To
  <2>3. From(i) + L - 1 \in Int
    BY <1>1, <2>1
  <2>4. To(i) \in {g.to, From(i) + L - 1} /\ To(i) <= g.to /\ To(i) <= From(i) + L - 1
    <3>1. PICK b \in Int : b = From(i) + L - 1
      BY <2>3
    <3>2. To(i) = Min({g.to, b}) /\ g.to \in Int
      BY <1>1, <2>2, <3>1
    <3>3. To(i) \in {g.to, b} /\ To(i) <= g.to /\ To(i) <= b
      BY <3>2, SmallerIs
    <3>4. QED
      BY <3>1, <3>3
  <2>5. QED
    <3>1. PICK a \in Int, b \in Int : a = From(i) /\ b = To(i)
      <4>1. To(i) \in Int
        BY <1>1, <2>3, <2>4
      <4>2. QED
        BY <2>1, <4>1
    <3>2. b = g.to \/ b = a + L - 1
      BY <2>4, <3>1
    <3>3. a <= b
      <4>1. L \in Int /\ L >= 1 /\ a <= g.to
        BY <1>1, <2>1, <3>1
      <4> HIDE DEF L
      <4>2. QED
        BY <3>2, <4>1
    <3>4. QED
      BY <2>4, <3>1, <3>3
<1>6. ASSUME NEW i \in 1..n
      PROVE  /\ all[i] \in Chunk2 /\ all[i].from = From(i) /\ all[i].to = To(i)
             /\ all[i].from <= all[i].to /\ g.from <= all[i].from /\ all[i].to <= g.to
  <2>1. From(i) \in Moments /\ To(i) \in Moments
    <3> HIDE DEF From, To, L
    <3>1. /\ From(i) \in Int /\ To(i) \in Int
          /\ g.from <= From(i) /\ From(i) <= To(i) /\ To(i) <= g.to
      BY <1>4, <1>5
    <3>2. g.from \in Nat /\ g.to <= LastMoment /\ g.to \in Nat
      BY <1>1
    <3>3. QED
      BY <1>1, <3>1, <3>2
  <2> HIDE DEF From, To
  <2>2. all[i] = [from |-> From(i), to |-> To(i)]
    BY <1>3
  <2>3. all[i] \in Chunk2 /\ all[i].from = From(i) /\ all[i].to = To(i)
    BY <2>1, <2>2 DEF Chunk2
  <2>4. QED
    BY <2>3, <1>4, <1>5
<1>7. ASSUME NEW i \in 1..n, NEW k \in 1..n, i < k
      PROVE  all[i] # all[k]
  <2>1. (i - 1) * L + L <= (k - 1) * L
    BY <1>1, <1>7, <1>2, Times
  <2>2. From(i) # From(k)
    <3> HIDE DEF From
    <3>1. QED
      BY <1>1, <1>4, <2>1
  <2>3. QED
    BY <1>6, <2>2
<1>8. ASSUME NEW m \in g.from..g.to
      PROVE  \E i \in 1..n : m \in Span(all[i])
  <2> DEFINE e == m - g.from
             w == e \div L
  <2>1. e \in Nat /\ e <= d /\ m \in Int
    BY <1>1
  <2>2. w \in Nat /\ w * L <= e /\ e < w * L + L
    <3> HIDE DEF e, L
    <3>1. QED
      BY <1>1, <2>1, Division
  <2> HIDE DEF w
  <2>3. w <= q
    <3> SUFFICES ASSUME q < w
                 PROVE  FALSE
      BY <1>2, <2>2
    <3>1. q * L + L <= w * L
      BY <1>1, <1>2, <2>2, Times
    <3>2. q * L \in Int /\ w * L \in Int
      BY <1>1, <1>2, <2>2, Times
    <3> HIDE DEF L, e, d
    <3>3. PICK x \in Int, y \in Int : x = q * L /\ y = w * L
      BY <3>2
    <3>4. x + L <= y /\ d < x + L /\ y <= e /\ e <= d /\ d \in Nat /\ e \in Nat /\ L \in Nat
      BY <1>1, <1>2, <2>1, <2>2, <3>1, <3>3
    <3>5. QED
      BY <3>4
  <2>4. w + 1 \in 1..n /\ (w + 1) - 1 = w
    BY <1>2, <2>2, <2>3
  <2>5. From(w + 1) = g.from + w * L
    BY <1>4, <2>4
  <2>6. From(w + 1) <= m /\ m <= From(w + 1) + L - 1
    BY <1>1, <2>1, <2>2, <2>5
  <2>7. m <= To(w + 1)
    <3> HIDE DEF From, To
    <3>1. QED
      BY <1>1, <1>5, <2>4, <2>6
  <2>8. m \in Span(all[w + 1])
    <3> HIDE DEF From, To
    <3>1. From(w + 1) \in Int /\ To(w + 1) \in Int
      BY <1>4, <1>5, <2>4
    <3>2. all[w + 1].from = From(w + 1) /\ all[w + 1].to = To(w + 1)
      BY <1>6, <2>4
    <3>3. QED
      BY <2>1, <2>6, <2>7, <3>1, <3>2 DEF Span
  <2>9. QED
    BY <2>4, <2>8
<1>9. \A i, k \in 1..n : i # k => all[i] # all[k]
  <2>1. ASSUME NEW i \in 1..n, NEW k \in 1..n, i # k
        PROVE  all[i] # all[k]
    <3>1. i < k \/ k < i
      BY <1>2, <2>1
    <3>2. QED
      BY <1>7, <3>1
  <2>2. QED
    BY <2>1
<1>10. all \in [1..n -> Chunk2]
  <2>1. \A i \in 1..n : [from |-> From(i), to |-> To(i)] \in Chunk2
    BY <1>3, <1>6
  <2>2. QED
    BY <1>3, <2>1
<1>11. n \in Nat
  BY <1>2
<1>12. QED
  BY <1>6, <1>8, <1>9, <1>10, <1>11 DEF n

(* The chunks left over of the first n, where s are those of the first     *)
(* n - 1.                                                                  *)
FreeStep(taken, g, s, n) ==
  IF Taken(taken, g.stream, Chunks(g)[n]) THEN s ELSE Append(s, Chunks(g)[n])

FreeBy(taken, g, f, n) ==
  f = [i \in 0..n |-> IF i = 0 THEN <<>> ELSE FreeStep(taken, g, f[i - 1], i)]

LEMMA FreeExtends ==
  ASSUME NEW taken, NEW g, NEW n \in Nat, NEW f, FreeBy(taken, g, f, n)
  PROVE  \E h : FreeBy(taken, g, h, n + 1)
<1> DEFINE Step(s, i) == FreeStep(taken, g, s, i)
           h == [i \in 0..(n + 1) |-> IF i <= n THEN f[i] ELSE Step(f[n], i)]
<1>1. /\ f = [i \in 0..n |-> IF i = 0 THEN <<>> ELSE Step(f[i - 1], i)]
  BY DEF FreeBy
<1>2. /\ \A i \in 0..n : i \in 0..(n + 1) /\ i <= n /\ h[i] = f[i]
      /\ n + 1 \in 0..(n + 1) /\ ~(n + 1 <= n) /\ h[n + 1] = Step(f[n], n + 1)
  <2> HIDE DEF Step
  <2>1. QED
    OBVIOUS
<1>3. ASSUME NEW i \in 0..(n + 1)
      PROVE  h[i] = IF i = 0 THEN <<>> ELSE Step(h[i - 1], i)
  <2> HIDE DEF Step, h
  <2>1. CASE i = n + 1
    <3>1. i # 0 /\ i - 1 = n /\ n \in 0..n
      BY <2>1
    <3>2. h[i] = Step(f[n], i) /\ h[i - 1] = f[n]
      BY <1>2, <2>1, <3>1
    <3>3. QED
      BY <3>1, <3>2
  <2>2. CASE i # n + 1
    <3>1. i \in 0..n
      BY <2>2
    <3>2. f[i] = IF i = 0 THEN <<>> ELSE Step(f[i - 1], i)
      BY <1>1, <3>1
    <3>3. i # 0 => i - 1 \in 0..n
      BY <3>1
    <3>4. QED
      BY <1>2, <3>1, <3>2, <3>3
  <2>3. QED
    BY <2>1, <2>2
<1>4. h = [i \in 0..(n + 1) |-> IF i = 0 THEN <<>> ELSE Step(h[i - 1], i)]
  <2>1. h = [i \in 0..(n + 1) |-> h[i]]
    OBVIOUS
  <2> HIDE DEF Step, h
  <2>2. QED
    BY <1>3, <2>1
<1>5. QED
  BY <1>4 DEF FreeBy

LEMMA FreeExists ==
  ASSUME NEW taken, NEW g, NEW n \in Nat
  PROVE  \E f : FreeBy(taken, g, f, n)
<1> DEFINE S == {i \in Nat : \E f : FreeBy(taken, g, f, i)}
<1>1. 0 \in S
  <2> DEFINE f == [i \in 0..0 |-> <<>>]
  <2>1. f = [i \in 0..0 |-> IF i = 0 THEN <<>> ELSE FreeStep(taken, g, f[i - 1], i)]
    OBVIOUS
  <2>2. FreeBy(taken, g, f, 0)
    BY <2>1 DEF FreeBy
  <2>3. QED
    BY <2>2
<1>2. \A i \in 0..(n - 1) : i \in S => i + 1 \in S
  BY FreeExtends
<1>3. n \in 0..n
  OBVIOUS
<1> HIDE DEF S
<1>4. n \in S
  BY <1>1, <1>2, <1>3, Climb
<1>5. QED
  BY <1>4 DEF S

(* s are the chunks of the first n that are not taken.                     *)
Leftover(taken, g, s, n) ==
  /\ s \in Seq(Chunk2)
  /\ \A i \in 1..Len(s) : \E k \in 1..n : /\ s[i] = Chunks(g)[k]
                                          /\ ~Taken(taken, g.stream, Chunks(g)[k])
  /\ \A k \in 1..n : Taken(taken, g.stream, Chunks(g)[k])
                       \/ \E i \in 1..Len(s) : s[i] = Chunks(g)[k]
  /\ \A i, k \in 1..Len(s) : i # k => s[i] # s[k]

LEMMA LeftoverNext ==
  ASSUME NEW t \in Moments, NEW g, GroupOK(g, t), NEW taken, NEW n \in Nat,
         n + 1 <= ChunkCount(g), NEW s, Leftover(taken, g, s, n)
  PROVE  Leftover(taken, g, FreeStep(taken, g, s, n + 1), n + 1)
<1> DEFINE all == Chunks(g)
           N == ChunkCount(g)
           c == all[n + 1]
           T(x) == Taken(taken, g.stream, x)
           r == Append(s, c)
<1>1. N \in Nat /\ n + 1 \in 1..N /\ c \in Chunk2
      /\ \A i, k \in 1..N : i # k => all[i] # all[k]
  BY ChunksAre
<1>2. /\ s \in Seq(Chunk2) /\ Len(s) \in Nat
      /\ \A i \in 1..Len(s) : \E k \in 1..n : s[i] = all[k] /\ ~T(all[k])
      /\ \A k \in 1..n : T(all[k]) \/ \E i \in 1..Len(s) : s[i] = all[k]
      /\ \A i, k \in 1..Len(s) : i # k => s[i] # s[k]
  BY LenProperties DEF Leftover
<1> HIDE DEF all, N, c, T
<1>3. n + 1 \in 1..(n + 1) /\ \A k \in 1..n : k \in 1..(n + 1) /\ k \in 1..N /\ k # n + 1
  BY <1>1
<1>4. \A k \in 1..(n + 1) : k \in 1..n \/ k = n + 1
  OBVIOUS
<1>5. CASE T(c)
  <2>1. FreeStep(taken, g, s, n + 1) = s
    BY <1>5 DEF FreeStep, T, c, all
  <2>2. \A i \in 1..Len(s) : \E k \in 1..(n + 1) : s[i] = all[k] /\ ~T(all[k])
    BY <1>2, <1>3
  <2>3. \A k \in 1..(n + 1) : T(all[k]) \/ \E i \in 1..Len(s) : s[i] = all[k]
    BY <1>2, <1>4, <1>5 DEF c
  <2>4. QED
    BY <1>2, <2>1, <2>2, <2>3 DEF Leftover, T, all
<1>6. CASE ~T(c)
  <2>1. FreeStep(taken, g, s, n + 1) = r
    BY <1>6 DEF FreeStep, T, c, all
  <2>2. /\ r \in Seq(Chunk2) /\ Len(r) = Len(s) + 1 /\ r[Len(s) + 1] = c
        /\ \A i \in 1..Len(s) : r[i] = s[i]
    BY <1>1, <1>2, AppendProperties
  <2> HIDE DEF r
  <2>3. /\ \A i \in 1..Len(r) : i \in 1..Len(s) \/ i = Len(s) + 1
        /\ \A i \in 1..Len(s) : i \in 1..Len(r)
        /\ Len(s) + 1 \in 1..Len(r)
    BY <1>2, <2>2
  <2>4. \A i \in 1..Len(r) : \E k \in 1..(n + 1) : r[i] = all[k] /\ ~T(all[k])
    BY <1>2, <1>3, <1>6, <2>2, <2>3 DEF c
  <2>5. \A k \in 1..(n + 1) : T(all[k]) \/ \E i \in 1..Len(r) : r[i] = all[k]
    BY <1>2, <1>4, <2>2, <2>3 DEF c
  <2>6. \A i \in 1..Len(s) : s[i] # c
    BY <1>1, <1>2, <1>3 DEF c
  <2>7. \A i, k \in 1..Len(r) : i # k => r[i] # r[k]
    BY <1>2, <2>2, <2>3, <2>6
  <2>8. QED
    BY <2>1, <2>2, <2>4, <2>5, <2>7 DEF Leftover, T, all
<1>7. QED
  BY <1>5, <1>6

LEMMA FreeIs ==
  ASSUME NEW t \in Moments, NEW g, GroupOK(g, t), NEW taken
  PROVE  Leftover(taken, g, Free(taken, g), ChunkCount(g))
<1> DEFINE N == ChunkCount(g)
           f == CHOOSE f : f = [n \in 0..N |->
                  IF n = 0 THEN <<>>
                  ELSE IF Taken(taken, g.stream, Chunks(g)[n]) THEN f[n - 1]
                  ELSE Append(f[n - 1], Chunks(g)[n])]
           S == {n \in Nat : Leftover(taken, g, f[n], n)}
<1>1. N \in Nat
  BY ChunksAre
<1>2. Free(taken, g) = f[N]
  BY DEF Free
<1>3. FreeBy(taken, g, f, N)
  <2>1. \E h : FreeBy(taken, g, h, N)
    BY <1>1, FreeExists
  <2>2. QED
    BY <2>1 DEF FreeBy, FreeStep
<1> HIDE DEF f, N
<1>4. \A n \in 0..N : f[n] = IF n = 0 THEN <<>> ELSE FreeStep(taken, g, f[n - 1], n)
  BY <1>3 DEF FreeBy
<1>5. 0 \in S
  <2>1. f[0] = <<>> /\ 0 \in Nat
    BY <1>1, <1>4
  <2>2. Len(<<>>) = 0 /\ <<>> \in Seq(Chunk2) /\ 1..0 = {}
    OBVIOUS
  <2>3. QED
    BY <2>1, <2>2 DEF Leftover
<1>6. ASSUME NEW n \in 0..(N - 1), n \in S
      PROVE  n + 1 \in S
  <2>1. n \in Nat /\ n + 1 \in 0..N /\ n + 1 # 0 /\ (n + 1) - 1 = n /\ n + 1 <= N
    BY <1>1
  <2>2. f[n + 1] = FreeStep(taken, g, f[n], n + 1)
    BY <1>4, <2>1
  <2>3. Leftover(taken, g, FreeStep(taken, g, f[n], n + 1), n + 1)
    BY <1>6, <2>1, LeftoverNext DEF N
  <2>4. QED
    BY <2>1, <2>2, <2>3
<1>7. N \in S
  <2> HIDE DEF S
  <2>1. N \in 0..N
    BY <1>1
  <2>2. QED
    BY <1>1, <1>5, <1>6, <2>1, Climb
<1>8. QED
  BY <1>2, <1>7 DEF N

-----------------------------------------------------------------------------
(* The groups that are planned *)

Fields == {"covered", "loaded", "live"}

ChartOK(c) ==
  /\ DOMAIN c = Fields
  /\ c.covered \in SUBSET RangesUpTo(LastMoment) /\ Merged(c.covered)
  /\ c.loaded \subseteq Traded

(* The dashboard's state but for reservations and workers.                 *)
BoardInv ==
  /\ now \in Moments
  /\ lastLive \in [TradeStreams -> Moments \cup {NoMoment}]
  /\ gaps \in [TradeStreams -> Moments \cup {NoMoment}]
  /\ \A s \in TradeStreams : gaps[s] <= lastLive[s] /\ lastLive[s] <= now
  /\ DOMAIN charts = Panes /\ \A p \in Panes : ChartOK(charts[p])

LEMMA MissingIs ==
  ASSUME BoardInv, NEW p \in Panes, gaps[StreamOf[p]] # NoMoment, gaps[StreamOf[p]] + 1 <= now
  PROVE  LET m == Missing(p, now) IN
         \/ m = NoGap
         \/ /\ m \in RangesUpTo(LastMoment) /\ m.from < m.to
            /\ gaps[StreamOf[p]] + 1 <= m.from /\ m.to <= now
            /\ m.from \in Moments /\ m.to \in Moments
<1> DEFINE c == charts[p].covered
           a == gaps[StreamOf[p]] + 1
           m == Missing(p, now)
<1>1. StreamOf[p] \in TradeStreams /\ LastMoment \in Nat /\ Moments = 0..LastMoment
  BY BackfillAssumption DEF Moments
<1>2. c \in SUBSET RangesUpTo(LastMoment) /\ Merged(c)
  BY DEF BoardInv, ChartOK
<1>3. now \in 0..LastMoment /\ a \in 0..LastMoment
  BY <1>1 DEF BoardInv, NoMoment
<1>4. m = OldestGap(c, a, now)
  BY DEF Missing
<1> HIDE DEF m, c, a
<1>5. IF IsGap(m) THEN m \in RangesUpTo(LastMoment) /\ a <= m.from /\ m.to <= now
      ELSE m = NoGap
  BY <1>1, <1>2, <1>3, <1>4, OldestGapIs
<1>6. CASE IsGap(m)
  BY <1>1, <1>5, <1>6, RangeFields DEF IsGap, m, a
<1>7. CASE ~IsGap(m)
  BY <1>5, <1>7 DEF m
<1>8. QED
  BY <1>6, <1>7

Planning(t) == {g \in Groups(t) : g.panes # {}}

LEMMA PlanningIs ==
  ASSUME BoardInv, NEW g \in Planning(now)
  PROVE  /\ GroupOK(g, now) /\ Worthwhile(g.stream, now)
         /\ g.panes = {p \in PanesOf(g.stream) : Missing(p, now) = Interval(g.from, g.to)}
<1>1. PICK s \in {u \in TradeStreams : Worthwhile(u, now)},
           m \in {Missing(p, now) : p \in Panes} \ {NoGap} :
        g = Group(s, m, now)
  BY DEF Planning, Groups
<1>2. /\ g.stream = s /\ g.from = m.from /\ g.to = m.to
      /\ g.panes = {p \in PanesOf(s) : Missing(p, now) = m} /\ g.panes # {}
  BY <1>1 DEF Planning, Group
<1>3. PICK p \in Panes : StreamOf[p] = s /\ Missing(p, now) = m
  BY <1>2 DEF PanesOf
<1>4. s \in TradeStreams /\ gaps[s] # NoMoment /\ now - (gaps[s] + 1) >= MinGap
  BY DEF Worthwhile
<1>5. gaps[s] \in Int /\ now \in Int /\ MinGap \in Nat
  <2>1. gaps[s] \in Moments /\ now \in Moments
    BY <1>4 DEF BoardInv
  <2>2. QED
    BY <2>1, BackfillAssumption DEF Moments
<1>6. gaps[s] + 1 <= now
  BY <1>4, <1>5
<1>7. /\ m \in RangesUpTo(LastMoment) /\ m.from < m.to /\ m.to <= now
      /\ m.from \in Moments /\ m.to \in Moments
  BY <1>3, <1>4, <1>6, MissingIs
<1>8. m = Interval(m.from, m.to)
  BY <1>7 DEF RangesUpTo, Interval
<1>9. m.from <= m.to /\ g.panes \in SUBSET Panes
  BY <1>2, <1>7 DEF Moments, PanesOf
<1>10. QED
  BY <1>2, <1>4, <1>7, <1>8, <1>9 DEF GroupOK

(* Each pane that misses something of a worthwhile gap is in a group.      *)
LEMMA PaneIsPlanned ==
  ASSUME BoardInv, NEW p \in Panes, Worthwhile(StreamOf[p], now), Missing(p, now) # NoGap
  PROVE  \E g \in Planning(now) : /\ p \in g.panes
                                  /\ g.from = Missing(p, now).from
                                  /\ g.to = Missing(p, now).to
<1> DEFINE s == StreamOf[p]
           m == Missing(p, now)
           g == Group(s, m, now)
<1>1. s \in {u \in TradeStreams : Worthwhile(u, now)}
  BY BackfillAssumption
<1>2. m \in {Missing(q, now) : q \in Panes} \ {NoGap}
  OBVIOUS
<1>3. g \in Groups(now)
  <2> HIDE DEF s, m
  <2>1. QED
    BY <1>1, <1>2 DEF Groups
<1>4. p \in g.panes /\ g.from = m.from /\ g.to = m.to
  BY DEF PanesOf, Group
<1>5. QED
  BY <1>3, <1>4 DEF Planning

LEMMA PlanningIsFinite ==
  ASSUME BoardInv
  PROVE  IsFiniteSet(Planning(now))
<1> DEFINE D == {p \in Panes : \E g \in Planning(now) : p \in g.panes}
           f == [p \in D |-> CHOOSE g \in Planning(now) : p \in g.panes]
<1>1. IsFiniteSet(D)
  BY BackfillAssumption, FS_Subset
<1>2. ASSUME NEW g \in Planning(now), NEW h \in Planning(now), NEW p, p \in g.panes, p \in h.panes
      PROVE  g = h
  <2>1. ASSUME NEW k \in Planning(now), p \in k.panes
        PROVE  /\ k.stream = StreamOf[p] /\ Interval(k.from, k.to) = Missing(p, now)
               /\ k = [stream |-> k.stream, from |-> k.from, to |-> k.to, panes |-> k.panes]
    <3>1. k.panes = {q \in PanesOf(k.stream) : Missing(q, now) = Interval(k.from, k.to)}
      BY PlanningIs
    <3>2. k = [stream |-> k.stream, from |-> k.from, to |-> k.to, panes |-> k.panes]
      BY DEF Planning, Groups, Group
    <3>3. QED
      BY <2>1, <3>1, <3>2 DEF PanesOf
  <2>2. g.stream = h.stream /\ Interval(g.from, g.to) = Interval(h.from, h.to)
    BY <1>2, <2>1
  <2>3. g.from = h.from /\ g.to = h.to
    BY <2>2 DEF Interval
  <2>4. g.panes = h.panes
    BY <2>2, PlanningIs
  <2>5. QED
    BY <1>2, <2>1, <2>2, <2>3, <2>4
<1>3. f \in Surjection(D, Planning(now))
  <2>1. ASSUME NEW g \in Planning(now)
        PROVE  \E p \in D : f[p] = g
    <3>1. PICK p \in Panes : p \in g.panes
      BY PlanningIs DEF GroupOK
    <3>2. p \in D /\ f[p] \in Planning(now) /\ p \in f[p].panes
      BY <3>1
    <3> HIDE DEF f, D
    <3>3. f[p] = g
      BY <1>2, <3>1, <3>2
    <3>4. QED
      BY <3>2, <3>3
  <2>2. f \in [D -> Planning(now)]
    OBVIOUS
  <2> HIDE DEF f, D
  <2>3. QED
    BY <2>1, <2>2 DEF Surjection
<1>4. QED
  <2> HIDE DEF f, D
  <2>1. QED
    BY <1>1, <1>3, FS_Surjection

(* A plan takes each group once, and every one.                            *)
LEMMA OrderIs ==
  ASSUME BoardInv, NEW order \in Plans(now)
  PROVE  /\ Len(order) \in Nat
         /\ \A i \in 1..Len(order) : order[i] \in Planning(now)
         /\ \A g \in Planning(now) : \E i \in 1..Len(order) : order[i] = g
<1> DEFINE S == Planning(now)
           n == Cardinality(S)
<1>1. IsFiniteSet(S) /\ n \in Nat
  BY PlanningIsFinite, FS_CardinalityType
<1>2. order \in [1..n -> S] /\ \A i, j \in 1..n : i # j => order[i] # order[j]
  BY DEF Plans, SetToSeqs, Planning
<1> HIDE DEF n, S
<1>3. order \in Injection(1..n, S)
  BY <1>2 DEF Injection, IsInjective
<1>4. Cardinality(1..n) = n
  BY <1>1, FS_Interval
<1>5. order \in Surjection(1..n, S)
  BY <1>1, <1>3, <1>4, FS_Injection DEF n
<1>6. Len(order) = n
  BY <1>1, <1>2
<1>7. QED
  BY <1>1, <1>2, <1>5, <1>6 DEF Surjection, S

-----------------------------------------------------------------------------
(* Reservations and workers *)

Has(j, c) == \E i \in 1..Len(j.chunks) : j.chunks[i] = c

JobFields == {"stream", "panes", "chunks", "upTo", "born"}

JobOK(j, t) ==
  /\ DOMAIN j = JobFields
  /\ j.stream \in TradeStreams /\ j.panes \in SUBSET Panes /\ j.panes # {}
  /\ j.chunks \in Seq(Chunk2) /\ j.chunks # <<>>
  /\ j.born \in Moments /\ j.born <= t
  /\ \A i \in 1..Len(j.chunks) : j.chunks[i].from <= j.chunks[i].to
                                 /\ j.chunks[i].to <= j.born
  /\ \A i, k \in 1..Len(j.chunks) : i # k => j.chunks[i] # j.chunks[k]
  /\ j.upTo \in (Current(j).from - 1)..Current(j).to

ReservationOK(r, t) ==
  /\ r.stream \in TradeStreams /\ r.from \in Moments /\ r.to \in Moments /\ r.born \in Moments
  /\ r.from <= r.to /\ r.to <= r.born /\ r.born <= t

IsReserved(R, s, c) == \E r \in R : r.stream = s /\ r.from = c.from /\ r.to = c.to

Overlap(c, d) == c.from <= d.to /\ d.from <= c.to

(* What is reserved is worked on ...                                       *)
Worked(R, J) ==
  \A r \in R : \E j \in J : /\ j.stream = r.stream
                            /\ \E c \in Chunk2 : Has(j, c) /\ c.from = r.from /\ c.to = r.to

(* ... what is worked on is reserved, unless the reservation expired ...   *)
Held(R, J, L) ==
  \A j \in J : \A c \in Chunk2 :
    Has(j, c) => IsReserved(R, j.stream, c) \/ RangeOf(j.stream, c) \in L

(* ... and then only is it worked on twice.                                *)
Apart(J, L) ==
  \A i, j \in J : \A c, d \in Chunk2 :
    i # j /\ i.stream = j.stream /\ Has(i, c) /\ Has(j, d) /\ Overlap(c, d)
      => RangeOf(i.stream, c) \in L \/ RangeOf(j.stream, d) \in L

RepairOK(R, J, L, t) ==
  /\ \A r \in R : ReservationOK(r, t)
  /\ \A j \in J : JobOK(j, t)
  /\ Worked(R, J) /\ Held(R, J, L) /\ Apart(J, L)

LEMMA HeadIs ==
  ASSUME NEW S, NEW s \in Seq(S), s # <<>>
  PROVE  /\ Len(s) \in Nat /\ 1 \in 1..Len(s) /\ Head(s) = s[1] /\ s[1] \in S
         /\ Tail(s) \in Seq(S) /\ Len(Tail(s)) = Len(s) - 1
         /\ \A i \in 1..(Len(s) - 1) : Tail(s)[i] = s[i + 1] /\ i + 1 \in 1..Len(s)
         /\ \A i \in 1..Len(s) : s[i] \in S /\ (i = 1 \/ i - 1 \in 1..(Len(s) - 1))
BY HeadTailProperties

LEMMA ChainOK ==
  ASSUME NEW t \in Moments, NEW g, GroupOK(g, t), NEW taken, NEW free,
         Leftover(taken, g, free, ChunkCount(g)), free # <<>>
  PROVE  JobOK(Chain(g, free, t), t)
<1> DEFINE j == Chain(g, free, t)
           all == Chunks(g)
           n == ChunkCount(g)
<1>1. /\ j.stream = g.stream /\ j.panes = g.panes /\ j.chunks = free
      /\ j.upTo = Head(free).from - 1 /\ j.born = t
      /\ DOMAIN j = JobFields
  BY DEF Chain, JobFields
<1>2. /\ free \in Seq(Chunk2)
      /\ \A i \in 1..Len(free) : \E k \in 1..n : free[i] = all[k]
      /\ \A i, k \in 1..Len(free) : i # k => free[i] # free[k]
  BY DEF Leftover
<1>3. \A k \in 1..n : all[k] \in Chunk2 /\ all[k].from <= all[k].to /\ all[k].to <= g.to
  BY ChunksAre
<1>4. g.to \in Nat /\ t \in Nat /\ g.to <= t /\ \A c \in Chunk2 : c.from \in Nat /\ c.to \in Nat
  BY BackfillAssumption DEF GroupOK, Chunk2, Moments
<1>5. \A i \in 1..Len(free) : free[i].from <= free[i].to /\ free[i].to <= t
  <2> HIDE DEF all, n
  <2>1. ASSUME NEW i \in 1..Len(free)
        PROVE  free[i].from <= free[i].to /\ free[i].to <= t
    <3>1. PICK k \in 1..n : free[i] = all[k]
      BY <1>2
    <3>2. all[k] \in Chunk2 /\ all[k].from <= all[k].to /\ all[k].to <= g.to
      BY <1>3
    <3>3. QED
      BY <1>4, <3>1, <3>2
  <2>2. QED
    BY <2>1
<1>6. Current(j) = Head(free) /\ Head(free) \in Chunk2 /\ Head(free).from <= Head(free).to
  BY <1>1, <1>2, <1>5, HeadIs DEF Current
<1> HIDE DEF j
<1>7. j.upTo \in (Current(j).from - 1)..Current(j).to
  BY <1>1, <1>4, <1>6
<1>8. t <= t /\ g.stream \in TradeStreams /\ g.panes \in SUBSET Panes /\ g.panes # {}
  BY <1>4 DEF GroupOK
<1>9. QED
  BY <1>1, <1>2, <1>5, <1>7, <1>8 DEF JobOK, j

LEMMA ChunkFields ==
  ASSUME NEW c \in Chunk2
  PROVE  /\ c.from \in Nat /\ c.to \in Nat /\ c.from \in Moments /\ c.to \in Moments
         /\ c = [from |-> c.from, to |-> c.to]
BY BackfillAssumption DEF Chunk2, Moments

LEMMA HasIs ==
  ASSUME NEW t, NEW j, JobOK(j, t), NEW c, Has(j, c)
  PROVE  c \in Chunk2 /\ c.from <= c.to /\ c.to <= j.born
BY DEF JobOK, Has

(* What a step of the planner adds to the plan.                            *)
LEMMA QueuedIs ==
  ASSUME NEW plan, NEW t \in Moments, NEW g, GroupOK(g, t)
  PROVE  LET fr == Free(plan.reserved, g)
             more == Queued(plan, g, t)
         IN  /\ \A r : r \in more.reserved <=>
                  r \in plan.reserved \/ \E i \in 1..Len(fr) : r = Reservation(g.stream, fr[i], t)
             /\ \A j : j \in more.jobs <=>
                  j \in plan.jobs \/ (fr # <<>> /\ j = Chain(g, fr, t))
             /\ \A p \in Panes : more.skipped[p] = plan.skipped[p] \cup
                  (IF p \in g.panes
                     THEN UNION {Span(c) : c \in ToSet(Chunks(g)) \ ToSet(fr)} ELSE {})
             /\ DOMAIN more.skipped = Panes
<1> DEFINE fr == Free(plan.reserved, g)
           more == Queued(plan, g, t)
           sk == UNION {Span(c) : c \in ToSet(Chunks(g)) \ ToSet(fr)}
<1>1. /\ more.reserved = plan.reserved \cup {Reservation(g.stream, c, t) : c \in ToSet(fr)}
      /\ more.jobs = plan.jobs \cup (IF fr = <<>> THEN {} ELSE {Chain(g, fr, t)})
      /\ more.skipped = [p \in Panes |-> plan.skipped[p] \cup (IF p \in g.panes THEN sk ELSE {})]
  BY DEF Queued
<1>2. ToSet(fr) = {fr[i] : i \in 1..Len(fr)}
  <2>1. fr \in Seq(Chunk2)
    BY FreeIs DEF Leftover
  <2>2. DOMAIN fr = 1..Len(fr)
    BY <2>1, LenProperties
  <2>3. QED
    BY <2>2 DEF ToSet
<1> HIDE DEF more, sk
<1>3. QED
  BY <1>1, <1>2 DEF more, sk

LEMMA QueuedGrows ==
  ASSUME NEW plan, NEW t \in Moments, NEW g, GroupOK(g, t)
  PROVE  LET more == Queued(plan, g, t)
         IN  /\ plan.jobs \subseteq more.jobs
             /\ \A p \in Panes : plan.skipped[p] \subseteq more.skipped[p]
<1> DEFINE more == Queued(plan, g, t)
<1>1. \A j : j \in plan.jobs => j \in more.jobs
  BY QueuedIs
<1>2. \A p \in Panes : plan.skipped[p] \subseteq more.skipped[p]
  BY QueuedIs
<1> HIDE DEF more
<1>3. QED
  BY <1>1, <1>2 DEF more

LEMMA QueuedOK ==
  ASSUME NEW t \in Moments, NEW g, GroupOK(g, t), NEW L, NEW plan,
         RepairOK(plan.reserved, plan.jobs, L, t)
  PROVE  LET more == Queued(plan, g, t) IN RepairOK(more.reserved, more.jobs, L, t)
<1> DEFINE R == plan.reserved
           J == plan.jobs
           fr == Free(R, g)
           S == Queued(plan, g, t).reserved
           K == Queued(plan, g, t).jobs
           new == Chain(g, fr, t)
           s == g.stream
<1>1. /\ fr \in Seq(Chunk2) /\ Len(fr) \in Nat
      /\ \A i \in 1..Len(fr) : fr[i] \in Chunk2 /\ ~Taken(R, s, fr[i])
      /\ fr # <<>> => JobOK(new, t)
  <2>1. Leftover(R, g, fr, ChunkCount(g))
    BY FreeIs
  <2>2. fr \in Seq(Chunk2) /\ \A i \in 1..Len(fr) : ~Taken(R, s, fr[i])
    BY <2>1 DEF Leftover
  <2> HIDE DEF fr, R
  <2>3. QED
    BY <2>1, <2>2, ChainOK, LenProperties
<1>2. /\ \A r : r \in S <=> r \in R \/ \E i \in 1..Len(fr) : r = Reservation(s, fr[i], t)
      /\ \A j : j \in K <=> j \in J \/ (fr # <<>> /\ j = new)
  BY QueuedIs
<1>3. /\ \A r \in R : ReservationOK(r, t)
      /\ \A j \in J : JobOK(j, t)
      /\ Worked(R, J) /\ Held(R, J, L) /\ Apart(J, L)
  BY DEF RepairOK
<1>4. /\ new.stream = s /\ new.chunks = fr
      /\ s \in TradeStreams
  BY DEF Chain, GroupOK
<1>5. /\ \A i : Reservation(s, fr[i], t).stream = s
      /\ \A i : Reservation(s, fr[i], t).from = fr[i].from
      /\ \A i : Reservation(s, fr[i], t).to = fr[i].to
      /\ \A i : Reservation(s, fr[i], t).born = t
  BY DEF Reservation
<1>6. \A c : Has(new, c) <=> \E i \in 1..Len(fr) : fr[i] = c
  BY <1>4 DEF Has
<1>7. \A i \in 1..Len(fr) : fr # <<>>
  BY <1>1
<1> HIDE DEF S, K, fr, new, s, R, J
<1>8. \A r \in S : ReservationOK(r, t)
  <2>1. ASSUME NEW i \in 1..Len(fr)
        PROVE  ReservationOK(Reservation(s, fr[i], t), t)
    <3>1. JobOK(new, t) /\ fr[i] \in Chunk2 /\ new.born = t
      BY <1>1, <1>7 DEF Chain, new
    <3>2. fr[i].from <= fr[i].to /\ fr[i].to <= t
      BY <1>6, <3>1, HasIs
    <3>3. t \in Nat /\ t <= t
      BY BackfillAssumption DEF Moments
    <3>4. QED
      BY <1>4, <1>5, <3>1, <3>2, <3>3, ChunkFields DEF ReservationOK
  <2>2. QED
    BY <1>2, <1>3, <2>1
<1>9. \A j \in K : JobOK(j, t)
  <2>1. ASSUME NEW j \in K
        PROVE  JobOK(j, t)
    <3>1. CASE j \in J
      BY <1>3, <3>1
    <3>2. CASE fr # <<>> /\ j = new
      BY <1>1, <3>2
    <3>3. QED
      BY <1>2, <3>1, <3>2
  <2>2. QED
    BY <2>1
<1>10. Worked(S, K)
  <2>1. ASSUME NEW r \in S
        PROVE  \E j \in K : /\ j.stream = r.stream
                            /\ \E c \in Chunk2 : Has(j, c) /\ c.from = r.from /\ c.to = r.to
    <3>1. CASE r \in R
      BY <1>2, <1>3, <3>1 DEF Worked
    <3>2. ASSUME NEW i \in 1..Len(fr), r = Reservation(s, fr[i], t)
          PROVE  \E j \in K : /\ j.stream = r.stream
                              /\ \E c \in Chunk2 : Has(j, c) /\ c.from = r.from /\ c.to = r.to
      <4>1. new \in K /\ Has(new, fr[i]) /\ fr[i] \in Chunk2
        BY <1>1, <1>2, <1>6, <1>7
      <4>2. QED
        BY <1>4, <1>5, <3>2, <4>1
    <3>3. QED
      BY <1>2, <3>1, <3>2
  <2>2. QED
    BY <2>1 DEF Worked
<1>11. \A c \in Chunk2 : Has(new, c) => IsReserved(S, s, c)
  <2>1. ASSUME NEW c \in Chunk2, Has(new, c)
        PROVE  IsReserved(S, s, c)
    <3>1. PICK i \in 1..Len(fr) : fr[i] = c
      BY <1>6, <2>1
    <3>2. Reservation(s, fr[i], t) \in S
      BY <1>2
    <3>3. QED
      BY <1>5, <3>1, <3>2 DEF IsReserved
  <2>2. QED
    BY <2>1
<1>12. Held(S, K, L)
  <2>1. ASSUME NEW j \in J, NEW c \in Chunk2, Has(j, c)
        PROVE  IsReserved(S, j.stream, c) \/ RangeOf(j.stream, c) \in L
    <3>1. IsReserved(R, j.stream, c) \/ RangeOf(j.stream, c) \in L
      BY <1>3, <2>1 DEF Held
    <3>2. R \subseteq S
      BY <1>2
    <3>3. QED
      BY <3>1, <3>2 DEF IsReserved
  <2>2. QED
    BY <1>2, <1>4, <1>11, <2>1 DEF Held
<1>13. ASSUME NEW j \in J, NEW c \in Chunk2, NEW d \in Chunk2, j.stream = s,
              Has(j, c), Has(new, d), Overlap(c, d) \/ Overlap(d, c)
       PROVE  RangeOf(j.stream, c) \in L
  <2>1. PICK i \in 1..Len(fr) : fr[i] = d
    BY <1>6, <1>13
  <2>2. ~Taken(R, s, d)
    BY <1>1, <2>1
  <2>3. ~IsReserved(R, s, c)
    <3>1. \A r \in R : r.stream = s /\ r.from = c.from /\ r.to = c.to
                         => r.from <= d.to /\ r.to >= d.from
      BY <1>13, ChunkFields DEF Overlap
    <3>2. QED
      BY <2>2, <3>1 DEF Taken, IsReserved
  <2>4. QED
    BY <1>3, <1>13, <2>3 DEF Held
<1>14. Apart(K, L)
  <2>1. ASSUME NEW i \in K, NEW j \in K, NEW c \in Chunk2, NEW d \in Chunk2,
               i # j, i.stream = j.stream, Has(i, c), Has(j, d), Overlap(c, d)
        PROVE  RangeOf(i.stream, c) \in L \/ RangeOf(j.stream, d) \in L
    <3>1. CASE i \in J /\ j \in J
      BY <1>3, <2>1, <3>1 DEF Apart
    <3>2. CASE i \in J /\ j = new
      BY <1>4, <1>13, <2>1, <3>2
    <3>3. CASE i = new /\ j \in J
      BY <1>4, <1>13, <2>1, <3>3
    <3>4. QED
      BY <1>2, <2>1, <3>1, <3>2, <3>3
  <2>2. QED
    BY <2>1 DEF Apart
<1>15. QED
  BY <1>8, <1>9, <1>10, <1>12, <1>14 DEF RepairOK, S, K

(* Each pane of a group gets what it misses: skipped, or on its way.       *)
LEMMA QueuedServes ==
  ASSUME NEW t \in Moments, NEW g, GroupOK(g, t), NEW plan,
         NEW p \in Panes, p \in g.panes, NEW m \in g.from..g.to
  PROVE  LET more == Queued(plan, g, t) IN
         m \in more.skipped[p] \/ m \in Remaining(p, more.jobs)
<1> DEFINE R == plan.reserved
           fr == Free(R, g)
           all == Chunks(g)
           n == ChunkCount(g)
           K == Queued(plan, g, t).jobs
           Z == Queued(plan, g, t).skipped
           new == Chain(g, fr, t)
<1>1. PICK k \in 1..n : m \in Span(all[k])
  BY ChunksAre
<1>2. /\ n \in Nat /\ all \in [1..n -> Chunk2] /\ all[k] \in Chunk2
      /\ fr \in Seq(Chunk2) /\ Len(fr) \in Nat
  BY ChunksAre, FreeIs, LenProperties DEF Leftover
<1>3. all[k] \in ToSet(all) /\ ToSet(fr) = {fr[i] : i \in 1..Len(fr)}
  <2>1. DOMAIN all = 1..n /\ DOMAIN fr = 1..Len(fr)
    BY <1>2, LenProperties
  <2> HIDE DEF all, fr
  <2>2. QED
    BY <2>1 DEF ToSet
<1>4. /\ \A j : j \in K <=> j \in plan.jobs \/ (fr # <<>> /\ j = new)
      /\ Z[p] = plan.skipped[p] \cup UNION {Span(c) : c \in ToSet(all) \ ToSet(fr)}
  BY QueuedIs
<1>5. new.chunks = fr /\ new.panes = g.panes /\ new.upTo = Head(fr).from - 1
  BY DEF Chain
<1> HIDE DEF R, fr, all, n, K, Z, new
<1>6. CASE all[k] \notin ToSet(fr)
  <2>1. m \in UNION {Span(c) : c \in ToSet(all) \ ToSet(fr)}
    BY <1>1, <1>3, <1>6
  <2>2. QED
    BY <1>4, <2>1 DEF Z
<1>7. CASE all[k] \in ToSet(fr)
  <2>1. PICK i \in 1..Len(fr) : fr[i] = all[k]
    BY <1>3, <1>7
  <2>2. fr # <<>> /\ new \in K
    BY <1>2, <1>4, <2>1
  <2>3. m \in Due(new)
    <3>1. CASE i = 1
      <4>1. Current(new) = all[k] /\ Head(fr) = all[k]
        BY <1>2, <1>5, <2>1, <2>2, <3>1, HeadIs DEF Current
      <4>2. m \in (new.upTo + 1)..Current(new).to
        BY <1>1, <1>2, <1>5, <4>1, ChunkFields DEF Span
      <4>3. QED
        BY <4>2 DEF Due
    <3>2. CASE i # 1
      <4>1. /\ Tail(fr) \in Seq(Chunk2) /\ i - 1 \in 1..Len(Tail(fr))
            /\ Tail(fr)[i - 1] = fr[(i - 1) + 1] /\ (i - 1) + 1 = i
        BY <1>2, <2>1, <2>2, <3>2, HeadIs
      <4>2. DOMAIN Tail(fr) = 1..Len(Tail(fr))
        BY <4>1, LenProperties
      <4>3. all[k] \in ToSet(Tail(fr))
        BY <2>1, <4>1, <4>2 DEF ToSet
      <4>4. m \in UNION {Span(c) : c \in ToSet(Tail(new.chunks))}
        BY <1>1, <1>5, <4>3
      <4>5. QED
        BY <4>4 DEF Due
    <3>3. QED
      BY <3>1, <3>2
  <2>4. m \in Remaining(p, K)
    BY <1>5, <2>2, <2>3 DEF Remaining
  <2>5. QED
    BY <2>4 DEF K
<1>8. QED
  BY <1>6, <1>7

(* The plan after all groups of an order.                                  *)
PlanStart(t) ==
  [reserved |-> reserved \ Expired(t), jobs |-> jobs, skipped |-> [p \in Panes |-> {}]]

PlanBy(order, t, f, n) ==
  f = [i \in 0..n |-> IF i = 0 THEN PlanStart(t) ELSE Queued(f[i - 1], order[i], t)]

LEMMA PlanExtends ==
  ASSUME NEW order, NEW t, NEW n \in Nat, NEW f, PlanBy(order, t, f, n)
  PROVE  \E h : PlanBy(order, t, h, n + 1)
<1> DEFINE Step(s, i) == Queued(s, order[i], t)
           start == PlanStart(t)
           h == [i \in 0..(n + 1) |-> IF i <= n THEN f[i] ELSE Step(f[n], i)]
<1>1. /\ f = [i \in 0..n |-> IF i = 0 THEN start ELSE Step(f[i - 1], i)]
  BY DEF PlanBy
<1> HIDE DEF start
<1>2. /\ \A i \in 0..n : i \in 0..(n + 1) /\ i <= n /\ h[i] = f[i]
      /\ n + 1 \in 0..(n + 1) /\ ~(n + 1 <= n) /\ h[n + 1] = Step(f[n], n + 1)
  <2> HIDE DEF Step
  <2>1. QED
    OBVIOUS
<1>3. ASSUME NEW i \in 0..(n + 1)
      PROVE  h[i] = IF i = 0 THEN start ELSE Step(h[i - 1], i)
  <2> HIDE DEF Step, h
  <2>1. CASE i = n + 1
    <3>1. i # 0 /\ i - 1 = n /\ n \in 0..n
      BY <2>1
    <3>2. h[i] = Step(f[n], i) /\ h[i - 1] = f[n]
      BY <1>2, <2>1, <3>1
    <3>3. QED
      BY <3>1, <3>2
  <2>2. CASE i # n + 1
    <3>1. i \in 0..n
      BY <2>2
    <3>2. f[i] = IF i = 0 THEN start ELSE Step(f[i - 1], i)
      BY <1>1, <3>1
    <3>3. i # 0 => i - 1 \in 0..n
      BY <3>1
    <3>4. QED
      BY <1>2, <3>1, <3>2, <3>3
  <2>3. QED
    BY <2>1, <2>2
<1>4. h = [i \in 0..(n + 1) |-> IF i = 0 THEN start ELSE Step(h[i - 1], i)]
  <2>1. h = [i \in 0..(n + 1) |-> h[i]]
    OBVIOUS
  <2> HIDE DEF Step, h
  <2>2. QED
    BY <1>3, <2>1
<1>5. QED
  BY <1>4 DEF PlanBy, start

LEMMA PlanExists ==
  ASSUME NEW order, NEW t, NEW n \in Nat
  PROVE  \E f : PlanBy(order, t, f, n)
<1> DEFINE S == {i \in Nat : \E f : PlanBy(order, t, f, i)}
<1>1. 0 \in S
  <2> DEFINE f == [i \in 0..0 |-> PlanStart(t)]
  <2>1. f = [i \in 0..0 |-> IF i = 0 THEN PlanStart(t) ELSE Queued(f[i - 1], order[i], t)]
    OBVIOUS
  <2>2. PlanBy(order, t, f, 0)
    BY <2>1 DEF PlanBy
  <2>3. QED
    BY <2>2
<1>2. \A i \in 0..(n - 1) : i \in S => i + 1 \in S
  BY PlanExtends
<1>3. n \in 0..n
  OBVIOUS
<1> HIDE DEF S
<1>4. n \in S
  BY <1>1, <1>2, <1>3, Climb
<1>5. QED
  BY <1>4 DEF S

LEMMA PlannedIs ==
  ASSUME NEW order, NEW t, Len(order) \in Nat
  PROVE  \E f : /\ Planned(order, t) = f[Len(order)]
                /\ f[0] = PlanStart(t)
                /\ \A i \in 1..Len(order) : f[i] = Queued(f[i - 1], order[i], t)
<1> DEFINE N == Len(order)
           f == CHOOSE f : f = [n \in 0..N |->
                  IF n = 0
                    THEN [reserved |-> reserved \ Expired(t), jobs |-> jobs,
                          skipped |-> [p \in Panes |-> {}]]
                    ELSE Queued(f[n - 1], order[n], t)]
<1>1. Planned(order, t) = f[N]
  BY DEF Planned
<1>2. PlanBy(order, t, f, N)
  <2>1. \E h : PlanBy(order, t, h, N)
    BY PlanExists
  <2>2. QED
    BY <2>1 DEF PlanBy, PlanStart
<1> HIDE DEF f
<1>3. \A i \in 0..N : f[i] = IF i = 0 THEN PlanStart(t) ELSE Queued(f[i - 1], order[i], t)
  BY <1>2 DEF PlanBy
<1>4. 0 \in 0..N /\ \A i \in 1..N : i \in 0..N /\ i # 0
  OBVIOUS
<1>5. QED
  BY <1>1, <1>3, <1>4

(* Pruning takes away what is expired, and notes it.                       *)
LEMMA PrunedOK ==
  ASSUME NEW t, RepairOK(reserved, jobs, lapsed, t)
  PROVE  RepairOK(reserved \ Expired(t), jobs,
                  lapsed \cup {RangeOf(r.stream, r) : r \in Expired(t)}, t)
<1> DEFINE R == reserved \ Expired(t)
           L == lapsed \cup {RangeOf(r.stream, r) : r \in Expired(t)}
<1>1. /\ \A r \in reserved : ReservationOK(r, t)
      /\ \A j \in jobs : JobOK(j, t)
      /\ Worked(reserved, jobs) /\ Held(reserved, jobs, lapsed) /\ Apart(jobs, lapsed)
  BY DEF RepairOK
<1>2. /\ \A r \in R : r \in reserved
      /\ \A r \in reserved : r \in R \/ RangeOf(r.stream, r) \in L
      /\ \A x \in lapsed : x \in L
  OBVIOUS
<1> HIDE DEF R, L
<1>3. Worked(R, jobs) /\ Apart(jobs, L)
  BY <1>1, <1>2 DEF Worked, Apart
<1>4. Held(R, jobs, L)
  <2>1. ASSUME NEW j \in jobs, NEW c \in Chunk2, Has(j, c)
        PROVE  IsReserved(R, j.stream, c) \/ RangeOf(j.stream, c) \in L
    <3>1. CASE RangeOf(j.stream, c) \in lapsed
      BY <1>2, <3>1
    <3>2. CASE IsReserved(reserved, j.stream, c)
      <4>1. PICK r \in reserved : r.stream = j.stream /\ r.from = c.from /\ r.to = c.to
        BY <3>2 DEF IsReserved
      <4>2. RangeOf(r.stream, r) = RangeOf(j.stream, c)
        BY <4>1 DEF RangeOf
      <4>3. QED
        BY <1>2, <4>1, <4>2 DEF IsReserved
    <3>3. QED
      BY <1>1, <2>1, <3>1, <3>2 DEF Held
  <2>2. QED
    BY <2>1 DEF Held
<1>5. \A r \in R : ReservationOK(r, t)
  BY <1>1, <1>2
<1>6. QED
  BY <1>1, <1>3, <1>4, <1>5 DEF RepairOK, R, L

LEMMA RemainingGrows ==
  ASSUME NEW p, NEW J, NEW K, J \subseteq K
  PROVE  Remaining(p, J) \subseteq Remaining(p, K)
BY DEF Remaining

(* The plan keeps the repairs in order, forgets no worker, and serves      *)
(* each pane of each group.                                                *)
LEMMA PlannedOK ==
  ASSUME BoardInv, RepairOK(reserved, jobs, lapsed, now), NEW order \in Plans(now)
  PROVE  LET plan == Planned(order, now)
             L == lapsed \cup {RangeOf(r.stream, r) : r \in Expired(now)}
         IN  /\ RepairOK(plan.reserved, plan.jobs, L, now)
             /\ jobs \subseteq plan.jobs
             /\ \A g \in Planning(now) : \A p \in g.panes : \A m \in g.from..g.to :
                  m \in plan.skipped[p] \/ m \in Remaining(p, plan.jobs)
<1> DEFINE L == lapsed \cup {RangeOf(r.stream, r) : r \in Expired(now)}
           N == Len(order)
<1>1. /\ N \in Nat /\ now \in Moments
      /\ \A i \in 1..N : order[i] \in Planning(now) /\ GroupOK(order[i], now)
      /\ \A g \in Planning(now) : \E i \in 1..N : order[i] = g
  BY OrderIs, PlanningIs DEF BoardInv
<1>2. PICK f : /\ Planned(order, now) = f[N]
               /\ f[0] = PlanStart(now)
               /\ \A i \in 1..N : f[i] = Queued(f[i - 1], order[i], now)
  <2>1. N \in Nat
    BY <1>1
  <2>2. QED
    BY <2>1, PlannedIs DEF N
<1>3. \A n \in 0..(N - 1) : n \in Nat /\ n + 1 \in 1..N /\ n + 1 \in Nat /\ (n + 1) - 1 = n
  BY <1>1
<1>4. N \in 0..N /\ 0 \in Nat /\ \A i \in 1..N : i \in Nat /\ 0 < i
  BY <1>1
<1>5. RepairOK(f[0].reserved, f[0].jobs, L, now) /\ f[0].jobs = jobs
  BY <1>2, PrunedOK DEF PlanStart
<1> HIDE DEF L, N
<1>6. ASSUME NEW n \in 0..(N - 1)
      PROVE  f[n + 1] = Queued(f[n], order[n + 1], now) /\ GroupOK(order[n + 1], now)
  BY <1>1, <1>2, <1>3
<1>7. ASSUME NEW n \in 0..(N - 1)
      PROVE  /\ f[n].jobs \subseteq f[n + 1].jobs
             /\ \A p \in Panes : f[n].skipped[p] \subseteq f[n + 1].skipped[p]
  <2>1. PICK plan : plan = f[n]
    OBVIOUS
  <2>2. f[n + 1] = Queued(plan, order[n + 1], now)
    BY <1>6, <2>1
  <2>3. GroupOK(order[n + 1], now)
    BY <1>6
  <2>4. /\ plan.jobs \subseteq Queued(plan, order[n + 1], now).jobs
        /\ \A p \in Panes : plan.skipped[p] \subseteq Queued(plan, order[n + 1], now).skipped[p]
    BY <1>1, <2>3, QueuedGrows
  <2>5. QED
    BY <2>1, <2>2, <2>4
<1>8. RepairOK(f[N].reserved, f[N].jobs, L, now)
  <2> DEFINE S == {n \in Nat : RepairOK(f[n].reserved, f[n].jobs, L, now)}
  <2>1. \A n \in 0..(N - 1) : n \in S => n + 1 \in S
    BY <1>1, <1>3, <1>6, QueuedOK
  <2>2. 0 \in S
    BY <1>4, <1>5
  <2> HIDE DEF S
  <2>3. N \in S
    BY <1>1, <1>4, <2>1, <2>2, Climb
  <2>4. QED
    BY <2>3 DEF S
<1>9. jobs \subseteq f[N].jobs
  <2> DEFINE S == {n \in Nat : jobs \subseteq f[n].jobs}
  <2>1. \A n \in 0..(N - 1) : n \in S => n + 1 \in S
    BY <1>3, <1>7
  <2>2. 0 \in S
    BY <1>4, <1>5
  <2> HIDE DEF S
  <2>3. N \in S
    BY <1>1, <1>4, <2>1, <2>2, Climb
  <2>4. QED
    BY <2>3 DEF S
<1>10. ASSUME NEW g \in Planning(now), NEW p \in g.panes, NEW m \in g.from..g.to
       PROVE  m \in f[N].skipped[p] \/ m \in Remaining(p, f[N].jobs)
  <2>1. PICK k \in 1..N : order[k] = g
    BY <1>1
  <2>2. p \in Panes
    BY PlanningIs DEF GroupOK
  <2> DEFINE Served(n) == m \in f[n].skipped[p] \/ m \in Remaining(p, f[n].jobs)
             S == {n \in Nat : n < k \/ Served(n)}
  <2>3. ASSUME NEW n \in 0..(N - 1), n \in S
        PROVE  n + 1 \in S
    <3>1. CASE n + 1 < k
      BY <1>3, <3>1
    <3>2. CASE n + 1 = k
      <4>1. f[n + 1] = Queued(f[n], g, now) /\ GroupOK(g, now)
        BY <1>6, <2>1, <3>2
      <4>2. Served(n + 1)
        BY <1>1, <2>2, <4>1, QueuedServes
      <4>3. QED
        BY <1>3, <4>2
    <3>3. CASE k < n + 1
      <4>1. ~(n < k)
        BY <1>4, <3>3, <2>1
      <4>2. Served(n)
        BY <2>3, <4>1
      <4>3. Served(n + 1)
        BY <1>7, <2>2, <4>2, RemainingGrows
      <4>4. QED
        BY <1>3, <4>3
    <3>4. n \in Nat /\ k \in Nat
      BY <1>3, <1>4
    <3>5. QED
      BY <3>1, <3>2, <3>3, <3>4
  <2>4. 0 \in S
    BY <1>4, <2>1
  <2> HIDE DEF S
  <2>5. N \in S
    BY <1>1, <1>4, <2>3, <2>4, Climb
  <2>6. ~(N < k)
    BY <1>1, <2>1
  <2>7. QED
    BY <2>5, <2>6 DEF S
<1>11. QED
  BY <1>2, <1>8, <1>9, <1>10 DEF L, N

-----------------------------------------------------------------------------
(* The charts *)

LEMMA ChartFields ==
  ASSUME NEW c, DOMAIN c = Fields, NEW x, NEW y
  PROVE  /\ [c EXCEPT !.loaded = x].covered = c.covered
         /\ [c EXCEPT !.loaded = x].loaded = x
         /\ DOMAIN [c EXCEPT !.loaded = x] = Fields
         /\ [c EXCEPT !.loaded = x, !.live = y].covered = c.covered
         /\ [c EXCEPT !.loaded = x, !.live = y].loaded = x
         /\ DOMAIN [c EXCEPT !.loaded = x, !.live = y] = Fields
         /\ [c EXCEPT !.covered = x].covered = x
         /\ [c EXCEPT !.covered = x].loaded = c.loaded
         /\ DOMAIN [c EXCEPT !.covered = x] = Fields
         /\ [c EXCEPT !.covered = x, !.loaded = y].covered = x
         /\ [c EXCEPT !.covered = x, !.loaded = y].loaded = y
         /\ DOMAIN [c EXCEPT !.covered = x, !.loaded = y] = Fields
BY DEF Fields

LEMMA MarkedOK ==
  ASSUME NEW c, ChartOK(c), NEW a \in Moments, NEW b \in Moments
  PROVE  /\ MarkCovered(c.covered, a, b) \in SUBSET RangesUpTo(LastMoment)
         /\ Merged(MarkCovered(c.covered, a, b))
<1>1. c.covered \in SUBSET RangesUpTo(LastMoment) /\ Merged(c.covered)
  BY DEF ChartOK
<1>2. LastMoment \in Nat /\ a \in 0..LastMoment /\ b \in 0..LastMoment /\ b \in Int
  BY BackfillAssumption DEF Moments
<1>3. QED
  BY <1>1, <1>2, MarkedType, MarkedIsMerged

-----------------------------------------------------------------------------
(* One worker *)

LEMMA LaterOK ==
  ASSUME NEW R, NEW J, NEW L, NEW t \in Moments, NEW u \in Moments, t <= u,
         RepairOK(R, J, L, t)
  PROVE  RepairOK(R, J, L, u)
<1>1. \A x \in Moments : x <= t => x <= u
  BY BackfillAssumption DEF Moments
<1>2. \A r : ReservationOK(r, t) => ReservationOK(r, u)
  BY <1>1 DEF ReservationOK
<1>3. \A j : JobOK(j, t) => JobOK(j, u)
  BY <1>1 DEF JobOK
<1>4. QED
  BY <1>2, <1>3 DEF RepairOK

(* A worker is replaced by one with a part of its chunks; what it gives up *)
(* is released.                                                            *)
LEMMA ReplacedOK ==
  ASSUME NEW R, NEW J, NEW L, NEW t, RepairOK(R, J, L, t), NEW j \in J, NEW k, NEW S, NEW K,
         S \subseteq R,
         \A i : i \in K => i \in J \ {j} \/ i = k,
         J \ {j} \subseteq K,
         k \in K => JobOK(k, t) /\ k.stream = j.stream,
         \A c \in Chunk2 : k \in K /\ Has(k, c) => Has(j, c) /\ \A r \in R :
            r.stream = j.stream /\ r.from = c.from /\ r.to = c.to => r \in S,
         \A c \in Chunk2 : Has(j, c) => \/ k \in K /\ Has(k, c)
                                        \/ ~IsReserved(S, j.stream, c),
         \A r \in R : r \in S \/ (\E c \in Chunk2 : Has(j, c) /\ r.stream = j.stream
                                                    /\ r.from = c.from /\ r.to = c.to)
  PROVE  RepairOK(S, K, L, t)
<1>1. /\ \A r \in R : ReservationOK(r, t)
      /\ \A i \in J : JobOK(i, t)
      /\ Worked(R, J) /\ Held(R, J, L) /\ Apart(J, L)
  BY DEF RepairOK
<1>2. \A i \in K : JobOK(i, t)
  BY <1>1
<1>3. Worked(S, K)
  <2>1. ASSUME NEW r \in S
        PROVE  \E i \in K : /\ i.stream = r.stream
                            /\ \E c \in Chunk2 : Has(i, c) /\ c.from = r.from /\ c.to = r.to
    <3>1. PICK i \in J : /\ i.stream = r.stream
                         /\ \E c \in Chunk2 : Has(i, c) /\ c.from = r.from /\ c.to = r.to
      BY <1>1 DEF Worked
    <3>2. PICK c \in Chunk2 : Has(i, c) /\ c.from = r.from /\ c.to = r.to
      BY <3>1
    <3>3. CASE i = j
      <4>1. IsReserved(S, j.stream, c)
        BY <3>1, <3>2, <3>3 DEF IsReserved
      <4>2. k \in K /\ Has(k, c) /\ k.stream = j.stream
        BY <3>2, <3>3, <4>1
      <4>3. QED
        BY <3>1, <3>2, <3>3, <4>2
    <3>4. CASE i # j
      BY <3>1, <3>2, <3>4
    <3>5. QED
      BY <3>3, <3>4
  <2>2. QED
    BY <2>1 DEF Worked
<1>4. Held(S, K, L)
  <2>1. ASSUME NEW i \in K, NEW c \in Chunk2, Has(i, c)
        PROVE  IsReserved(S, i.stream, c) \/ RangeOf(i.stream, c) \in L
    <3>1. CASE i = k
      <4>1. Has(j, c) /\ i.stream = j.stream
        BY <2>1, <3>1
      <4>2. IsReserved(R, j.stream, c) \/ RangeOf(j.stream, c) \in L
        BY <1>1, <4>1 DEF Held
      <4>3. \A r \in R : r.stream = j.stream /\ r.from = c.from /\ r.to = c.to => r \in S
        BY <2>1, <3>1
      <4>4. QED
        BY <4>1, <4>2, <4>3 DEF IsReserved
    <3>2. CASE i \in J /\ i # j
      <4>1. IsReserved(R, i.stream, c) \/ RangeOf(i.stream, c) \in L
        BY <1>1, <2>1, <3>2 DEF Held
      <4>2. ASSUME NEW r \in R, r.stream = i.stream, r.from = c.from, r.to = c.to, r \notin S
            PROVE  RangeOf(i.stream, c) \in L
        <5>1. PICK d \in Chunk2 : Has(j, d) /\ r.stream = j.stream
                                  /\ r.from = d.from /\ r.to = d.to
          BY <4>2
        <5>2. c.from <= c.to
          BY <1>2, <2>1, HasIs
        <5>3. Overlap(c, d) /\ RangeOf(i.stream, c) = RangeOf(j.stream, d)
          BY <4>2, <5>1, <5>2 DEF Overlap, RangeOf
        <5>4. i \in J /\ j \in J /\ i # j /\ i.stream = j.stream /\ Has(i, c) /\ Has(j, d)
          BY <2>1, <3>2, <4>2, <5>1
        <5>5. RangeOf(i.stream, c) \in L \/ RangeOf(j.stream, d) \in L
          BY <1>1, <2>1, <5>1, <5>3, <5>4 DEF Apart
        <5>6. QED
          BY <5>3, <5>5
      <4>3. QED
        BY <4>1, <4>2 DEF IsReserved
    <3>3. QED
      BY <3>1, <3>2
  <2>2. QED
    BY <2>1 DEF Held
<1>5. Apart(K, L)
  <2>1. ASSUME NEW x \in K, NEW y \in K, NEW c \in Chunk2, NEW d \in Chunk2,
               x # y, x.stream = y.stream, Has(x, c), Has(y, d), Overlap(c, d)
        PROVE  RangeOf(x.stream, c) \in L \/ RangeOf(y.stream, d) \in L
    <3>1. CASE x \in J \ {j} /\ y \in J \ {j}
      BY <1>1, <2>1, <3>1 DEF Apart
    <3>2. CASE x = k /\ y \in J \ {j}
      <4>1. Has(j, c) /\ j # y /\ j.stream = x.stream
        BY <2>1, <3>2
      <4>2. QED
        BY <1>1, <2>1, <3>2, <4>1 DEF Apart
    <3>3. CASE x \in J \ {j} /\ y = k
      <4>1. Has(j, d) /\ j # x /\ j.stream = y.stream
        BY <2>1, <3>3
      <4>2. QED
        BY <1>1, <2>1, <3>3, <4>1 DEF Apart
    <3>4. QED
      BY <2>1, <3>1, <3>2, <3>3
  <2>2. QED
    BY <2>1 DEF Apart
<1>6. QED
  BY <1>1, <1>2, <1>3, <1>4, <1>5 DEF RepairOK

-----------------------------------------------------------------------------
(* The dashboard's operations *)

DashInv ==
  /\ BoardInv
  /\ RepairOK(reserved, jobs, lapsed, now)
  /\ DOMAIN left = Panes

(* The moments of pane p that are loaded, given up or being downloaded.    *)
Accounted(p) == charts[p].loaded \cup left[p] \cup Remaining(p, jobs)

NothingForgotten == \A p \in Panes : \A m : m \in Accounted(p) => m \in Accounted(p)'

LEMMA MomentsAre ==
  /\ LastMoment \in Nat /\ Moments = 0..LastMoment /\ Traded \subseteq Moments
  /\ NoMoment = -1 /\ \A m \in Moments : m \in Nat /\ m # NoMoment
  /\ \A p \in Panes : StreamOf[p] \in TradeStreams
BY BackfillAssumption DEF Moments, NoMoment

(* A live trade comes in.                                                  *)
LEMMA IngestOK ==
  ASSUME DashInv, NEW s \in TradeStreams, NEW m \in Traded, m <= now, Ingest(s, m),
         now' = now
  PROVE  /\ DashInv' /\ NothingForgotten /\ gaps' = gaps
         /\ \A p \in Panes : StreamOf[p] = s => m \in Accounted(p)'
         /\ lastLive'[s] # NoMoment /\ lastLive'[s] \in {lastLive[s], m}
         /\ \A u \in TradeStreams : u # s => lastLive'[u] = lastLive[u]
<1>1. /\ UNCHANGED <<gaps, reserved, jobs, left, lapsed>>
      /\ lastLive' = [lastLive EXCEPT ![s] = Max({@, m})]
      /\ charts' = [p \in Panes |->
           IF StreamOf[p] = s
             THEN [charts[p] EXCEPT !.loaded = @ \cup {m},
                     !.live = IF p \in LivePanes THEN @ \cup {CandleOf(m)} ELSE @]
             ELSE charts[p]]
  BY DEF Ingest
<1>2. /\ now \in Moments /\ DOMAIN charts = Panes
      /\ lastLive \in [TradeStreams -> Moments \cup {NoMoment}]
      /\ gaps \in [TradeStreams -> Moments \cup {NoMoment}]
      /\ \A u \in TradeStreams : gaps[u] <= lastLive[u] /\ lastLive[u] <= now
      /\ \A p \in Panes : ChartOK(charts[p])
      /\ DOMAIN left = Panes
      /\ RepairOK(reserved, jobs, lapsed, now)
  BY DEF DashInv, BoardInv
<1>3. /\ m \in Nat /\ m \in Moments /\ now \in Nat
      /\ lastLive[s] \in Int /\ gaps[s] \in Int /\ m # NoMoment /\ -1 <= lastLive[s]
      /\ NoMoment = -1
  BY <1>2, MomentsAre
<1>4. PICK x : x = Max({lastLive[s], m})
  OBVIOUS
<1>5. x \in {lastLive[s], m} /\ lastLive[s] <= x /\ m <= x
  <2>1. PICK a \in Int : a = lastLive[s]
    BY <1>3
  <2>2. m \in Int /\ x = Max({a, m})
    BY <1>3, <1>4, <2>1
  <2>3. x \in {a, m} /\ a <= x /\ m <= x
    BY <2>2, SmallerIs
  <2>4. QED
    BY <2>1, <2>3
<1>6. /\ lastLive' = [lastLive EXCEPT ![s] = x]
      /\ x \in Moments /\ x <= now /\ gaps[s] <= x /\ x # NoMoment
  <2>1. lastLive' = [lastLive EXCEPT ![s] = x]
    BY <1>1, <1>4
  <2>2. lastLive[s] = x => x \in Moments
    BY <1>2, <1>3, <1>5
  <2>3. x \in Moments /\ x <= now
    BY <1>2, <1>3, <1>5, <2>2
  <2>4. gaps[s] <= x
    BY <1>2, <1>3, <1>5
  <2>5. x # NoMoment
    BY <1>3, <1>5
  <2>6. QED
    BY <2>1, <2>3, <2>4, <2>5
<1>7. /\ lastLive' \in [TradeStreams -> Moments \cup {NoMoment}]
      /\ lastLive'[s] = x
      /\ \A u \in TradeStreams : u # s => lastLive'[u] = lastLive[u]
  BY <1>2, <1>6
<1>8. \A u \in TradeStreams : gaps[u] <= lastLive'[u] /\ lastLive'[u] <= now
  BY <1>2, <1>6, <1>7
<1>9. ASSUME NEW p \in Panes
      PROVE  /\ ChartOK(charts'[p])
             /\ charts'[p].loaded = charts[p].loaded \cup (IF StreamOf[p] = s THEN {m} ELSE {})
  <2>1. CASE StreamOf[p] = s
    <3>1. PICK b, l : charts'[p] = [charts[p] EXCEPT !.loaded = l, !.live = b]
                      /\ l = charts[p].loaded \cup {m}
      BY <1>1, <2>1
    <3>2. ChartOK(charts[p]) /\ DOMAIN charts[p] = Fields
      BY <1>2 DEF ChartOK
    <3>3. /\ charts'[p].covered = charts[p].covered /\ charts'[p].loaded = l
          /\ DOMAIN charts'[p] = Fields
      BY <3>1, <3>2, ChartFields
    <3>4. l \subseteq Traded
      BY <3>1, <3>2 DEF ChartOK
    <3>5. QED
      BY <2>1, <3>1, <3>2, <3>3, <3>4 DEF ChartOK
  <2>2. CASE StreamOf[p] # s
    BY <1>1, <1>2, <2>2
  <2>3. QED
    BY <2>1, <2>2
<1>10. DOMAIN charts' = Panes
  BY <1>1
<1>11. DashInv'
  BY <1>1, <1>2, <1>7, <1>8, <1>9, <1>10 DEF DashInv, BoardInv
<1>12. \A p \in Panes : Accounted(p)' = charts'[p].loaded \cup left[p] \cup Remaining(p, jobs)
  BY <1>1 DEF Accounted
<1>13. NothingForgotten /\ \A p \in Panes : StreamOf[p] = s => m \in Accounted(p)'
  BY <1>9, <1>12 DEF NothingForgotten, Accounted
<1>14. QED
  BY <1>1, <1>5, <1>6, <1>7, <1>11, <1>13

(* A break is noted.                                                       *)
LEMMA FirstBreakIs ==
  ASSUME DashInv, NEW s \in TradeStreams
  PROVE  /\ FirstBreak(s) \in Moments \cup {NoMoment} /\ FirstBreak(s) <= lastLive[s]
         /\ FirstBreak(s) = NoMoment => lastLive[s] = NoMoment /\ gaps[s] = NoMoment
         /\ gaps[s] # NoMoment => FirstBreak(s) <= gaps[s]
<1>1. /\ lastLive[s] \in Moments \cup {NoMoment} /\ gaps[s] \in Moments \cup {NoMoment}
      /\ gaps[s] <= lastLive[s]
  BY DEF DashInv, BoardInv
<1>2. lastLive[s] \in Int /\ gaps[s] \in Int /\ NoMoment = -1
      /\ \A m \in Moments : m \in Nat
  BY <1>1, MomentsAre
<1>3. PICK x : x = Min({gaps[s], lastLive[s]})
  OBVIOUS
<1>4. x \in {gaps[s], lastLive[s]} /\ x <= gaps[s] /\ x <= lastLive[s]
  BY <1>2, <1>3, SmallerIs
<1>5. FirstBreak(s) = IF gaps[s] = NoMoment THEN lastLive[s]
                      ELSE IF lastLive[s] = NoMoment THEN gaps[s] ELSE x
  BY <1>3 DEF FirstBreak
<1>6. QED
  BY <1>1, <1>2, <1>4, <1>5

LEMMA RecordGapsOK ==
  ASSUME DashInv, NEW S, RecordGaps(S), now' = now
  PROVE  /\ DashInv' /\ NothingForgotten /\ lastLive' = lastLive
         /\ \A s \in TradeStreams : gaps'[s] = IF s \in S THEN FirstBreak(s) ELSE gaps[s]
<1>1. /\ UNCHANGED <<lastLive, reserved, jobs, charts, left, lapsed>>
      /\ gaps' = [s \in TradeStreams |-> IF s \in S THEN FirstBreak(s) ELSE gaps[s]]
  BY DEF RecordGaps
<1>2. \A s \in TradeStreams : FirstBreak(s) \in Moments \cup {NoMoment}
                              /\ FirstBreak(s) <= lastLive[s]
  BY FirstBreakIs
<1>3. gaps' \in [TradeStreams -> Moments \cup {NoMoment}]
  BY <1>1, <1>2 DEF DashInv, BoardInv
<1>4. \A s \in TradeStreams : gaps'[s] <= lastLive[s] /\ lastLive[s] <= now
  BY <1>1, <1>2 DEF DashInv, BoardInv
<1>5. DashInv'
  BY <1>1, <1>3, <1>4 DEF DashInv, BoardInv
<1>6. NothingForgotten
  BY <1>1 DEF NothingForgotten, Accounted
<1>7. QED
  BY <1>1, <1>5, <1>6

(* The noted gaps are planned.                                             *)
LEMMA GapIsPlanned ==
  ASSUME DashInv, NEW order \in Plans(now), NEW p \in Panes,
         gaps[StreamOf[p]] # NoMoment, NEW m \in (gaps[StreamOf[p]] + 1)..now
  PROVE  LET plan == Planned(order, now) IN
         m \in Unplanned(p, now) \cup plan.skipped[p] \cup Remaining(p, plan.jobs)
<1> DEFINE plan == Planned(order, now)
           s == StreamOf[p]
           gap == Missing(p, now)
<1>1. BoardInv /\ RepairOK(reserved, jobs, lapsed, now)
  BY DEF DashInv
<1>2. \A g \in Planning(now) : \A q \in g.panes : \A x \in g.from..g.to :
        x \in plan.skipped[q] \/ x \in Remaining(q, plan.jobs)
  BY <1>1, PlannedOK
<1> HIDE DEF plan
<1>3. CASE Worthwhile(s, now) /\ gap # NoGap /\ m \in Span(gap)
  <2>1. PICK g \in Planning(now) : p \in g.panes /\ g.from = gap.from /\ g.to = gap.to
    BY <1>1, <1>3, PaneIsPlanned
  <2>2. m \in g.from..g.to
    BY <1>3, <2>1 DEF Span
  <2>3. QED
    BY <1>2, <2>1, <2>2 DEF plan
<1>4. CASE ~(Worthwhile(s, now) /\ gap # NoGap /\ m \in Span(gap))
  <2>1. Unplanned(p, now)
          = ((gaps[s] + 1)..now) \ (IF Worthwhile(s, now) /\ gap # NoGap THEN Span(gap) ELSE {})
    BY DEF Unplanned
  <2>2. m \in Unplanned(p, now)
    <3> HIDE DEF gap
    <3>1. QED
      BY <1>4, <2>1 DEF s
  <2>3. QED
    BY <2>2
<1>5. QED
  BY <1>3, <1>4

LEMMA NoRepairs ==
  ASSUME NEW L, NEW t
  PROVE  RepairOK({}, {}, L, t)
BY DEF RepairOK, Worked, Held, Apart

(* The gaps are taken: no moment of them is forgotten.                     *)
LEMMA ExecuteOK ==
  ASSUME DashInv, NEW ticking \in BOOLEAN, Execute(now, ticking), now' = now
  PROVE  /\ DashInv' /\ NothingForgotten /\ lastLive' = lastLive
         /\ \A s \in TradeStreams : gaps'[s] = NoMoment
         /\ \A p \in Panes : \A m \in (gaps[StreamOf[p]] + 1)..now :
              gaps[StreamOf[p]] # NoMoment => m \in Accounted(p)'
<1>1. /\ gaps' = [s \in TradeStreams |-> NoMoment]
      /\ lapsed' = lapsed \cup {RangeOf(r.stream, r) : r \in Expired(now)}
      /\ UNCHANGED <<lastLive, charts>>
  BY DEF Execute
<1>2. PICK order \in Plans(now) :
        LET plan == Planned(order, now)
            aborted == IF ticking /\ plan.reserved = {} THEN plan.jobs ELSE {}
        IN  /\ reserved' = plan.reserved
            /\ jobs' = plan.jobs \ aborted
            /\ left' = [p \in Panes |-> left[p] \cup Unplanned(p, now)
                          \cup plan.skipped[p] \cup Remaining(p, aborted)]
  BY DEF Execute
<1> DEFINE plan == Planned(order, now)
           aborted == IF ticking /\ plan.reserved = {} THEN plan.jobs ELSE {}
<1>3. /\ reserved' = plan.reserved
      /\ jobs' = plan.jobs \ aborted
      /\ left' = [p \in Panes |-> left[p] \cup Unplanned(p, now)
                          \cup plan.skipped[p] \cup Remaining(p, aborted)]
      /\ aborted = IF ticking /\ plan.reserved = {} THEN plan.jobs ELSE {}
  BY <1>2
<1>4. BoardInv /\ RepairOK(reserved, jobs, lapsed, now)
  BY DEF DashInv
<1>5. /\ RepairOK(plan.reserved, plan.jobs, lapsed', now)
      /\ jobs \subseteq plan.jobs
  BY <1>1, <1>4, PlannedOK
<1>6. ASSUME NEW p \in Panes, gaps[StreamOf[p]] # NoMoment, NEW m \in (gaps[StreamOf[p]] + 1)..now
      PROVE  m \in Unplanned(p, now) \cup plan.skipped[p] \cup Remaining(p, plan.jobs)
  BY <1>6, GapIsPlanned
<1> HIDE DEF plan, aborted
<1>7. RepairOK(reserved', jobs', lapsed', now')
  <2>1. CASE ticking /\ plan.reserved = {}
    <3>1. reserved' = {} /\ jobs' = {}
      BY <1>3, <2>1
    <3>2. QED
      BY <3>1, NoRepairs
  <2>2. CASE ~(ticking /\ plan.reserved = {})
    <3>1. reserved' = plan.reserved /\ jobs' = plan.jobs
      BY <1>3, <2>2
    <3>2. QED
      BY <1>5, <3>1
  <2>3. QED
    BY <2>1, <2>2
<1>8. \A s \in TradeStreams : NoMoment <= lastLive[s] /\ lastLive[s] <= now
  <2>1. ASSUME NEW s \in TradeStreams
        PROVE  NoMoment <= lastLive[s] /\ lastLive[s] <= now
    <3>1. lastLive[s] \in Moments \cup {NoMoment} /\ lastLive[s] <= now
      BY <1>4 DEF BoardInv
    <3>2. QED
      BY <3>1, MomentsAre
  <2>2. QED
    BY <2>1
<1>9. BoardInv'
  BY <1>1, <1>4, <1>8 DEF BoardInv
<1>10. DashInv'
  BY <1>3, <1>7, <1>9 DEF DashInv
<1>11. ASSUME NEW p \in Panes
       PROVE  Remaining(p, plan.jobs) \subseteq Remaining(p, jobs') \cup Remaining(p, aborted)
  BY <1>3 DEF Remaining
<1>12. ASSUME NEW p \in Panes
       PROVE  Remaining(p, jobs) \subseteq Remaining(p, plan.jobs)
  BY <1>5, RemainingGrows
<1>13. \A p \in Panes : /\ Accounted(p)' = charts[p].loaded \cup left'[p] \cup Remaining(p, jobs')
                        /\ left'[p] = left[p] \cup Unplanned(p, now)
                             \cup plan.skipped[p] \cup Remaining(p, aborted)
  BY <1>1, <1>3 DEF Accounted
<1>14. NothingForgotten
  BY <1>11, <1>12, <1>13 DEF NothingForgotten, Accounted
<1>15. \A p \in Panes : \A m \in (gaps[StreamOf[p]] + 1)..now :
              gaps[StreamOf[p]] # NoMoment => m \in Accounted(p)'
  BY <1>6, <1>11, <1>13
<1>16. QED
  BY <1>1, <1>10, <1>14, <1>15

-----------------------------------------------------------------------------
(* What the workers do *)

LEMMA JobWith ==
  ASSUME NEW j, DOMAIN j = JobFields, NEW x, NEW y
  PROVE  LET k == [j EXCEPT !.upTo = x]
             n == [j EXCEPT !.chunks = y, !.upTo = x]
         IN  /\ DOMAIN k = JobFields /\ DOMAIN n = JobFields
             /\ k.stream = j.stream /\ k.panes = j.panes /\ k.born = j.born
             /\ n.stream = j.stream /\ n.panes = j.panes /\ n.born = j.born
             /\ k.chunks = j.chunks /\ k.upTo = x
             /\ n.chunks = y /\ n.upTo = x
BY DEF JobFields

(* The rest of job j's current chunk, and the chunks behind it.            *)
Rest(j) == (j.upTo + 1)..Current(j).to
Behind(j) == UNION {Span(c) : c \in ToSet(Tail(j.chunks))}

LEMMA JobIs ==
  ASSUME NEW t, NEW j, JobOK(j, t)
  PROVE  /\ Due(j) = Rest(j) \cup Behind(j)
         /\ j.chunks \in Seq(Chunk2) /\ j.chunks # <<>> /\ Len(j.chunks) \in Nat \ {0}
         /\ Current(j) = j.chunks[1] /\ Current(j) \in Chunk2 /\ Has(j, Current(j))
         /\ j.upTo \in Int /\ Current(j).from - 1 <= j.upTo /\ j.upTo <= Current(j).to
         /\ Current(j).from \in Nat /\ Current(j).to \in Nat
         /\ Current(j).from <= Current(j).to
<1>1. /\ j.chunks \in Seq(Chunk2) /\ j.chunks # <<>>
      /\ j.upTo \in (Current(j).from - 1)..Current(j).to
      /\ \A i \in 1..Len(j.chunks) : j.chunks[i].from <= j.chunks[i].to
  BY DEF JobOK
<1>2. /\ Len(j.chunks) \in Nat \ {0} /\ 1 \in 1..Len(j.chunks)
      /\ Current(j) = j.chunks[1] /\ j.chunks[1] \in Chunk2
  BY <1>1, HeadIs DEF Current
<1>3. Current(j).from \in Nat /\ Current(j).to \in Nat
  BY <1>2, ChunkFields
<1>4. Due(j) = Rest(j) \cup Behind(j)
  BY DEF Due, Rest, Behind
<1>5. Has(j, Current(j)) /\ Current(j).from <= Current(j).to
  BY <1>1, <1>2 DEF Has
<1>6. QED
  BY <1>1, <1>2, <1>3, <1>4, <1>5

(* What is done for some panes changes the others' account in nothing; for *)
(* these, what the worker is no longer to bring must be accounted for.     *)
LEMMA WorkerAccounts ==
  ASSUME NEW j \in jobs, jobs \ {j} \subseteq jobs',
         \A p \in Panes : charts[p].loaded \subseteq charts'[p].loaded /\ left[p] \subseteq left'[p],
         \A p \in j.panes : p \in Panes => \A m \in Due(j) :
           \/ m \in charts'[p].loaded \/ m \in left'[p]
           \/ \E k \in jobs' : p \in k.panes /\ m \in Due(k)
  PROVE  NothingForgotten
<1>1. ASSUME NEW p \in Panes, NEW m \in Remaining(p, jobs)
      PROVE  m \in Accounted(p)'
  <2>1. PICK i \in jobs : p \in i.panes /\ m \in Due(i)
    BY <1>1 DEF Remaining
  <2>2. CASE i = j
    <3>1. \/ m \in charts'[p].loaded \/ m \in left'[p]
          \/ \E k \in jobs' : p \in k.panes /\ m \in Due(k)
      BY <2>1, <2>2
    <3>2. QED
      BY <3>1 DEF Accounted, Remaining
  <2>3. CASE i # j
    BY <2>1, <2>3 DEF Accounted, Remaining
  <2>4. QED
    BY <2>2, <2>3
<1>2. ASSUME NEW p \in Panes, NEW m, m \in charts[p].loaded \/ m \in left[p]
      PROVE  m \in Accounted(p)'
  BY <1>2 DEF Accounted
<1>3. QED
  BY <1>1, <1>2 DEF NothingForgotten, Accounted

LEMMA DashFields ==
  ASSUME DashInv
  PROVE  /\ now \in Moments /\ DOMAIN charts = Panes /\ DOMAIN left = Panes
         /\ \A p \in Panes : ChartOK(charts[p])
         /\ \A j \in jobs : JobOK(j, now)
         /\ RepairOK(reserved, jobs, lapsed, now)
BY DEF DashInv, BoardInv, RepairOK

LEMMA BoardKept ==
  ASSUME BoardInv, now' = now, lastLive' = lastLive, gaps' = gaps,
         DOMAIN charts' = Panes, \A p \in Panes : ChartOK(charts'[p])
  PROVE  BoardInv'
BY DEF BoardInv

LEMMA DeliverOK ==
  ASSUME DashInv, NEW j \in jobs, NEW m, Deliver(j, m), now' = now
  PROVE  DashInv' /\ NothingForgotten
<1> DEFINE fresh == (j.upTo + 1)..m
           k == [j EXCEPT !.upTo = m]
<1>1. /\ m \in (j.upTo + 1)..Current(j).to
      /\ charts' = [p \in Panes |->
           IF p \in j.panes THEN [charts[p] EXCEPT !.loaded = @ \cup Kept(p, fresh)]
           ELSE charts[p]]
      /\ left' = [p \in Panes |->
           IF p \in j.panes THEN left[p] \cup (fresh \ Kept(p, fresh)) ELSE left[p]]
      /\ jobs' = (jobs \ {j}) \cup {k}
      /\ UNCHANGED <<lastLive, gaps, reserved, lapsed>>
  BY DEF Deliver
<1>2. JobOK(j, now) /\ DOMAIN j = JobFields
  BY DashFields DEF JobOK
<1>3. /\ DOMAIN k = JobFields
      /\ k.stream = j.stream /\ k.panes = j.panes /\ k.born = j.born
      /\ k.chunks = j.chunks /\ k.upTo = m
  BY <1>2, JobWith
<1>4. Current(k) = Current(j) /\ Behind(k) = Behind(j)
  BY <1>3 DEF Current, Behind
<1>5. /\ Due(j) = Rest(j) \cup Behind(j)
      /\ j.upTo \in Int /\ Current(j).from - 1 <= j.upTo
      /\ Current(j).from \in Nat /\ Current(j).to \in Nat
      /\ m \in Int
  BY <1>1, <1>2, JobIs
<1>6. JobOK(k, now)
  <2>1. m \in (Current(j).from - 1)..Current(j).to
    BY <1>1, <1>5
  <2> HIDE DEF k
  <2>2. QED
    BY <1>2, <1>3, <1>4, <2>1 DEF JobOK
<1>7. Due(k) = Rest(k) \cup Behind(k)
  BY <1>6, JobIs
<1>8. RepairOK(reserved', jobs', lapsed', now')
  <2>1. \A c : Has(k, c) <=> Has(j, c)
    BY <1>3 DEF Has
  <2>2. RepairOK(reserved, jobs, lapsed, now)
    BY DEF DashInv
  <2> HIDE DEF k
  <2>3. RepairOK(reserved, jobs', lapsed, now)
    BY <1>1, <1>3, <1>6, <2>1, <2>2, ReplacedOK
  <2>4. QED
    BY <1>1, <2>3
<1>9. ASSUME NEW p \in Panes
      PROVE  /\ ChartOK(charts'[p])
             /\ charts'[p].loaded = charts[p].loaded \cup
                  (IF p \in j.panes THEN Kept(p, fresh) ELSE {})
  <2>1. ChartOK(charts[p]) /\ Kept(p, fresh) \subseteq Traded
    BY DashFields DEF Kept
  <2> HIDE DEF fresh
  <2>2. CASE p \in j.panes
    <3>1. PICK l : /\ charts'[p] = [charts[p] EXCEPT !.loaded = l]
                   /\ l = charts[p].loaded \cup Kept(p, fresh)
      BY <1>1, <2>2
    <3>2. /\ charts'[p].covered = charts[p].covered /\ charts'[p].loaded = l
          /\ DOMAIN charts'[p] = Fields
      BY <2>1, <3>1, ChartFields DEF ChartOK
    <3>3. QED
      BY <2>1, <2>2, <3>1, <3>2 DEF ChartOK
  <2>3. CASE p \notin j.panes
    BY <1>1, <2>1, <2>3
  <2>4. QED
    BY <2>2, <2>3
<1>10. DOMAIN charts' = Panes /\ DOMAIN left' = Panes
  BY <1>1
<1>11. DashInv'
  BY <1>1, <1>8, <1>9, <1>10, BoardKept DEF DashInv
<1>12. Rest(j) \subseteq fresh \cup Rest(k)
  BY <1>1, <1>3, <1>4, <1>5 DEF Rest
<1>13. \A p \in Panes : left'[p] = IF p \in j.panes THEN left[p] \cup (fresh \ Kept(p, fresh))
                                   ELSE left[p]
  BY <1>1
<1>14. k \in jobs' /\ jobs \ {j} \subseteq jobs' /\ k.panes = j.panes
  BY <1>1, <1>3
<1> HIDE DEF fresh, k
<1>15. \A p \in j.panes : p \in Panes => \A x \in Due(j) :
         \/ x \in charts'[p].loaded \/ x \in left'[p]
         \/ \E i \in jobs' : p \in i.panes /\ x \in Due(i)
  <2>1. ASSUME NEW p \in j.panes, p \in Panes, NEW x \in Due(j)
        PROVE  \/ x \in charts'[p].loaded \/ x \in left'[p]
               \/ \E i \in jobs' : p \in i.panes /\ x \in Due(i)
    <3>1. x \in fresh \/ x \in Due(k)
      BY <1>4, <1>5, <1>7, <1>12
    <3>2. CASE x \in fresh
      BY <1>9, <1>13, <2>1, <3>2
    <3>3. CASE x \in Due(k)
      BY <1>14, <3>3
    <3>4. QED
      BY <3>1, <3>2, <3>3
  <2>2. QED
    BY <2>1
<1>16. NothingForgotten
  BY <1>9, <1>13, <1>14, <1>15, WorkerAccounts
<1>17. QED
  BY <1>11, <1>16

LEMMA InSet ==
  ASSUME NEW S, NEW q \in Seq(S)
  PROVE  \A e : e \in ToSet(q) <=> \E i \in 1..Len(q) : q[i] = e
<1>1. DOMAIN q = 1..Len(q)
  BY LenProperties
<1>2. QED
  BY <1>1 DEF ToSet

IsSuccessor(k, j) ==
  k = [j EXCEPT !.chunks = Tail(j.chunks), !.upTo = j.chunks[2].from - 1]

(* The chunks behind the current one are those of the successor.           *)
LEMMA SuccessorIs ==
  ASSUME NEW t, NEW j, JobOK(j, t), Len(j.chunks) # 1, NEW k,
         IsSuccessor(k, j)
  PROVE  /\ JobOK(k, t) /\ k.stream = j.stream /\ k.panes = j.panes
         /\ \A c \in Chunk2 : Has(j, c) <=> c = Current(j) \/ Has(k, c)
         /\ ~Has(k, Current(j))
         /\ Behind(j) \subseteq Due(k)
<1> DEFINE q == j.chunks
           y == Tail(q)
           n == Len(q)
<1>1. /\ DOMAIN j = JobFields
      /\ j.stream \in TradeStreams /\ j.panes \in SUBSET Panes /\ j.panes # {}
      /\ q \in Seq(Chunk2) /\ q # <<>>
      /\ j.born \in Moments /\ j.born <= t
      /\ \A i \in 1..n : q[i].from <= q[i].to /\ q[i].to <= j.born
      /\ \A i, l \in 1..n : i # l => q[i] # q[l]
  BY DEF JobOK
<1>2. n \in Nat \ {0} /\ n # 1 /\ Current(j) = q[1]
  BY JobIs
<1>3. /\ y \in Seq(Chunk2) /\ Len(y) = n - 1
      /\ \A i \in 1..(n - 1) : y[i] = q[i + 1] /\ i + 1 \in 1..n
      /\ \A i \in 1..n : i = 1 \/ i - 1 \in 1..(n - 1)
  BY <1>1, HeadIs
<1>4. /\ DOMAIN k = JobFields /\ k.stream = j.stream /\ k.panes = j.panes /\ k.born = j.born
      /\ k.chunks = y /\ k.upTo = q[2].from - 1
  BY <1>1, JobWith DEF IsSuccessor
<1> HIDE DEF y, n, q
<1>5. 1 \in 1..(n - 1) /\ y[1] = q[2] /\ y # <<>> /\ 1 \in 1..n /\ 2 \in 1..n
  <2>1. 1 \in 1..(n - 1) /\ 1 \in 1..n /\ 2 \in 1..n /\ 1 + 1 = 2
    BY <1>2
  <2>2. y[1] = q[2]
    BY <1>3, <2>1
  <2>3. y # <<>>
    <3>1. Len(y) # 0
      BY <1>2, <1>3
    <3>2. QED
      BY <3>1
  <2>4. QED
    BY <2>1, <2>2, <2>3
<1>6. Current(k) = q[2] /\ q[2] \in Chunk2
  <2>1. Head(y) = y[1] /\ y[1] \in Chunk2
    BY <1>3, <1>5, HeadIs
  <2>2. QED
    BY <1>4, <1>5, <2>1 DEF Current
<1>7. /\ q[2].from \in Nat /\ q[2].to \in Nat /\ q[2].from <= q[2].to
  BY <1>1, <1>5, <1>6, ChunkFields
<1>8. /\ \A i \in 1..(n - 1) : y[i].from <= y[i].to /\ y[i].to <= j.born
      /\ \A i, l \in 1..(n - 1) : i # l => y[i] # y[l]
  <2>1. \A i, l \in 1..(n - 1) : i # l => i + 1 # l + 1
    OBVIOUS
  <2>2. ASSUME NEW i \in 1..(n - 1)
        PROVE  y[i].from <= y[i].to /\ y[i].to <= j.born
    BY <1>1, <1>3
  <2>3. ASSUME NEW i \in 1..(n - 1), NEW l \in 1..(n - 1), i # l
        PROVE  y[i] # y[l]
    BY <1>1, <1>3, <2>1, <2>3
  <2>4. QED
    BY <2>2, <2>3
<1>9. k.upTo \in (Current(k).from - 1)..Current(k).to
  BY <1>4, <1>6, <1>7
<1>10. JobOK(k, t)
  BY <1>1, <1>3, <1>4, <1>5, <1>8, <1>9 DEF JobOK
<1>11. ASSUME NEW c, Has(j, c)
       PROVE  c = Current(j) \/ Has(k, c)
  <2>1. PICK i \in 1..n : q[i] = c
    BY <1>11 DEF Has, n, q
  <2>2. CASE i = 1
    BY <1>2, <2>1, <2>2
  <2>3. CASE i # 1
    <3>1. i - 1 \in 1..(n - 1) /\ (i - 1) + 1 = i
      BY <1>2, <1>3, <2>3
    <3>2. y[i - 1] = c
      BY <1>3, <2>1, <3>1
    <3>3. QED
      BY <1>3, <1>4, <3>1, <3>2 DEF Has
  <2>4. QED
    BY <2>2, <2>3
<1>12. ASSUME NEW c, Has(k, c)
       PROVE  Has(j, c) /\ c # Current(j)
  <2>1. PICK i \in 1..(n - 1) : y[i] = c
    BY <1>3, <1>4, <1>12 DEF Has
  <2>2. i + 1 \in 1..n /\ q[i + 1] = c /\ i + 1 # 1
    BY <1>3, <2>1
  <2>3. c # q[1]
    BY <1>1, <1>5, <2>2
  <2>4. QED
    BY <1>2, <2>2, <2>3 DEF Has, n, q
<1>13. Has(j, Current(j))
  BY JobIs
<1>14. ASSUME NEW x \in Behind(j)
       PROVE  x \in Due(k)
  <2>1. PICK i \in 1..(n - 1) : x \in Span(y[i])
    <3>1. \A e : e \in ToSet(y) <=> \E i \in 1..Len(y) : y[i] = e
      BY <1>3, InSet
    <3>2. QED
      BY <1>3, <3>1 DEF Behind, y, q
  <2>2. Due(k) = Rest(k) \cup Behind(k)
    BY <1>10, JobIs
  <2>3. CASE i = 1
    <3>1. x \in Rest(k)
      <4>1. PICK a \in Nat, b \in Nat : q[2].from = a /\ q[2].to = b
        BY <1>7
      <4>2. x \in a..b
        BY <1>5, <2>1, <2>3, <4>1 DEF Span
      <4>3. k.upTo = a - 1 /\ Current(k).to = b
        BY <1>4, <1>6, <4>1
      <4>4. QED
        BY <4>2, <4>3 DEF Rest
    <3>2. QED
      BY <2>2, <3>1
  <2>4. CASE i # 1
    <3>1. /\ Tail(y) \in Seq(Chunk2) /\ Len(Tail(y)) = Len(y) - 1
          /\ i - 1 \in 1..(Len(y) - 1) /\ (i - 1) + 1 = i
          /\ Tail(y)[i - 1] = y[(i - 1) + 1]
      <4>1. /\ Tail(y) \in Seq(Chunk2) /\ Len(Tail(y)) = Len(y) - 1
            /\ \A l \in 1..(Len(y) - 1) : Tail(y)[l] = y[l + 1]
        BY <1>3, <1>5, HeadIs
      <4>2. i - 1 \in 1..(Len(y) - 1) /\ (i - 1) + 1 = i
        BY <1>2, <1>3, <2>4
      <4>3. QED
        BY <4>1, <4>2
    <3>2. y[i] \in ToSet(Tail(y))
      BY <3>1, InSet
    <3>3. x \in Behind(k)
      BY <1>4, <2>1, <3>2 DEF Behind
    <3>4. QED
      BY <2>2, <3>3
  <2>5. QED
    BY <2>3, <2>4
<1>15. QED
  BY <1>4, <1>10, <1>11, <1>12, <1>13, <1>14

(* A worker goes on to its next chunk and releases the one it leaves.      *)
LEMMA OnwardOK ==
  ASSUME DashInv, NEW j \in jobs, Onward(j), reserved' = reserved \ Released(j)
  PROVE  /\ RepairOK(reserved', jobs', lapsed, now)
         /\ jobs \ {j} \subseteq jobs'
         /\ \A p \in j.panes : \A x \in Behind(j) :
              \E i \in jobs' : p \in i.panes /\ x \in Due(i)
<1> DEFINE S == reserved'
           c == Current(j)
<1>1. RepairOK(reserved, jobs, lapsed, now) /\ JobOK(j, now)
  BY DashFields
<1>2. /\ c \in Chunk2 /\ Has(j, c) /\ j.chunks \in Seq(Chunk2)
      /\ j.chunks # <<>> /\ Len(j.chunks) \in Nat \ {0}
      /\ c = j.chunks[1]
  BY <1>1, JobIs
<1>3. S = {r \in reserved : ~(r.stream = j.stream /\ r.from = c.from /\ r.to = c.to)}
  BY DEF Released
<1> HIDE DEF S, c
<1>4. /\ S \subseteq reserved
      /\ ~IsReserved(S, j.stream, c)
      /\ \A r \in reserved : r \in S \/ (\E d \in Chunk2 : Has(j, d) /\ r.stream = j.stream
                                                    /\ r.from = d.from /\ r.to = d.to)
  BY <1>2, <1>3 DEF IsReserved
<1>5. ASSUME NEW d \in Chunk2, d # c
      PROVE  \A r \in reserved : r.stream = j.stream /\ r.from = d.from /\ r.to = d.to => r \in S
  <2>1. d.from # c.from \/ d.to # c.to
    BY <1>2, <1>5, ChunkFields
  <2>2. QED
    BY <1>3, <2>1
<1>6. CASE Len(j.chunks) = 1
  <2>1. jobs' = jobs \ {j}
    BY <1>6 DEF Onward
  <2>2. \A d : Has(j, d) => d = c
    <3>1. \A i \in 1..Len(j.chunks) : i = 1
      BY <1>6
    <3>2. QED
      BY <1>2, <3>1 DEF Has
  <2>3. Behind(j) = {}
    <3>1. Tail(j.chunks) \in Seq(Chunk2) /\ Len(Tail(j.chunks)) = 0
      BY <1>2, <1>6, HeadIs
    <3>2. ToSet(Tail(j.chunks)) = {}
      <4>1. PICK y \in Seq(Chunk2) : y = Tail(j.chunks) /\ Len(y) = 0
        BY <3>1
      <4>2. \A e : e \in ToSet(y) <=> \E i \in 1..Len(y) : y[i] = e
        BY InSet
      <4>3. 1..Len(y) = {}
        BY <4>1
      <4>4. QED
        BY <4>1, <4>2, <4>3
    <3>3. QED
      BY <3>2 DEF Behind
  <2>4. RepairOK(S, jobs', lapsed, now)
    <3>1. PICK K : K = jobs \ {j}
      OBVIOUS
    <3>2. j \notin K
      BY <3>1
    <3>3. RepairOK(S, K, lapsed, now)
      BY <1>1, <1>4, <2>2, <3>1, <3>2, ReplacedOK
    <3>4. QED
      BY <2>1, <3>1, <3>3
  <2>5. QED
    BY <2>1, <2>3, <2>4 DEF S
<1>7. CASE Len(j.chunks) # 1
  <2>1. PICK k : IsSuccessor(k, j)
    BY DEF IsSuccessor
  <2>2. jobs' = (jobs \ {j}) \cup {k}
    BY <1>7, <2>1 DEF Onward, IsSuccessor
  <2>3. /\ JobOK(k, now) /\ k.stream = j.stream /\ k.panes = j.panes
        /\ \A d \in Chunk2 : Has(j, d) <=> d = c \/ Has(k, d)
        /\ ~Has(k, c)
        /\ Behind(j) \subseteq Due(k)
    <3>1. /\ JobOK(k, now) /\ k.stream = j.stream /\ k.panes = j.panes
          /\ \A d \in Chunk2 : Has(j, d) <=> d = Current(j) \/ Has(k, d)
          /\ ~Has(k, Current(j))
          /\ Behind(j) \subseteq Due(k)
      BY <1>1, <1>7, <2>1, SuccessorIs
    <3>2. QED
      BY <3>1 DEF c
  <2>4. RepairOK(S, jobs', lapsed, now)
    <3>1. PICK K : K = (jobs \ {j}) \cup {k}
      OBVIOUS
    <3>2. \A d \in Chunk2 : k \in K /\ Has(k, d) => Has(j, d) /\ \A r \in reserved :
            r.stream = j.stream /\ r.from = d.from /\ r.to = d.to => r \in S
      BY <1>5, <2>3
    <3>3. \A d \in Chunk2 : Has(j, d) => \/ k \in K /\ Has(k, d)
                                         \/ ~IsReserved(S, j.stream, d)
      BY <1>4, <2>3, <3>1
    <3>4. RepairOK(S, K, lapsed, now)
      BY <1>1, <1>4, <2>3, <3>1, <3>2, <3>3, ReplacedOK
    <3>5. QED
      BY <2>2, <3>1, <3>4
  <2>5. k \in jobs' /\ jobs \ {j} \subseteq jobs'
    BY <2>2
  <2>6. QED
    BY <2>3, <2>4, <2>5 DEF S
<1>8. QED
  BY <1>6, <1>7

(* What the worker gives up of its current chunk is accounted for.         *)
LEMMA LeavingOK ==
  ASSUME DashInv, NEW j \in jobs, Onward(j), reserved' = reserved \ Released(j),
         GiveUp(j.panes, (j.upTo + 1)..Current(j).to),
         UNCHANGED <<lastLive, gaps, lapsed, now>>,
         DOMAIN charts' = Panes,
         \A p \in Panes : ChartOK(charts'[p]) /\ charts'[p].loaded = charts[p].loaded
  PROVE  DashInv' /\ NothingForgotten
<1>1. BoardInv /\ JobOK(j, now)
  BY DashFields DEF DashInv
<1>2. /\ RepairOK(reserved', jobs', lapsed, now)
      /\ jobs \ {j} \subseteq jobs'
      /\ \A p \in j.panes : \A x \in Behind(j) : \E i \in jobs' : p \in i.panes /\ x \in Due(i)
  BY OnwardOK
<1>3. left' = [p \in Panes |-> IF p \in j.panes THEN left[p] \cup Rest(j) ELSE left[p]]
  BY DEF GiveUp, Rest
<1>4. DashInv'
  BY <1>1, <1>2, <1>3, BoardKept DEF DashInv
<1>5. Due(j) = Rest(j) \cup Behind(j)
  BY <1>1, JobIs
<1>6. \A p \in j.panes : p \in Panes => \A m \in Due(j) :
        \/ m \in charts'[p].loaded \/ m \in left'[p]
        \/ \E k \in jobs' : p \in k.panes /\ m \in Due(k)
  BY <1>2, <1>3, <1>5
<1>7. \A p \in Panes : charts[p].loaded \subseteq charts'[p].loaded /\ left[p] \subseteq left'[p]
  BY <1>3
<1>8. QED
  BY <1>2, <1>4, <1>6, <1>7, WorkerAccounts

LEMMA FailedOK ==
  ASSUME DashInv, NEW j \in jobs, Failed(j), now' = now
  PROVE  DashInv' /\ NothingForgotten
<1>1. /\ GiveUp(j.panes, (j.upTo + 1)..Current(j).to)
      /\ reserved' = reserved \ Released(j)
      /\ Onward(j)
      /\ UNCHANGED <<lastLive, gaps, charts, lapsed>>
  BY DEF Failed
<1>2. QED
  BY <1>1, DashFields, LeavingOK

LEMMA CompletedOK ==
  ASSUME DashInv, NEW j \in jobs, Completed(j), now' = now
  PROVE  DashInv' /\ NothingForgotten
<1> DEFINE c == Current(j)
<1>1. /\ charts' = [p \in Panes |->
           IF p \in j.panes /\ j.upTo > c.from
             THEN [charts[p] EXCEPT !.covered = MarkCovered(@, c.from, j.upTo)]
             ELSE charts[p]]
      /\ GiveUp(j.panes, (j.upTo + 1)..c.to)
      /\ reserved' = reserved \ Released(j)
      /\ Onward(j)
      /\ UNCHANGED <<lastLive, gaps, lapsed>>
  BY DEF Completed
<1>2. JobOK(j, now)
  BY DashFields
<1>3. c \in Chunk2 /\ j.upTo \in Int /\ j.upTo <= c.to /\ c.from \in Nat
  BY <1>2, JobIs
<1>4. c.from \in Moments /\ c.to \in Moments
  BY <1>3, ChunkFields
<1> HIDE DEF c
<1>5. j.upTo > c.from => j.upTo \in Moments
  BY <1>3, <1>4, MomentsAre
<1>6. ASSUME NEW p \in Panes
      PROVE  ChartOK(charts'[p]) /\ charts'[p].loaded = charts[p].loaded
  <2>1. ChartOK(charts[p])
    BY DashFields
  <2>2. CASE p \in j.panes /\ j.upTo > c.from
    <3>1. PICK x : /\ charts'[p] = [charts[p] EXCEPT !.covered = x]
                   /\ x = MarkCovered(charts[p].covered, c.from, j.upTo)
      BY <1>1, <2>2
    <3>2. x \in SUBSET RangesUpTo(LastMoment) /\ Merged(x)
      BY <1>4, <1>5, <2>1, <2>2, <3>1, MarkedOK
    <3>3. /\ charts'[p].covered = x /\ charts'[p].loaded = charts[p].loaded
          /\ DOMAIN charts'[p] = Fields
      BY <2>1, <3>1, ChartFields DEF ChartOK
    <3>4. QED
      BY <2>1, <3>2, <3>3 DEF ChartOK
  <2>3. CASE ~(p \in j.panes /\ j.upTo > c.from)
    BY <1>1, <2>1, <2>3
  <2>4. QED
    BY <2>2, <2>3
<1>7. DOMAIN charts' = Panes
  BY <1>1
<1>8. QED
  BY <1>1, <1>6, <1>7, LeavingOK DEF c

LEMMA HandleCleanupOK ==
  ASSUME DashInv, HandleCleanup, now' = now
  PROVE  DashInv' /\ NothingForgotten /\ lastLive' = lastLive /\ gaps' = gaps
<1>1. CASE reserved = {}
  <2>1. /\ jobs' = {} /\ UNCHANGED <<lastLive, gaps, reserved, charts, lapsed>>
        /\ left' = [p \in Panes |-> left[p] \cup Remaining(p, jobs)]
    BY <1>1 DEF HandleCleanup, AbortAll
  <2>2. RepairOK(reserved', jobs', lapsed', now')
    BY <1>1, <2>1, NoRepairs
  <2>3. DashInv'
    BY <2>1, <2>2 DEF DashInv, BoardInv
  <2>4. NothingForgotten
    BY <2>1 DEF NothingForgotten, Accounted
  <2>5. QED
    BY <2>1, <2>3, <2>4
<1>2. CASE reserved # {}
  <2>1. UNCHANGED dashVars
    BY <1>2 DEF HandleCleanup
  <2>2. QED
    BY <2>1 DEF DashInv, BoardInv, NothingForgotten, Accounted, dashVars
<1>3. QED
  BY <1>1, <1>2

LEMMA ClearCacheOK ==
  ASSUME DashInv, ClearCache, now' = now
  PROVE  DashInv' /\ NothingForgotten /\ lastLive' = lastLive /\ gaps' = gaps
<1>1. /\ jobs' = {} /\ reserved' = {} /\ lapsed' = {}
      /\ charts' = [p \in Panes |-> [charts[p] EXCEPT !.loaded = {}]]
      /\ left' = [p \in Panes |-> left[p] \cup charts[p].loaded \cup Remaining(p, jobs)]
      /\ UNCHANGED <<lastLive, gaps>>
  BY DEF ClearCache
<1>2. RepairOK(reserved', jobs', lapsed', now')
  BY <1>1, NoRepairs
<1>3. ASSUME NEW p \in Panes
      PROVE  ChartOK(charts'[p])
  <2>1. ChartOK(charts[p]) /\ charts'[p] = [charts[p] EXCEPT !.loaded = {}]
    BY <1>1, DashFields
  <2>2. /\ charts'[p].covered = charts[p].covered /\ charts'[p].loaded = {}
        /\ DOMAIN charts'[p] = Fields
    BY <2>1, ChartFields DEF ChartOK
  <2>3. QED
    BY <2>1, <2>2 DEF ChartOK
<1>4. DOMAIN charts' = Panes /\ DOMAIN left' = Panes
  BY <1>1
<1>5. DashInv'
  BY <1>1, <1>2, <1>3, <1>4, BoardKept DEF DashInv
<1>6. NothingForgotten
  BY <1>1 DEF NothingForgotten, Accounted
<1>7. QED
  BY <1>1, <1>5, <1>6

LEMMA OwnFetchOK ==
  ASSUME DashInv, NEW p \in Panes, NEW from \in Moments, NEW to \in Moments,
         OwnFetch(p, from, to), now' = now
  PROVE  DashInv' /\ NothingForgotten /\ lastLive' = lastLive /\ gaps' = gaps
<1>1. PICK x, l, more :
        /\ charts' = [charts EXCEPT ![p].covered = x, ![p].loaded = l]
        /\ x = MarkCovered(charts[p].covered, from, to)
        /\ l = charts[p].loaded \cup Kept(p, from..to)
        /\ left' = [left EXCEPT ![p] = left[p] \cup more]
        /\ UNCHANGED <<lastLive, gaps, reserved, jobs, lapsed>>
  BY DashFields DEF OwnFetch
<1>2. /\ DOMAIN charts = Panes /\ DOMAIN left = Panes /\ ChartOK(charts[p])
      /\ \A q \in Panes : ChartOK(charts[q])
  BY DashFields
<1>3. charts' = [charts EXCEPT ![p] = [charts[p] EXCEPT !.covered = x, !.loaded = l]]
  BY <1>1, <1>2
<1>4. PICK c : c = [charts[p] EXCEPT !.covered = x, !.loaded = l]
  OBVIOUS
<1>5. c.covered = x /\ c.loaded = l /\ DOMAIN c = Fields
  BY <1>2, <1>4, ChartFields DEF ChartOK
<1>6. x \in SUBSET RangesUpTo(LastMoment) /\ Merged(x) /\ l \subseteq Traded
  BY <1>1, <1>2, MarkedOK DEF ChartOK, Kept
<1>7. ChartOK(c)
  BY <1>5, <1>6 DEF ChartOK
<1>8. /\ DOMAIN charts' = Panes /\ DOMAIN left' = Panes
      /\ charts'[p] = c /\ \A q \in Panes : q # p => charts'[q] = charts[q]
      /\ \A q \in Panes : left[q] \subseteq left'[q]
  BY <1>1, <1>2, <1>3, <1>4
<1>9. DashInv'
  BY <1>1, <1>2, <1>7, <1>8, BoardKept DEF DashInv
<1>10. \A q \in Panes : charts[q].loaded \subseteq charts'[q].loaded
  BY <1>1, <1>5, <1>8
<1>11. \A q \in Panes : Accounted(q)' = charts'[q].loaded \cup left'[q] \cup Remaining(q, jobs)
  BY <1>1 DEF Accounted
<1>12. NothingForgotten
  BY <1>8, <1>10, <1>11 DEF NothingForgotten, Accounted
<1>13. QED
  BY <1>1, <1>9, <1>12

-----------------------------------------------------------------------------
(* What is on the way *)

Brings(e, s) == e.kind = "Trades" /\ s \in e.streams

(* The trade of moment m is in an event of ch, or was missed after a break *)
(* that ch tells of and that will be noted.                                *)
OnTheWay(ch, last, s, m) ==
  \/ \E k \in 1..Len(ch) : Brings(ch[k], s) /\ ch[k].at = m
  \/ \E i \in 1..Len(ch) :
       /\ TellsDown(ch[i], s) /\ ch[i].at < m
       /\ last # NoMoment \/ \E k \in 1..(i - 1) : Brings(ch[k], s)

(* A stream that is down has said so: after its last trade in ch, or it is *)
(* noted already (unless there never was a trade).                         *)
Sure(last, gap) == gap # NoMoment \/ last = NoMoment

ToldOf(ch, last, gap, s) ==
  \/ \E i \in 1..Len(ch) : /\ TellsDown(ch[i], s)
                           /\ \A k \in (i + 1)..Len(ch) : ~Brings(ch[k], s)
  \/ (\A k \in 1..Len(ch) : ~Brings(ch[k], s)) /\ Sure(last, gap)

SameEvent(e, f, s) ==
  /\ TellsDown(e, s) <=> TellsDown(f, s)
  /\ Brings(e, s) <=> Brings(f, s)
  /\ e.at = f.at

(* From the f-th event on, ch continues as other, d places further to the  *)
(* front.                                                                  *)
Continues(other, ch, f, d, s) ==
  /\ Len(ch) \in Nat /\ Len(other) \in Nat
  /\ \/ f = 1 /\ d = 0
     \/ f = 2 /\ d \in {0, 1} /\ Len(ch) # 0
  /\ Len(other) >= Len(ch) - d
  /\ \A i \in f..Len(ch) : SameEvent(other[i - d], ch[i], s)

LEMMA ContinuesOnTheWay ==
  ASSUME NEW other, NEW ch, NEW f, NEW d, NEW s, Continues(other, ch, f, d, s),
         NEW last, NEW more, NEW m,
         last # NoMoment => more # NoMoment,
         f = 2 /\ Brings(ch[1], s) => more # NoMoment,
         OnTheWay(ch, last, s, m)
  PROVE  \/ OnTheWay(other, more, s, m)
         \/ f = 2 /\ Brings(ch[1], s) /\ ch[1].at = m
         \/ f = 2 /\ TellsDown(ch[1], s) /\ last # NoMoment /\ ch[1].at < m
<1>1. /\ Len(ch) \in Nat /\ Len(other) \in Nat /\ Len(other) >= Len(ch) - d
      /\ f \in {1, 2} /\ d \in {0, 1} /\ f - d \in {1, 2}
      /\ \A i \in f..Len(ch) : SameEvent(other[i - d], ch[i], s)
  BY DEF Continues
<1>2. \A i \in f..Len(ch) : i - d \in 1..Len(other)
  BY <1>1
<1>3. \A i \in 1..Len(ch) : i \in f..Len(ch) \/ (i = 1 /\ f = 2)
  BY <1>1
<1>4. CASE \E k \in 1..Len(ch) : Brings(ch[k], s) /\ ch[k].at = m
  <2>1. PICK k \in 1..Len(ch) : Brings(ch[k], s) /\ ch[k].at = m
    BY <1>4
  <2>2. CASE k \in f..Len(ch)
    <3>1. Brings(other[k - d], s) /\ other[k - d].at = m /\ k - d \in 1..Len(other)
      BY <1>1, <1>2, <2>1, <2>2 DEF SameEvent
    <3>2. QED
      BY <3>1 DEF OnTheWay
  <2>3. QED
    BY <1>3, <2>1, <2>2
<1>5. CASE \E i \in 1..Len(ch) :
             /\ TellsDown(ch[i], s) /\ ch[i].at < m
             /\ last # NoMoment \/ \E k \in 1..(i - 1) : Brings(ch[k], s)
  <2>1. PICK i \in 1..Len(ch) :
             /\ TellsDown(ch[i], s) /\ ch[i].at < m
             /\ last # NoMoment \/ \E k \in 1..(i - 1) : Brings(ch[k], s)
    BY <1>5
  <2>2. CASE i \in f..Len(ch)
    <3>1. TellsDown(other[i - d], s) /\ other[i - d].at < m /\ i - d \in 1..Len(other)
      BY <1>1, <1>2, <2>1, <2>2 DEF SameEvent
    <3>2. more # NoMoment \/ \E k \in 1..((i - d) - 1) : Brings(other[k], s)
      <4>1. CASE last # NoMoment
        BY <4>1
      <4>2. ASSUME NEW k \in 1..(i - 1), Brings(ch[k], s)
            PROVE  more # NoMoment \/ \E l \in 1..((i - d) - 1) : Brings(other[l], s)
        <5>1. k \in 1..Len(ch)
          BY <1>1, <2>2
        <5>2. CASE k = 1 /\ f = 2
          BY <4>2, <5>2
        <5>3. CASE k \in f..Len(ch)
          <6>1. Brings(other[k - d], s) /\ k - d \in 1..((i - d) - 1)
            BY <1>1, <4>2, <5>3 DEF SameEvent
          <6>2. QED
            BY <6>1
        <5>4. QED
          BY <1>3, <5>1, <5>2, <5>3
      <4>3. QED
        BY <2>1, <4>1, <4>2
    <3>3. QED
      BY <3>1, <3>2 DEF OnTheWay
  <2>3. CASE i = 1 /\ f = 2
    <3>1. last # NoMoment
      BY <2>1, <2>3
    <3>2. QED
      BY <2>1, <2>3, <3>1
  <2>4. QED
    BY <1>3, <2>2, <2>3
<1>6. QED
  BY <1>4, <1>5 DEF OnTheWay

LEMMA ContinuesTold ==
  ASSUME NEW other, NEW ch, NEW f, NEW d, NEW s, Continues(other, ch, f, d, s),
         Len(other) = Len(ch) - d,
         NEW last, NEW gap, NEW more, NEW next,
         f = 2 /\ d = 0 => ~Brings(other[1], s),
         Sure(last, gap) => Sure(more, next) \/ (f = 2 /\ Brings(ch[1], s)),
         f = 2 /\ TellsDown(ch[1], s) => Sure(more, next),
         ToldOf(ch, last, gap, s)
  PROVE  ToldOf(other, more, next, s)
<1>1. /\ Len(ch) \in Nat /\ Len(other) \in Nat
      /\ f \in {1, 2} /\ d \in {0, 1} /\ (f = 1 => d = 0)
      /\ f = 2 => 1 \in 1..Len(ch)
      /\ \A i \in f..Len(ch) : SameEvent(other[i - d], ch[i], s)
  BY DEF Continues
<1>2. ASSUME NEW k \in 1..Len(other)
      PROVE  /\ k + d \in 1..Len(ch) /\ (k + d) - d = k
             /\ k + d \in f..Len(ch) \/ (k = 1 /\ f = 2 /\ d = 0)
  BY <1>1
<1>3. ASSUME NEW k \in 1..Len(other), ~Brings(ch[k + d], s) \/ (k = 1 /\ f = 2 /\ d = 0)
      PROVE  ~Brings(other[k], s)
  <2>1. CASE k + d \in f..Len(ch) /\ ~Brings(ch[k + d], s)
    <3>1. SameEvent(other[(k + d) - d], ch[k + d], s)
      BY <1>1, <2>1
    <3>2. QED
      BY <1>2, <2>1, <3>1 DEF SameEvent
  <2>2. CASE k = 1 /\ f = 2 /\ d = 0
    BY <2>2
  <2>3. QED
    BY <1>2, <1>3, <2>1, <2>2
<1>4. CASE \E i \in 1..Len(ch) : /\ TellsDown(ch[i], s)
                                 /\ \A k \in (i + 1)..Len(ch) : ~Brings(ch[k], s)
  <2>1. PICK i \in 1..Len(ch) : /\ TellsDown(ch[i], s)
                                /\ \A k \in (i + 1)..Len(ch) : ~Brings(ch[k], s)
    BY <1>4
  <2>2. CASE i \in f..Len(ch)
    <3>1. TellsDown(other[i - d], s) /\ i - d \in 1..Len(other)
      BY <1>1, <2>1, <2>2 DEF SameEvent
    <3>2. ASSUME NEW k \in ((i - d) + 1)..Len(other)
          PROVE  ~Brings(other[k], s)
      <4>1. k \in 1..Len(other) /\ k + d \in (i + 1)..Len(ch)
        BY <1>1, <2>2
      <4>2. QED
        BY <1>3, <2>1, <4>1
    <3>3. QED
      BY <3>1, <3>2 DEF ToldOf
  <2>3. CASE i = 1 /\ f = 2
    <3>1. ASSUME NEW k \in 1..Len(other)
          PROVE  ~Brings(other[k], s)
      <4>1. k + d \in (i + 1)..Len(ch) \/ (k = 1 /\ f = 2 /\ d = 0)
        BY <1>1, <2>3
      <4>2. QED
        BY <1>3, <2>1, <4>1
    <3>2. Sure(more, next)
      BY <2>1, <2>3
    <3>3. QED
      BY <3>1, <3>2 DEF ToldOf
  <2>4. QED
    BY <1>1, <2>2, <2>3
<1>5. CASE (\A k \in 1..Len(ch) : ~Brings(ch[k], s)) /\ Sure(last, gap)
  <2>1. \A k \in 1..Len(other) : ~Brings(other[k], s)
    BY <1>2, <1>3, <1>5
  <2>2. Sure(more, next)
    BY <1>1, <1>5
  <2>3. QED
    BY <2>1, <2>2 DEF ToldOf
<1>6. QED
  BY <1>4, <1>5 DEF ToldOf

LEMMA ContinuesTail ==
  ASSUME NEW S, NEW ch \in Seq(S), ch # <<>>, NEW s
  PROVE  /\ Continues(Tail(ch), ch, 2, 1, s) /\ Len(Tail(ch)) = Len(ch) - 1
         /\ Head(ch) = ch[1] /\ 1 \in 1..Len(ch)
<1> DEFINE n == Len(ch)
           y == Tail(ch)
<1>1. /\ n \in Nat /\ 1 \in 1..n /\ Head(ch) = ch[1] /\ Len(y) = n - 1
      /\ \A i \in 1..(n - 1) : y[i] = ch[i + 1]
  BY HeadIs
<1> HIDE DEF n, y
<1>2. \A i \in 2..n : y[i - 1] = ch[i]
  <2>1. ASSUME NEW i \in 2..n
        PROVE  y[i - 1] = ch[i]
    <3>1. i - 1 \in 1..(n - 1) /\ (i - 1) + 1 = i
      BY <1>1
    <3>2. QED
      BY <1>1, <3>1
  <2>2. QED
    BY <2>1
<1>3. \A i \in 2..n : SameEvent(y[i - 1], ch[i], s)
  BY <1>2 DEF SameEvent
<1>4. n # 0 /\ Len(y) \in Nat /\ Len(y) >= n - 1
  BY <1>1
<1>5. QED
  BY <1>1, <1>3, <1>4 DEF Continues, n, y

LEMMA ContinuesAppend ==
  ASSUME NEW S, NEW ch \in Seq(S), NEW e \in S, NEW s
  PROVE  Continues(Append(ch, e), ch, 1, 0, s)
<1> DEFINE n == Len(ch)
           y == Append(ch, e)
<1>1. n \in Nat /\ Len(y) = n + 1 /\ \A i \in 1..n : y[i] = ch[i]
  BY AppendProperties
<1> HIDE DEF n, y
<1>2. \A i \in 1..n : i - 0 = i
  OBVIOUS
<1>3. \A i \in 1..n : SameEvent(y[i - 0], ch[i], s)
  BY <1>1, <1>2 DEF SameEvent
<1>4. Len(y) \in Nat /\ Len(y) >= n - 0
  BY <1>1
<1>5. QED
  BY <1>1, <1>3, <1>4 DEF Continues, n, y

(* The first event of ch has lost the stream that was handled.             *)
LEMMA ContinuesInPlace ==
  ASSUME NEW ch, NEW other, NEW s, NEW u, Len(ch) \in Nat \ {0}, Len(other) = Len(ch),
         \A i \in 1..Len(ch) : i # 1 => other[i] = ch[i],
         ch[1].kind = "Trades", other[1].kind = "Trades", other[1].at = ch[1].at,
         \A x : x \in other[1].streams <=> x \in ch[1].streams /\ x # u
  PROVE  /\ s # u => Continues(other, ch, 1, 0, s)
         /\ s = u => Continues(other, ch, 2, 0, s) /\ ~Brings(other[1], s)
<1>1. \A i \in 1..Len(ch) : i - 0 = i
  OBVIOUS
<1>2. \A i \in 2..Len(ch) : i \in 1..Len(ch) /\ i # 1
  OBVIOUS
<1>3. \A i \in 2..Len(ch) : SameEvent(other[i - 0], ch[i], s)
  BY <1>1, <1>2 DEF SameEvent
<1>4. "Trades" # "Disconnected"
  OBVIOUS
<1>5. s # u => SameEvent(other[1], ch[1], s)
  BY <1>4 DEF SameEvent, TellsDown, Brings
<1>6. \A i \in 1..Len(ch) : i = 1 \/ i \in 2..Len(ch)
  OBVIOUS
<1>7. s # u => \A i \in 1..Len(ch) : SameEvent(other[i - 0], ch[i], s)
  BY <1>1, <1>3, <1>5, <1>6
<1>8. Len(other) >= Len(ch) - 0 /\ Len(ch) # 0 /\ Len(other) \in Nat /\ Len(ch) \in Nat
  OBVIOUS
<1>9. s = u => ~Brings(other[1], s)
  BY DEF Brings
<1>10. QED
  BY <1>3, <1>7, <1>8, <1>9 DEF Continues

-----------------------------------------------------------------------------
(* The queues *)

EventOK(e, t) ==
  /\ e.at \in Moments /\ e.at <= t
  /\ e.kind = "Trades" => e.at \in Traded /\ e.streams \subseteq TradeStreams

(* The events of a session come in the order of their moments, none before *)
(* the last trade that was handled.                                        *)
QueueOK(g, ch, last, t) ==
  /\ ch \in Seq(Events(g))
  /\ \A i \in 1..Len(ch) : EventOK(ch[i], t)
  /\ \A i, k \in 1..Len(ch) : i <= k => ch[i].at <= ch[k].at
  /\ \A s \in TradeStreams : s \in Carries[g] => \A i \in 1..Len(ch) : last[s] <= ch[i].at

LEMMA QueueTail ==
  ASSUME NEW g, NEW ch, NEW last, NEW t, QueueOK(g, ch, last, t), ch # <<>>
  PROVE  /\ QueueOK(g, Tail(ch), last, t)
         /\ Head(ch) = ch[1] /\ 1 \in 1..Len(ch) /\ Len(ch) \in Nat
<1> DEFINE n == Len(ch)
           y == Tail(ch)
<1>1. /\ ch \in Seq(Events(g))
      /\ \A i \in 1..n : EventOK(ch[i], t)
      /\ \A i, k \in 1..n : i <= k => ch[i].at <= ch[k].at
      /\ \A s \in TradeStreams : s \in Carries[g] => \A i \in 1..n : last[s] <= ch[i].at
  BY DEF QueueOK
<1>2. /\ n \in Nat /\ 1 \in 1..n /\ Head(ch) = ch[1]
      /\ y \in Seq(Events(g)) /\ Len(y) = n - 1
      /\ \A i \in 1..(n - 1) : y[i] = ch[i + 1] /\ i + 1 \in 1..n
  BY <1>1, HeadIs
<1> HIDE DEF n, y
<1>3. \A i, k \in 1..(n - 1) : i <= k => i + 1 <= k + 1
  OBVIOUS
<1>4. \A i, k \in 1..(n - 1) : i <= k => y[i].at <= y[k].at
  BY <1>1, <1>2, <1>3
<1>5. \A i \in 1..(n - 1) : EventOK(y[i], t)
  BY <1>1, <1>2
<1>6. \A s \in TradeStreams : s \in Carries[g] => \A i \in 1..(n - 1) : last[s] <= y[i].at
  BY <1>1, <1>2
<1>7. QED
  BY <1>2, <1>4, <1>5, <1>6 DEF QueueOK, n, y

LEMMA QueueAppend ==
  ASSUME NEW g, NEW ch, NEW last, NEW t \in Moments, QueueOK(g, ch, last, t), NEW e \in Events(g),
         e.at = t, EventOK(e, t),
         \A s \in TradeStreams : last[s] <= t
  PROVE  /\ QueueOK(g, Append(ch, e), last, t) /\ Len(Append(ch, e)) = Len(ch) + 1
         /\ Append(ch, e)[Len(ch) + 1] = e /\ Len(ch) \in Nat
<1> DEFINE n == Len(ch)
           y == Append(ch, e)
<1>1. /\ ch \in Seq(Events(g))
      /\ \A i \in 1..n : EventOK(ch[i], t)
      /\ \A i, k \in 1..n : i <= k => ch[i].at <= ch[k].at
      /\ \A s \in TradeStreams : s \in Carries[g] => \A i \in 1..n : last[s] <= ch[i].at
  BY DEF QueueOK
<1>2. /\ n \in Nat /\ y \in Seq(Events(g)) /\ Len(y) = n + 1 /\ y[n + 1] = e
      /\ \A i \in 1..n : y[i] = ch[i]
  BY <1>1, AppendProperties
<1> HIDE DEF n, y
<1>3. \A i \in 1..(n + 1) : i \in 1..n \/ i = n + 1
  BY <1>2
<1>4. \A i \in 1..(n + 1) : EventOK(y[i], t)
  BY <1>1, <1>2, <1>3
<1>5. \A s \in TradeStreams : s \in Carries[g] => \A i \in 1..(n + 1) : last[s] <= y[i].at
  BY <1>1, <1>2, <1>3
<1>6. ASSUME NEW i \in 1..(n + 1), NEW k \in 1..(n + 1), i <= k
      PROVE  y[i].at <= y[k].at
  <2>1. CASE k \in 1..n
    <3>1. i \in 1..n
      BY <1>2, <1>6, <2>1
    <3>2. QED
      BY <1>1, <1>2, <1>6, <2>1, <3>1
  <2>2. CASE k = n + 1
    <3>1. y[k].at = t
      BY <1>2, <2>2
    <3>2. y[i].at <= t
      BY <1>4 DEF EventOK
    <3>3. QED
      BY <3>1, <3>2
  <2>3. QED
    BY <1>3, <2>1, <2>2
<1>7. QED
  BY <1>2, <1>4, <1>5, <1>6 DEF QueueOK, n, y

LEMMA QueueLater ==
  ASSUME NEW g, NEW ch, NEW last, NEW t \in Moments, NEW u \in Moments, t <= u,
         QueueOK(g, ch, last, t)
  PROVE  QueueOK(g, ch, last, u)
<1>1. \A x \in Moments : x <= t => x <= u
  BY MomentsAre
<1>2. \A e : EventOK(e, t) => EventOK(e, u)
  BY <1>1 DEF EventOK
<1>3. QED
  BY <1>2 DEF QueueOK

LEMMA QueueSub ==
  ASSUME NEW g, NEW ch, NEW last, NEW t, QueueOK(g, ch, last, t), NEW kept \in 0..Len(ch)
  PROVE  /\ QueueOK(g, SubSeq(ch, 1, kept), last, t) /\ Len(SubSeq(ch, 1, kept)) = kept
         /\ Len(ch) \in Nat /\ \A i \in 1..kept : SubSeq(ch, 1, kept)[i] = ch[i]
<1> DEFINE n == Len(ch)
           y == SubSeq(ch, 1, kept)
<1>1. /\ ch \in Seq(Events(g)) /\ n \in Nat
      /\ \A i \in 1..n : EventOK(ch[i], t)
      /\ \A i, k \in 1..n : i <= k => ch[i].at <= ch[k].at
      /\ \A s \in TradeStreams : s \in Carries[g] => \A i \in 1..n : last[s] <= ch[i].at
  BY LenProperties DEF QueueOK
<1>2. \A i \in 1..kept : i \in 1..n
  BY <1>1
<1>3. /\ y \in Seq(Events(g)) /\ Len(y) = kept
      /\ \A i \in 1..kept : y[i] = ch[i]
  <2>1. \A i \in 1..kept : ch[i] \in Events(g)
    BY <1>1, <1>2
  <2>2. QED
    BY <1>1, <2>1, SubSeqProperties
<1> HIDE DEF n, y
<1>4. QED
  BY <1>1, <1>2, <1>3 DEF QueueOK, n, y

-----------------------------------------------------------------------------
(* The invariant of the repair *)

QueueInv == \A g \in Sessions : QueueOK(g, inbox[g], lastLive, now)

(* The streams of the panes stay configured, and one with a noted gap is   *)
(* expected, so that no repair starts before it is back.                   *)
WantedInv ==
  /\ Basic \subseteq wanted
  /\ \A s \in Basic \cap TradeStreams : gaps[s] # NoMoment => s \in net.expected

Told(s) ==
  LET g == SessionOf(s) IN
    ~link[g] /\ ~silent[g] => ToldOf(inbox[g], lastLive[s], gaps[s], s)

ToldInv == \A p \in Panes : Told(StreamOf[p])

Coming(s, m) ==
  \/ OnTheWay(inbox[SessionOf(s)], lastLive[s], s, m)
  \/ gaps[s] # NoMoment /\ gaps[s] < m

MissedInv ==
  \A p \in Panes : \A m \in Traded :
    1 <= m /\ m <= now => m \in Accounted(p) \/ Coming(StreamOf[p], m)

RepairInv ==
  /\ ReconnectInv /\ DashInv /\ QueueInv /\ WantedInv /\ ToldInv /\ MissedInv

LEMMA PaneStream ==
  ASSUME NEW p \in Panes
  PROVE  /\ StreamOf[p] \in TradeStreams /\ StreamOf[p] \in Basic /\ StreamOf[p] \in Streams
         /\ SessionOf(StreamOf[p]) \in Sessions
         /\ StreamOf[p] \in Carries[SessionOf(StreamOf[p])]
<1>1. StreamOf[p] \in Basic /\ Basic \subseteq Streams /\ StreamOf[p] \in TradeStreams
  BY ReconnectAssumption, BackfillAssumption
<1>2. QED
  BY <1>1, SessionsApart

(* s is carried by no other session.                                       *)
LEMMA OnlySession ==
  ASSUME NEW s \in Streams, NEW g \in Sessions, s \in Carries[g]
  PROVE  g = SessionOf(s)
BY SessionsApart

LEMMA MissedKept ==
  ASSUME MissedInv, NothingForgotten, now' = now,
         \A p \in Panes : \A m \in Traded :
           m <= now /\ Coming(StreamOf[p], m) => Coming(StreamOf[p], m)' \/ m \in Accounted(p)'
  PROVE  MissedInv'
BY DEF MissedInv, NothingForgotten

LEMMA RepairFields ==
  ASSUME RepairInv
  PROVE  /\ ReconnectInv /\ LinkInv /\ OverlayInv /\ DashInv /\ BoardInv
         /\ QueueInv /\ WantedInv /\ ToldInv /\ MissedInv
         /\ now \in Moments
         /\ DOMAIN link = Sessions /\ DOMAIN silent = Sessions /\ DOMAIN inbox = Sessions
         /\ wanted \subseteq Streams
         /\ \A s \in TradeStreams : /\ gaps[s] \in Moments \cup {NoMoment}
                                    /\ lastLive[s] \in Moments \cup {NoMoment}
                                    /\ gaps[s] <= lastLive[s] /\ lastLive[s] <= now
BY DEF RepairInv, ReconnectInv, OverlayInv, LinkInv, DashInv, BoardInv

(* Only workers and charts change.                                         *)
LEMMA RepairDash ==
  ASSUME RepairInv, UNCHANGED <<now, wanted, link, inbox, net, silent, lastLive, gaps>>,
         DashInv', NothingForgotten
  PROVE  RepairInv'
<1>1. ReconnectInv'
  BY RestTruthful DEF RepairInv
<1>2. QueueInv' /\ WantedInv' /\ ToldInv'
  BY DEF RepairInv, QueueInv, WantedInv, ToldInv, Told
<1>3. \A s : \A m : Coming(s, m)' <=> Coming(s, m)
  BY DEF Coming
<1>4. MissedInv'
  BY <1>3, MissedKept DEF RepairInv
<1>5. QED
  BY <1>1, <1>2, <1>4 DEF RepairInv

LEMMA InitRepair == Init => RepairInv
<1> SUFFICES ASSUME Init
             PROVE  RepairInv
  OBVIOUS
<1>1. /\ now = 0 /\ wanted = Basic
      /\ inbox = [g \in Sessions |-> <<>>] /\ silent = [g \in Sessions |-> TRUE]
      /\ lastLive = [s \in TradeStreams |-> NoMoment]
      /\ gaps = [s \in TradeStreams |-> NoMoment]
      /\ reserved = {} /\ jobs = {}
      /\ charts = [p \in Panes |-> NewChart]
      /\ left = [p \in Panes |-> {}]
  BY DEF Init, BackfillInit
<1>2. ReconnectInv
  BY InvInit
<1>3. 0 \in Moments /\ NoMoment <= NoMoment /\ NoMoment <= 0
  BY MomentsAre
<1>4. ChartOK(NewChart)
  BY DEF ChartOK, NewChart, Fields, Merged
<1>5. DashInv
  BY <1>1, <1>3, <1>4, NoRepairs DEF DashInv, BoardInv
<1>6. \A g \in Sessions : QueueOK(g, <<>>, lastLive, now)
  <2>1. \A g \in Sessions : <<>> \in Seq(Events(g))
    OBVIOUS
  <2>2. Len(<<>>) = 0 /\ 1..0 = {}
    OBVIOUS
  <2>3. QED
    BY <2>1, <2>2 DEF QueueOK
<1>7. QueueInv
  BY <1>1, <1>6 DEF QueueInv
<1>8. WantedInv
  BY <1>1 DEF WantedInv
<1>9. ToldInv
  <2>1. \A p \in Panes : silent[SessionOf(StreamOf[p])]
    BY <1>1, PaneStream
  <2>2. QED
    BY <2>1 DEF ToldInv, Told
<1>10. MissedInv
  <2>1. \A m \in Traded : ~(1 <= m /\ m <= now)
    BY <1>1, MomentsAre
  <2>2. QED
    BY <2>1 DEF MissedInv
<1>11. QED
  BY <1>2, <1>5, <1>7, <1>8, <1>9, <1>10 DEF RepairInv

-----------------------------------------------------------------------------
(* Sessions *)

(* Sessions say something at the end of what they said.                    *)
LEMMA SaidComing ==
  ASSUME RepairInv, lastLive' = lastLive, gaps' = gaps,
         \A g \in Sessions : inbox'[g] = inbox[g]
                            \/ \E e \in Events(g) : inbox'[g] = Append(inbox[g], e),
         NEW p \in Panes, NEW m, Coming(StreamOf[p], m)
  PROVE  Coming(StreamOf[p], m)'
<1> DEFINE s == StreamOf[p]
           h == SessionOf(s)
<1>1. h \in Sessions
  BY PaneStream
<1> HIDE DEF h
<1>2. ASSUME NEW e \in Events(h), inbox'[h] = Append(inbox[h], e)
      PROVE  Coming(s, m)'
  <2>1. inbox[h] \in Seq(Events(h))
    BY <1>1, RepairFields DEF QueueInv, QueueOK
  <2>2. Continues(inbox'[h], inbox[h], 1, 0, s)
    BY <1>2, <2>1, ContinuesAppend
  <2>3. OnTheWay(inbox[h], lastLive[s], s, m) => OnTheWay(inbox'[h], lastLive[s], s, m)
    BY <2>2, ContinuesOnTheWay
  <2>4. QED
    BY <2>3 DEF Coming, h
<1>3. CASE inbox'[h] = inbox[h]
  BY <1>3 DEF Coming, h
<1>4. QED
  BY <1>1, <1>2, <1>3

(* What Connect and Break have in common.                                  *)
LEMMA SayingRepairs ==
  ASSUME RepairInv, ReconnectInv', NEW g \in Sessions, NEW up \in BOOLEAN,
         NEW kind, kind \in {"Connected", "Disconnected"}, up \/ kind = "Disconnected",
         link' = [link EXCEPT ![g] = up], silent' = [silent EXCEPT ![g] = FALSE],
         inbox' = [inbox EXCEPT ![g] = Append(@, Event(kind, Carried(g), now))],
         UNCHANGED <<now, wanted, net, dashVars>>
  PROVE  RepairInv'
<1> DEFINE e == Event(kind, Carried(g), now)
<1>1. /\ DashInv /\ QueueInv /\ WantedInv /\ ToldInv /\ MissedInv
      /\ now \in Moments
      /\ DOMAIN link = Sessions /\ DOMAIN silent = Sessions /\ DOMAIN inbox = Sessions
      /\ \A s \in TradeStreams : lastLive[s] <= now
  BY RepairFields
<1>2. UNCHANGED <<lastLive, gaps, reserved, jobs, charts, left, lapsed>>
  BY DEF dashVars
<1>3. /\ e \in Events(g) /\ e.at = now /\ e.kind = kind /\ e.streams = Carries[g] \cap wanted
      /\ EventOK(e, now)
  BY <1>1, MomentsAre DEF Event, Events, Kinds, Carried, EventOK
<1>4. inbox' = [inbox EXCEPT ![g] = Append(@, e)]
  OBVIOUS
<1> HIDE DEF e
<1>5. DashInv' /\ NothingForgotten
  BY <1>1, <1>2 DEF DashInv, BoardInv, NothingForgotten, Accounted
<1>6. WantedInv'
  BY <1>1, <1>2 DEF WantedInv
<1>7. QueueInv'
  <2>1. ASSUME NEW h \in Sessions
        PROVE  QueueOK(h, inbox'[h], lastLive, now)
    <3>1. QueueOK(h, inbox[h], lastLive, now)
      BY <1>1 DEF QueueInv
    <3>2. inbox'[h] = IF h = g THEN Append(inbox[h], e) ELSE inbox[h]
      BY <1>1, <1>4
    <3>3. QED
      BY <1>1, <1>3, <3>1, <3>2, QueueAppend
  <2>2. QED
    BY <1>2, <2>1 DEF QueueInv
<1>8. MissedInv'
  <2>1. \A h \in Sessions : inbox'[h] = inbox[h]
                            \/ \E x \in Events(h) : inbox'[h] = Append(inbox[h], x)
    BY <1>1, <1>3, <1>4
  <2>2. QED
    BY <1>1, <1>2, <1>5, <2>1, SaidComing, MissedKept
<1>9. ASSUME NEW p \in Panes
      PROVE  Told(StreamOf[p])'
  <2> DEFINE s == StreamOf[p]
             h == SessionOf(s)
  <2>1. h \in Sessions /\ s \in Carries[h] /\ s \in wanted /\ Told(s)
    BY <1>1, PaneStream DEF WantedInv, ToldInv
  <2> HIDE DEF h, s
  <2>2. CASE h # g
    <3>1. link'[h] = link[h] /\ silent'[h] = silent[h] /\ inbox'[h] = inbox[h]
      BY <1>1, <1>4, <2>1, <2>2
    <3>2. QED
      BY <1>2, <2>1, <3>1 DEF Told, h, s
  <2>3. CASE h = g /\ ~up
    <3>1. /\ inbox'[h] = Append(inbox[h], e) /\ QueueOK(h, inbox[h], lastLive, now)
      BY <1>1, <1>4, <2>3 DEF QueueInv
    <3>2. /\ Len(inbox'[h]) = Len(inbox[h]) + 1 /\ inbox'[h][Len(inbox[h]) + 1] = e
          /\ Len(inbox[h]) \in Nat
      BY <1>1, <1>3, <2>3, <3>1, QueueAppend
    <3>3. TellsDown(e, s)
      BY <1>3, <2>1, <2>3 DEF TellsDown
    <3>4. /\ Len(inbox[h]) + 1 \in 1..Len(inbox'[h])
          /\ (Len(inbox[h]) + 1 + 1)..Len(inbox'[h]) = {}
      BY <3>2
    <3>5. ToldOf(inbox'[h], lastLive[s], gaps[s], s)
      BY <3>2, <3>3, <3>4 DEF ToldOf
    <3>6. QED
      BY <1>2, <3>5 DEF Told, h, s
  <2>4. CASE h = g /\ up
    <3>1. link'[h]
      BY <1>1, <2>1, <2>4
    <3>2. QED
      BY <3>1 DEF Told, h, s
  <2>5. QED
    BY <2>2, <2>3, <2>4
<1>10. ToldInv'
  BY <1>9 DEF ToldInv
<1>11. QED
  BY <1>5, <1>6, <1>7, <1>8, <1>10 DEF RepairInv

LEMMA ConnectRepairs ==
  ASSUME RepairInv, NEW g \in Sessions, Connect(g)
  PROVE  RepairInv'
<1>1. ReconnectInv'
  BY ConnectTruthful DEF RepairInv
<1>2. /\ link' = [link EXCEPT ![g] = TRUE] /\ silent' = [silent EXCEPT ![g] = FALSE]
      /\ inbox' = [inbox EXCEPT ![g] = Append(@, Event("Connected", Carried(g), now))]
      /\ UNCHANGED <<now, wanted, net, dashVars>>
  BY DEF Connect, Send
<1>3. QED
  BY <1>1, <1>2, SayingRepairs

LEMMA BreakRepairs ==
  ASSUME RepairInv, NEW g \in Sessions, Break(g)
  PROVE  RepairInv'
<1>1. ReconnectInv'
  BY BreakTruthful DEF RepairInv
<1>2. /\ link' = [link EXCEPT ![g] = FALSE] /\ silent' = [silent EXCEPT ![g] = FALSE]
      /\ inbox' = [inbox EXCEPT ![g] = Append(@, Event("Disconnected", Carried(g), now))]
      /\ UNCHANGED <<now, wanted, net, dashVars>>
  BY DEF Break, Send
<1>3. QED
  BY <1>1, <1>2, SayingRepairs

LEMMA AdvanceRepairs ==
  ASSUME RepairInv, Advance
  PROVE  RepairInv'
<1> DEFINE busy(g) == now' \in Traded /\ link[g] /\ Carried(g) \cap TradeStreams # {}
           e(g) == Event("Trades", Carried(g) \cap TradeStreams, now')
           lost(s) == /\ now' \in Traded
                      /\ ~link[SessionOf(s)]
                      /\ silent[SessionOf(s)] \/ NeverLive(s)
           some == {p \in Panes : lost(StreamOf[p])}
<1>1. /\ now < LastMoment /\ now' = now + 1
      /\ inbox' = [g \in Sessions |-> IF busy(g) THEN Append(inbox[g], e(g)) ELSE inbox[g]]
      /\ GiveUp(some, {now'})
      /\ UNCHANGED <<wanted, link, net, silent, lastLive, gaps, reserved, jobs, charts, lapsed>>
  BY DEF Advance
<1>2. /\ DashInv /\ QueueInv /\ WantedInv /\ ToldInv /\ MissedInv
      /\ now \in Moments /\ BoardInv
      /\ \A s \in TradeStreams : lastLive[s] <= now /\ gaps[s] <= lastLive[s]
           /\ lastLive[s] \in Moments \cup {NoMoment} /\ gaps[s] \in Moments \cup {NoMoment}
  BY RepairFields
<1>3. /\ now' \in Moments /\ now <= now' /\ now \in Nat
      /\ \A x \in Moments \cup {NoMoment} : x <= now => x <= now' /\ x < now'
      /\ \A x \in Moments : x <= now' => x <= now \/ x = now'
  BY <1>1, <1>2, MomentsAre
<1>4. left' = [p \in Panes |-> IF p \in some THEN left[p] \cup {now'} ELSE left[p]]
  BY <1>1 DEF GiveUp
<1>5. ASSUME NEW g \in Sessions
      PROVE  /\ e(g) \in Events(g) /\ e(g).at = now' /\ e(g).kind = "Trades"
             /\ e(g).streams = Carried(g) \cap TradeStreams
             /\ inbox'[g] = IF busy(g) THEN Append(inbox[g], e(g)) ELSE inbox[g]
  <2>1. now' \in Nat
    BY <1>1, <1>3
  <2>2. QED
    BY <1>1, <2>1 DEF Events, Event, Kinds, Carried
<1> HIDE DEF e, some
<1>6. ReconnectInv'
  BY AdvanceTruthful DEF RepairInv
<1>7. DashInv' /\ NothingForgotten
  <2>1. RepairOK(reserved', jobs', lapsed', now')
    <3>1. RepairOK(reserved, jobs, lapsed, now)
      BY <1>2 DEF DashInv
    <3>2. RepairOK(reserved, jobs, lapsed, now')
      BY <1>2, <1>3, <3>1, LaterOK
    <3>3. QED
      BY <1>1, <3>2
  <2>2. BoardInv'
    BY <1>1, <1>2, <1>3 DEF BoardInv
  <2>3. DOMAIN left' = Panes /\ \A p \in Panes : left[p] \subseteq left'[p]
    BY <1>4
  <2>4. QED
    BY <1>1, <2>1, <2>2, <2>3 DEF DashInv, NothingForgotten, Accounted
<1>8. WantedInv'
  BY <1>1, <1>2 DEF WantedInv
<1>9. QueueInv'
  <2>1. ASSUME NEW g \in Sessions
        PROVE  QueueOK(g, inbox'[g], lastLive, now')
    <3>1. QueueOK(g, inbox[g], lastLive, now')
      BY <1>2, <1>3, QueueLater DEF QueueInv
    <3>2. CASE busy(g)
      <4>1. EventOK(e(g), now')
        <5>1. now' \in Traded /\ now' <= now'
          BY <1>3, <3>2, MomentsAre
        <5>2. e(g).at = now' /\ e(g).streams \subseteq TradeStreams
          BY <1>5
        <5>3. QED
          BY <1>3, <5>1, <5>2 DEF EventOK
      <4>2. \A s \in TradeStreams : lastLive[s] <= now'
        BY <1>2, <1>3
      <4>3. inbox'[g] = Append(inbox[g], e(g))
        BY <1>5, <3>2
      <4>4. PICK t \in Moments : t = now'
        BY <1>3
      <4>5. QueueOK(g, Append(inbox[g], e(g)), lastLive, t)
        BY <1>5, <3>1, <4>1, <4>2, <4>4, QueueAppend
      <4>6. QED
        BY <4>3, <4>4, <4>5
    <3>3. CASE ~busy(g)
      BY <1>5, <3>1, <3>3
    <3>4. QED
      BY <3>2, <3>3
  <2>2. QED
    BY <1>1, <2>1 DEF QueueInv
<1>10. ToldInv'
  <2>1. ASSUME NEW p \in Panes
        PROVE  Told(StreamOf[p])'
    <3>1. SessionOf(StreamOf[p]) \in Sessions /\ Told(StreamOf[p])
      BY <1>2, PaneStream DEF ToldInv
    <3>2. ~link[SessionOf(StreamOf[p])] => inbox'[SessionOf(StreamOf[p])] = inbox[SessionOf(StreamOf[p])]
      BY <1>5, <3>1
    <3>3. QED
      BY <1>1, <3>1, <3>2 DEF Told
  <2>2. QED
    BY <2>1 DEF ToldInv
<1>11. ASSUME NEW p \in Panes, NEW m, Coming(StreamOf[p], m)
       PROVE  Coming(StreamOf[p], m)'
  <2>1. \A g \in Sessions : inbox'[g] = inbox[g]
                              \/ \E x \in Events(g) : inbox'[g] = Append(inbox[g], x)
    BY <1>5
  <2>2. QED
    BY <1>1, <1>11, <2>1, SaidComing
<1>t. PICK t \in Moments : t = now'
  BY <1>3
<1>12. ASSUME NEW p \in Panes, t \in Traded
       PROVE  t \in Accounted(p)' \/ Coming(StreamOf[p], t)'
  <2> DEFINE s == StreamOf[p]
             g == SessionOf(s)
  <2>1. /\ s \in TradeStreams /\ s \in Basic /\ g \in Sessions /\ s \in Carries[g]
        /\ Told(s) /\ s \in wanted
    BY <1>2, PaneStream DEF ToldInv, WantedInv
  <2>2. QueueOK(g, inbox[g], lastLive, now)
    BY <1>2, <2>1 DEF QueueInv
  <2>3. \A i \in 1..Len(inbox[g]) : inbox[g][i].at \in Moments /\ inbox[g][i].at < now'
    BY <1>3, <2>2 DEF QueueOK, EventOK
  <2> HIDE DEF g
  <2>4. CASE link[g]
    <3>1. s \in Carried(g) \cap TradeStreams
      BY <2>1 DEF Carried
    <3>2. busy(g)
      BY <1>12, <1>t, <2>4, <3>1
    <3>3. inbox'[g] = Append(inbox[g], e(g)) /\ Brings(e(g), s) /\ e(g).at = t
      BY <1>t, <1>5, <2>1, <3>1, <3>2 DEF Brings
    <3>4. /\ Len(inbox[g]) \in Nat
          /\ Len(Append(inbox[g], e(g))) = Len(inbox[g]) + 1
          /\ Append(inbox[g], e(g))[Len(inbox[g]) + 1] = e(g)
      <4>1. inbox[g] \in Seq(Events(g)) /\ e(g) \in Events(g)
        BY <1>5, <2>1, <2>2 DEF QueueOK
      <4>2. QED
        BY <4>1, AppendProperties
    <3>5. Len(inbox[g]) + 1 \in 1..Len(inbox'[g])
      BY <3>3, <3>4
    <3>6. OnTheWay(inbox'[g], lastLive[s], s, t)
      BY <3>3, <3>4, <3>5 DEF OnTheWay
    <3>7. QED
      BY <1>1, <3>6 DEF Coming, g
  <2>5. CASE ~link[g] /\ (silent[g] \/ NeverLive(s))
    <3>1. p \in some
      BY <1>12, <1>t, <2>5 DEF some, g
    <3>2. t \in left'[p]
      BY <1>4, <1>t, <3>1
    <3>3. QED
      BY <3>2 DEF Accounted
  <2>6. CASE ~link[g] /\ ~silent[g] /\ ~NeverLive(s)
    <3>1. ToldOf(inbox[g], lastLive[s], gaps[s], s) /\ inbox'[g] = inbox[g]
      BY <1>5, <2>1, <2>6 DEF Told, g
    <3>2. lastLive[s] # NoMoment \/ \E k \in 1..Len(inbox[g]) : Brings(inbox[g][k], s)
      <4>1. DOMAIN inbox[g] = 1..Len(inbox[g])
        BY <2>2, LenProperties DEF QueueOK
      <4>2. QED
        BY <2>6, <4>1 DEF NeverLive, TradesUnderWay, Brings, g
    <3>3. CASE \E i \in 1..Len(inbox[g]) :
                 /\ TellsDown(inbox[g][i], s)
                 /\ \A k \in (i + 1)..Len(inbox[g]) : ~Brings(inbox[g][k], s)
      <4>1. PICK i \in 1..Len(inbox[g]) :
                 /\ TellsDown(inbox[g][i], s)
                 /\ \A k \in (i + 1)..Len(inbox[g]) : ~Brings(inbox[g][k], s)
        BY <3>3
      <4>2. ASSUME NEW k \in 1..Len(inbox[g]), Brings(inbox[g][k], s)
            PROVE  k \in 1..(i - 1)
        <5>1. k # i
          <6>1. "Trades" # "Disconnected"
            OBVIOUS
          <6>2. QED
            BY <4>1, <4>2, <6>1 DEF Brings, TellsDown
        <5>2. k \notin (i + 1)..Len(inbox[g])
          BY <4>1, <4>2
        <5>3. QED
          BY <5>1, <5>2
      <4>3. OnTheWay(inbox[g], lastLive[s], s, t)
        BY <1>t, <2>3, <3>2, <4>1, <4>2 DEF OnTheWay
      <4>4. QED
        BY <1>1, <3>1, <4>3 DEF Coming, g
    <3>4. CASE (\A k \in 1..Len(inbox[g]) : ~Brings(inbox[g][k], s))
                 /\ Sure(lastLive[s], gaps[s])
      <4>1. gaps[s] # NoMoment
        BY <3>2, <3>4 DEF Sure
      <4>2. gaps[s] < now'
        <5>1. gaps[s] \in Moments \cup {NoMoment} /\ gaps[s] <= now
          <6>1. gaps[s] <= lastLive[s] /\ lastLive[s] <= now /\ gaps[s] \in Int
                /\ lastLive[s] \in Int /\ now \in Int
            BY <1>2, <2>1, MomentsAre
          <6>2. QED
            BY <1>2, <2>1, <6>1
        <5>2. QED
          BY <1>3, <5>1
      <4>3. QED
        BY <1>1, <1>t, <4>1, <4>2 DEF Coming
    <3>5. QED
      BY <3>1, <3>3, <3>4 DEF ToldOf
  <2>7. QED
    BY <2>4, <2>5, <2>6
<1>13. MissedInv'
  <2>1. ASSUME NEW p \in Panes, NEW m \in Traded, 1 <= m, m <= now'
        PROVE  m \in Accounted(p)' \/ Coming(StreamOf[p], m)'
    <3>1. m <= now \/ m = t
      BY <1>3, <1>t, <2>1, MomentsAre
    <3>2. CASE m <= now
      <4>1. m \in Accounted(p) \/ Coming(StreamOf[p], m)
        BY <1>2, <2>1, <3>2 DEF MissedInv
      <4>2. QED
        BY <1>7, <1>11, <4>1 DEF NothingForgotten
    <3>3. CASE m = t
      BY <1>12, <3>3
    <3>4. QED
      BY <3>1, <3>2, <3>3
  <2>2. QED
    BY <2>1 DEF MissedInv
<1>14. QED
  BY <1>6, <1>7, <1>8, <1>9, <1>10, <1>13 DEF RepairInv

(* The moments lost with the events behind the kept ones.                  *)
LEMMA LostIs ==
  ASSUME NEW S, NEW ch \in Seq(S), NEW kept \in 0..Len(ch), NEW i \in (kept + 1)..Len(ch),
         NEW m
  PROVE  LET lost == LostWith(SubSeq(ch, kept + 1, Len(ch))) IN
         /\ ch[i].kind = "Trades" /\ ch[i].at = m => m \in lost
         /\ ch[i].kind = "Disconnected" /\ m \in (ch[i].at + 1)..now => m \in lost
<1> DEFINE q == SubSeq(ch, kept + 1, Len(ch))
           what(e) == IF e.kind = "Trades" THEN {e.at}
                      ELSE IF e.kind = "Disconnected" THEN (e.at + 1)..now
                      ELSE {}
<1>1. Len(ch) \in Nat /\ kept + 1 \in 1..(Len(ch) + 1) /\ kept \in Nat
  OBVIOUS
<1>2. /\ q \in Seq(S) /\ Len(q) = Len(ch) - kept
      /\ \A k \in 1..Len(q) : q[k] = ch[kept + k]
  <2>1. \A k \in (kept + 1)..Len(ch) : ch[k] \in S
    BY <1>1
  <2>2. /\ q \in Seq(S)
        /\ Len(q) = IF kept + 1 <= Len(ch) THEN Len(ch) - (kept + 1) + 1 ELSE 0
        /\ \A k \in 1..(Len(ch) - (kept + 1) + 1) : q[k] = ch[(kept + 1) + k - 1]
    BY <1>1, <2>1, SubSeqProperties
  <2> HIDE DEF q
  <2>3. Len(q) = Len(ch) - kept
    BY <1>1, <2>2
  <2>4. \A k \in 1..Len(q) : k \in 1..(Len(ch) - (kept + 1) + 1) /\ (kept + 1) + k - 1 = kept + k
    BY <1>1, <2>3
  <2>5. QED
    BY <2>2, <2>3, <2>4
<1> HIDE DEF q
<1>3. i - kept \in 1..Len(q) /\ q[i - kept] = ch[i]
  <2>1. i - kept \in 1..Len(q) /\ kept + (i - kept) = i
    BY <1>1, <1>2
  <2>2. QED
    BY <1>2, <2>1
<1>4. ch[i] \in ToSet(q)
  <2>1. \A e : e \in ToSet(q) <=> \E k \in 1..Len(q) : q[k] = e
    BY <1>2, InSet
  <2>2. QED
    BY <1>3, <2>1
<1>5. LostWith(q) = UNION {what(e) : e \in ToSet(q)}
  BY DEF LostWith
<1>6. what(ch[i]) \subseteq LostWith(q)
  BY <1>4, <1>5
<1>7. ch[i].kind = "Trades" => what(ch[i]) = {ch[i].at}
  OBVIOUS
<1>8. ch[i].kind = "Disconnected" => what(ch[i]) = (ch[i].at + 1)..now
  <2>1. "Disconnected" # "Trades"
    OBVIOUS
  <2>2. QED
    BY <2>1
<1> HIDE DEF what
<1>9. QED
  BY <1>6, <1>7, <1>8 DEF q

(* Of the chart's side, only what was given up has grown.                  *)
LEMMA MoreGivenUp ==
  ASSUME DashInv, UNCHANGED <<now, lastLive, gaps, reserved, jobs, charts, lapsed>>,
         NEW P, NEW M, GiveUp(P, M)
  PROVE  /\ DashInv' /\ NothingForgotten
         /\ \A p \in Panes : p \in P => \A m \in M : m \in Accounted(p)'
<1>1. left' = [p \in Panes |-> IF p \in P THEN left[p] \cup M ELSE left[p]]
  BY DEF GiveUp
<1>2. /\ DOMAIN left' = Panes /\ \A p \in Panes : left[p] \subseteq left'[p]
      /\ \A p \in Panes : p \in P => M \subseteq left'[p]
  BY <1>1
<1>3. QED
  BY <1>2 DEF DashInv, BoardInv, NothingForgotten, Accounted

LEMMA ResubscribeRepairs ==
  ASSUME RepairInv, NEW x \in Streams, Resubscribe(x)
  PROVE  RepairInv'
<1> DEFINE g == SessionOf(x)
           lost(kept) == LostWith(SubSeq(inbox[g], kept + 1, Len(inbox[g])))
<1>1. /\ x \notin Basic
      /\ wanted' = IF x \in wanted THEN wanted \ {x} ELSE wanted \cup {x}
      /\ link' = [link EXCEPT ![g] = FALSE]
      /\ silent' = [silent EXCEPT ![g] = TRUE]
      /\ UNCHANGED <<now, net, lastLive, gaps, reserved, jobs, charts, lapsed>>
  BY DEF Resubscribe
<1>2. PICK kept \in 0..Len(inbox[g]) :
        /\ inbox' = [inbox EXCEPT ![g] = SubSeq(@, 1, kept)]
        /\ GiveUp({p \in Panes : StreamOf[p] \in Carries[g]}, lost(kept))
  BY DEF Resubscribe
<1>3. g \in Sessions
  BY SessionsApart
<1> HIDE DEF g, lost
<1>4. /\ DashInv /\ QueueInv /\ WantedInv /\ ToldInv /\ MissedInv
      /\ DOMAIN link = Sessions /\ DOMAIN silent = Sessions /\ DOMAIN inbox = Sessions
  BY RepairFields
<1>5. /\ silent'[g] /\ inbox'[g] = SubSeq(inbox[g], 1, kept)
      /\ \A h \in Sessions : h # g =>
           link'[h] = link[h] /\ silent'[h] = silent[h] /\ inbox'[h] = inbox[h]
  BY <1>1, <1>2, <1>3, <1>4
<1>6. QueueOK(g, inbox[g], lastLive, now)
  BY <1>3, <1>4 DEF QueueInv
<1>7. /\ QueueOK(g, inbox'[g], lastLive, now) /\ Len(inbox'[g]) = kept
      /\ Len(inbox[g]) \in Nat /\ \A i \in 1..kept : inbox'[g][i] = inbox[g][i]
  <2>1. PICK ch, y : ch = inbox[g] /\ y = SubSeq(ch, 1, kept)
    OBVIOUS
  <2>2. QueueOK(g, ch, lastLive, now) /\ kept \in 0..Len(ch)
    BY <1>6, <2>1
  <2>3. /\ QueueOK(g, SubSeq(ch, 1, kept), lastLive, now) /\ Len(SubSeq(ch, 1, kept)) = kept
        /\ Len(ch) \in Nat /\ \A i \in 1..kept : SubSeq(ch, 1, kept)[i] = ch[i]
    BY <2>2, QueueSub
  <2>4. inbox'[g] = y
    BY <1>5, <2>1
  <2>5. QED
    BY <2>1, <2>3, <2>4
<1>8. ReconnectInv'
  BY ResubscribeTruthful DEF RepairInv
<1>9. /\ DashInv' /\ NothingForgotten
      /\ \A p \in Panes : StreamOf[p] \in Carries[g] =>
           \A m \in lost(kept) : m \in Accounted(p)'
  BY <1>1, <1>2, <1>4, MoreGivenUp
<1>10. WantedInv'
  <2>1. Basic \subseteq wanted'
    BY <1>1, <1>4 DEF WantedInv
  <2>2. QED
    BY <1>1, <1>4, <2>1 DEF WantedInv
<1>11. QueueInv'
  <2>1. \A h \in Sessions : QueueOK(h, inbox'[h], lastLive, now)
    BY <1>4, <1>5, <1>7 DEF QueueInv
  <2>2. QED
    BY <1>1, <2>1 DEF QueueInv
<1>12. ToldInv'
  <2>1. ASSUME NEW p \in Panes
        PROVE  Told(StreamOf[p])'
    <3>1. SessionOf(StreamOf[p]) \in Sessions /\ Told(StreamOf[p])
      BY <1>4, PaneStream DEF ToldInv
    <3>2. CASE SessionOf(StreamOf[p]) = g
      BY <1>5, <3>2 DEF Told
    <3>3. CASE SessionOf(StreamOf[p]) # g
      BY <1>1, <1>5, <3>1, <3>3 DEF Told
    <3>4. QED
      BY <3>2, <3>3
  <2>2. QED
    BY <2>1 DEF ToldInv
<1>13. ASSUME NEW p \in Panes, NEW m \in Traded, m <= now, Coming(StreamOf[p], m)
       PROVE  Coming(StreamOf[p], m)' \/ m \in Accounted(p)'
  <2> DEFINE s == StreamOf[p]
             h == SessionOf(s)
             ch == inbox[g]
             other == inbox'[g]
  <2>1. h \in Sessions /\ s \in Carries[h]
    BY PaneStream
  <2>2. CASE h # g
    <3>1. inbox'[h] = inbox[h]
      BY <1>5, <2>1, <2>2
    <3>2. QED
      BY <1>1, <1>13, <3>1 DEF Coming
  <2>3. CASE gaps[s] # NoMoment /\ gaps[s] < m
    BY <1>1, <2>3 DEF Coming
  <2>4. CASE h = g /\ OnTheWay(ch, lastLive[s], s, m)
    <3>1. s \in Carries[g]
      BY <2>1, <2>4
    <3>2. m \in lost(kept) => m \in Accounted(p)'
      BY <1>9, <3>1
    <3>3. ch \in Seq(Events(g)) /\ \A i \in 1..Len(ch) : ch[i].at \in Moments
      BY <1>6 DEF QueueOK, EventOK
    <3>4. \A i \in 1..Len(ch) : i \in 1..kept \/ i \in (kept + 1)..Len(ch)
      BY <1>7
    <3>5. now \in Int /\ m \in Int /\ \A t \in Moments : t \in Int
      BY <1>4, MomentsAre, DashFields
    <3>6. ASSUME OnTheWay(other, lastLive[s], s, m)
          PROVE  Coming(s, m)'
      BY <1>1, <2>4, <3>6 DEF Coming
    <3> HIDE DEF s, h, ch, other
    <3>7. ASSUME NEW k \in 1..Len(ch), Brings(ch[k], s), ch[k].at = m
          PROVE  OnTheWay(other, lastLive[s], s, m) \/ m \in lost(kept)
      <4>1. CASE k \in 1..kept
        BY <1>7, <3>7, <4>1 DEF OnTheWay, ch, other
      <4>2. CASE k \in (kept + 1)..Len(ch)
        BY <3>3, <3>7, <4>2, LostIs DEF lost, Brings, ch
      <4>3. QED
        BY <3>4, <4>1, <4>2
    <3>8. ASSUME NEW i \in 1..Len(ch), TellsDown(ch[i], s), ch[i].at < m,
                 lastLive[s] # NoMoment \/ \E k \in 1..(i - 1) : Brings(ch[k], s)
          PROVE  OnTheWay(other, lastLive[s], s, m) \/ m \in lost(kept)
      <4>1. CASE i \in 1..kept
        <5>1. \A k \in 1..(i - 1) : k \in 1..kept
          BY <4>1
        <5>2. lastLive[s] # NoMoment \/ \E k \in 1..(i - 1) : Brings(other[k], s)
          BY <1>7, <3>8, <5>1 DEF ch, other
        <5>3. TellsDown(other[i], s) /\ other[i].at < m /\ i \in 1..Len(other)
          BY <1>7, <3>8, <4>1 DEF ch, other
        <5>4. QED
          BY <5>2, <5>3 DEF OnTheWay
      <4>2. CASE i \in (kept + 1)..Len(ch)
        <5>1. m \in (ch[i].at + 1)..now
          BY <1>13, <3>3, <3>5, <3>8
        <5>2. QED
          BY <3>3, <3>8, <4>2, <5>1, LostIs DEF lost, TellsDown, ch
      <4>3. QED
        BY <3>4, <4>1, <4>2
    <3>9. OnTheWay(other, lastLive[s], s, m) \/ m \in lost(kept)
      BY <2>4, <3>7, <3>8 DEF OnTheWay
    <3>10. QED
      BY <3>2, <3>6, <3>9 DEF s
  <2>5. QED
    BY <1>13, <2>2, <2>3, <2>4 DEF Coming
<1>14. MissedInv'
  BY <1>1, <1>4, <1>9, <1>13, MissedKept
<1>15. QED
  BY <1>8, <1>9, <1>10, <1>11, <1>12, <1>14 DEF RepairInv

(* The first event of ch has brought the trade of stream s.                *)
Brought(other, ch, s, u) ==
  \E f, d :
    /\ Continues(other, ch, f, d, u) /\ Len(other) = Len(ch) - d
    /\ f = 2 /\ d = 0 => ~Brings(other[1], u)
    /\ f = 2 /\ Brings(ch[1], u) => u = s
    /\ f = 2 => ~TellsDown(ch[1], u)
    /\ u = s => f = 2

LEMMA LastTaken ==
  ASSUME NEW g, NEW ch, NEW last, NEW t, QueueOK(g, ch, last, t), ch # <<>>,
         ch[1].kind = "Trades", NEW s \in ch[1].streams, ch[1].streams = {s},
         NEW more, \A u \in TradeStreams : u # s => more[u] = last[u],
         more[s] \in {last[s], ch[1].at}
  PROVE  QueueOK(g, Tail(ch), more, t) /\ \A u : Brought(Tail(ch), ch, s, u)
<1>1. /\ ch \in Seq(Events(g)) /\ QueueOK(g, Tail(ch), last, t)
      /\ \A i, k \in 1..Len(ch) : i <= k => ch[i].at <= ch[k].at
  BY QueueTail DEF QueueOK
<1>2. /\ Len(ch) \in Nat /\ 1 \in 1..Len(ch) /\ Len(Tail(ch)) = Len(ch) - 1
      /\ \A i \in 1..(Len(ch) - 1) : Tail(ch)[i] = ch[i + 1] /\ i + 1 \in 1..Len(ch)
  BY <1>1, HeadIs
<1>3. \A i \in 1..Len(Tail(ch)) : ch[1].at <= Tail(ch)[i].at
  <2>1. ASSUME NEW i \in 1..Len(Tail(ch))
        PROVE  ch[1].at <= Tail(ch)[i].at
    <3>1. Tail(ch)[i] = ch[i + 1] /\ i + 1 \in 1..Len(ch) /\ 1 <= i + 1
      BY <1>2
    <3>2. QED
      BY <1>1, <1>2, <3>1
  <2>2. QED
    BY <2>1
<1>4. \A u \in TradeStreams : u \in Carries[g] =>
        \A i \in 1..Len(Tail(ch)) : more[u] <= Tail(ch)[i].at
  <2>1. ASSUME NEW u \in TradeStreams, u \in Carries[g], NEW i \in 1..Len(Tail(ch))
        PROVE  more[u] <= Tail(ch)[i].at
    <3>1. last[u] <= Tail(ch)[i].at
      BY <1>1, <2>1 DEF QueueOK
    <3>2. more[u] = last[u] \/ more[u] = ch[1].at
      OBVIOUS
    <3>3. QED
      BY <1>3, <3>1, <3>2
  <2>2. QED
    BY <2>1
<1>5. QueueOK(g, Tail(ch), more, t)
  BY <1>1, <1>4 DEF QueueOK
<1>6. ASSUME NEW u
      PROVE  Brought(Tail(ch), ch, s, u)
  <2>1. Continues(Tail(ch), ch, 2, 1, u)
    BY <1>1, ContinuesTail
  <2>2. Brings(ch[1], u) => u = s
    BY DEF Brings
  <2>3. ~TellsDown(ch[1], u)
    BY TradesSayNothing
  <2>4. QED
    BY <1>2, <2>1, <2>2, <2>3 DEF Brought
<1>7. QED
  BY <1>5, <1>6

LEMMA InPlaceBrought ==
  ASSUME NEW ch, NEW other, NEW u, NEW s, Len(ch) \in Nat \ {0}, Len(other) = Len(ch),
         \A i \in 1..Len(ch) : i # 1 => other[i] = ch[i],
         ch[1].kind = "Trades", other[1].kind = "Trades", other[1].at = ch[1].at,
         \A x : x \in other[1].streams <=> x \in ch[1].streams /\ x # s
  PROVE  Brought(other, ch, s, u)
<1>1. /\ u # s => Continues(other, ch, 1, 0, u)
      /\ u = s => Continues(other, ch, 2, 0, u) /\ ~Brings(other[1], u)
  BY ContinuesInPlace
<1>2. ~TellsDown(ch[1], u)
  BY TradesSayNothing
<1>3. Len(other) = Len(ch) - 0
  OBVIOUS
<1>4. CASE u = s
  BY <1>1, <1>2, <1>3, <1>4 DEF Brought
<1>5. CASE u # s
  <2>1. 1 # 2
    OBVIOUS
  <2>2. QED
    BY <1>1, <1>2, <1>3, <1>5, <2>1 DEF Brought
<1>6. QED
  BY <1>4, <1>5

LEMMA OneTaken ==
  ASSUME NEW g, NEW ch, NEW other, NEW last, NEW t, QueueOK(g, ch, last, t), ch # <<>>,
         ch[1].kind = "Trades",
         NEW f \in Events(g), f.kind = "Trades", f.at = ch[1].at,
         f.streams \subseteq ch[1].streams, other = [ch EXCEPT ![1] = f]
  PROVE  QueueOK(g, other, last, t) /\ \A i \in 1..Len(other) : ch[1].at <= other[i].at
<1>1. /\ ch \in Seq(Events(g))
      /\ \A i \in 1..Len(ch) : EventOK(ch[i], t)
      /\ \A i, k \in 1..Len(ch) : i <= k => ch[i].at <= ch[k].at
      /\ \A u \in TradeStreams : u \in Carries[g] => \A i \in 1..Len(ch) : last[u] <= ch[i].at
  BY DEF QueueOK
<1>2. /\ Len(ch) \in Nat \ {0} /\ 1 \in 1..Len(ch)
      /\ \A i \in 1..Len(ch) : ch[i] \in Events(g) /\ 1 <= i
  BY <1>1, HeadIs
<1>3. /\ other \in Seq(Events(g)) /\ Len(other) = Len(ch)
      /\ other[1] = f /\ \A i \in 1..Len(ch) : i # 1 => other[i] = ch[i]
  BY <1>1, <1>2, ExceptSeq
<1>4. \A i \in 1..Len(ch) : other[i].at = ch[i].at
  BY <1>3
<1>5. \A i \in 1..Len(ch) : EventOK(other[i], t)
  <2>1. EventOK(f, t)
    <3>1. /\ ch[1].at \in Moments /\ ch[1].at <= t /\ ch[1].at \in Traded
          /\ ch[1].streams \subseteq TradeStreams
      BY <1>1, <1>2 DEF EventOK
    <3>2. QED
      BY <3>1 DEF EventOK
  <2>2. QED
    BY <1>1, <1>3, <2>1
<1>6. \A i, k \in 1..Len(ch) : i <= k => other[i].at <= other[k].at
  BY <1>1, <1>4
<1>7. \A u \in TradeStreams : u \in Carries[g] =>
        \A i \in 1..Len(ch) : last[u] <= other[i].at
  BY <1>1, <1>4
<1>8. \A i \in 1..Len(ch) : ch[1].at <= other[i].at
  BY <1>1, <1>2, <1>4
<1>9. QED
  BY <1>3, <1>5, <1>6, <1>7, <1>8 DEF QueueOK

(* ... and is the newest trade that was seen.                              *)
LEMMA QueueSeen ==
  ASSUME NEW g, NEW ch, NEW last, NEW t, QueueOK(g, ch, last, t), NEW m,
         \A i \in 1..Len(ch) : m <= ch[i].at,
         NEW more, \A u \in TradeStreams : more[u] = last[u] \/ more[u] = m
  PROVE  QueueOK(g, ch, more, t)
<1>1. ASSUME NEW u \in TradeStreams, u \in Carries[g], NEW i \in 1..Len(ch)
      PROVE  more[u] <= ch[i].at
  <2>1. last[u] <= ch[i].at /\ m <= ch[i].at
    BY <1>1 DEF QueueOK
  <2>2. QED
    BY <2>1
<1>2. QED
  BY <1>1 DEF QueueOK

LEMMA OneBrought ==
  ASSUME NEW g, NEW ch \in Seq(Events(g)), NEW other, ch # <<>>,
         ch[1].kind = "Trades", NEW s,
         NEW f \in Events(g), f.kind = "Trades", f.at = ch[1].at,
         \A x : x \in f.streams <=> x \in ch[1].streams /\ x # s,
         other = [ch EXCEPT ![1] = f], NEW u
  PROVE  Brought(other, ch, s, u)
<1>1. Len(ch) \in Nat \ {0} /\ 1 \in 1..Len(ch)
  BY HeadIs
<1>2. /\ Len(other) = Len(ch)
      /\ other[1] = f /\ \A i \in 1..Len(ch) : i # 1 => other[i] = ch[i]
  BY <1>1, ExceptSeq
<1>3. \A x : x \in other[1].streams <=> x \in ch[1].streams /\ x # s
  BY <1>2
<1>4. other[1].kind = "Trades" /\ other[1].at = ch[1].at
  BY <1>2
<1>5. QED
  BY <1>1, <1>2, <1>3, <1>4, InPlaceBrought

LEMMA OnTradesRepairs ==
  ASSUME RepairInv, NEW g \in Sessions, OnTrades(g)
  PROVE  RepairInv'
<1> DEFINE ch == inbox[g]
           other == inbox'[g]
           e == ch[1]
<1>1. /\ DashInv /\ QueueInv /\ WantedInv /\ ToldInv /\ MissedInv /\ LinkInv
      /\ DOMAIN inbox = Sessions
      /\ ch # <<>> /\ Head(ch).kind = "Trades"
      /\ UNCHANGED <<now, wanted, link, net, silent>>
  BY RepairFields DEF OnTrades
<1>2. /\ QueueOK(g, ch, lastLive, now) /\ Head(ch) = e /\ e.kind = "Trades"
      /\ 1 \in 1..Len(ch) /\ ch \in Seq(Events(g))
  <2>1. QueueOK(g, ch, lastLive, now)
    BY <1>1 DEF QueueInv
  <2>2. QED
    BY <1>1, <2>1, QueueTail DEF QueueOK
<1>3. PICK s \in e.streams :
        /\ Ingest(s, e.at)
        /\ inbox' = IF e.streams = {s} THEN [inbox EXCEPT ![g] = Tail(@)]
                    ELSE [inbox EXCEPT ![g][1].streams = @ \ {s}]
  BY <1>2 DEF OnTrades
<1>4. /\ e.at \in Traded /\ e.at <= now /\ s \in TradeStreams /\ s \in Carries[g]
      /\ s \in Streams
  <2>1. EventOK(e, now) /\ e \in Events(g)
    BY <1>2 DEF QueueOK
  <2>2. e.streams \subseteq Carries[g] /\ Carries[g] \subseteq Streams
    BY <2>1, EventFields, SessionsApart
  <2>3. QED
    BY <1>2, <1>3, <2>1, <2>2 DEF EventOK
<1>5. /\ DashInv' /\ NothingForgotten /\ gaps' = gaps
      /\ \A p \in Panes : StreamOf[p] = s => e.at \in Accounted(p)'
      /\ lastLive'[s] # NoMoment /\ lastLive'[s] \in {lastLive[s], e.at}
      /\ \A u \in TradeStreams : u # s => lastLive'[u] = lastLive[u]
  BY <1>1, <1>3, <1>4, IngestOK
<1>6. ReconnectInv'
  BY OnTradesTruthful DEF RepairInv
<1>7. \A h \in Sessions : h # g => inbox'[h] = inbox[h] /\ s \notin Carries[h]
  BY <1>1, <1>3, <1>4, SessionsApart
<1>8. QueueOK(g, other, lastLive', now) /\ \A u : Brought(other, ch, s, u)
  <2>1. CASE e.streams = {s}
    <3>1. other = Tail(ch)
      BY <1>1, <1>3, <2>1
    <3> HIDE DEF ch, other, e
    <3>2. PICK more : more = lastLive'
      OBVIOUS
    <3>3. /\ \A u \in TradeStreams : u # s => more[u] = lastLive[u]
          /\ more[s] \in {lastLive[s], e.at}
      BY <1>5, <3>2
    <3>4. QueueOK(g, Tail(ch), more, now) /\ \A u : Brought(Tail(ch), ch, s, u)
      BY <1>1, <1>2, <1>3, <2>1, <3>3, LastTaken DEF e
    <3>5. QED
      BY <3>1, <3>2, <3>4
  <2>2. CASE e.streams # {s}
    <3>a. PICK f : f = [e EXCEPT !.streams = @ \ {s}]
      OBVIOUS
    <3>1. other = [ch EXCEPT ![1] = f]
      BY <1>1, <1>2, <1>3, <2>2, <3>a
    <3>b. /\ f \in Events(g) /\ f.kind = "Trades" /\ f.at = ch[1].at
          /\ \A x : x \in f.streams <=> x \in ch[1].streams /\ x # s
      <4>1. e \in Events(g)
        BY <1>2
      <4> HIDE DEF e
      <4>2. /\ f \in Events(g) /\ f.kind = e.kind /\ f.at = e.at
            /\ f.streams = e.streams \ {s}
        BY <3>a, <4>1 DEF Events
      <4>3. QED
        BY <1>2, <4>2 DEF e
    <3> HIDE DEF ch, other, e
    <3>2. PICK more : more = lastLive'
      OBVIOUS
    <3>3. /\ \A u \in TradeStreams : u # s => more[u] = lastLive[u]
          /\ more[s] \in {lastLive[s], e.at}
      BY <1>5, <3>2
    <3>4. QueueOK(g, other, more, now) /\ \A u : Brought(other, ch, s, u)
      <4>1. /\ QueueOK(g, ch, lastLive, now) /\ ch # <<>> /\ ch[1].kind = "Trades"
            /\ s \in ch[1].streams
        BY <1>1, <1>2, <1>3 DEF e
      <4>2. f.streams \subseteq ch[1].streams
        BY <3>b
      <4>3. /\ QueueOK(g, other, lastLive, now)
            /\ \A i \in 1..Len(other) : ch[1].at <= other[i].at
        BY <3>1, <3>b, <4>1, <4>2, OneTaken
      <4>4. \A u \in TradeStreams : more[u] = lastLive[u] \/ more[u] = ch[1].at
        BY <3>3 DEF e
      <4>5. QueueOK(g, other, more, now)
        BY <4>3, <4>4, QueueSeen
      <4>6. \A u : Brought(other, ch, s, u)
        <5>1. ch \in Seq(Events(g))
          BY <1>2
        <5>2. QED
          BY <3>1, <3>b, <4>1, <5>1, OneBrought
      <4>7. QED
        BY <4>5, <4>6
    <3>5. QED
      BY <3>2, <3>4
  <2>3. QED
    BY <2>1, <2>2
<1> HIDE DEF ch, other, e
<1>9. QueueInv'
  <2>1. ASSUME NEW h \in Sessions, h # g
        PROVE  QueueOK(h, inbox'[h], lastLive', now)
    <3>1. QueueOK(h, inbox[h], lastLive, now) /\ inbox'[h] = inbox[h] /\ s \notin Carries[h]
      BY <1>1, <1>7, <2>1 DEF QueueInv
    <3>2. \A u \in TradeStreams : u \in Carries[h] => lastLive'[u] = lastLive[u]
      BY <1>5, <3>1
    <3>3. QED
      BY <3>1, <3>2 DEF QueueOK
  <2>2. QED
    BY <1>1, <1>8, <2>1 DEF QueueInv, other
<1>10. WantedInv'
  BY <1>1, <1>5 DEF WantedInv
<1>11. ASSUME NEW p \in Panes
       PROVE  /\ Told(StreamOf[p])'
              /\ \A m : Coming(StreamOf[p], m) => Coming(StreamOf[p], m)' \/ m \in Accounted(p)'
  <2> DEFINE u == StreamOf[p]
             h == SessionOf(u)
  <2>1. /\ h \in Sessions /\ u \in Carries[h] /\ u \in TradeStreams /\ Told(u)
    BY <1>1, PaneStream DEF ToldInv
  <2> HIDE DEF u, h
  <2>2. CASE h # g
    <3>1. u # s /\ inbox'[h] = inbox[h]
      BY <1>7, <2>1, <2>2
    <3>2. lastLive'[u] = lastLive[u]
      BY <1>5, <2>1, <3>1
    <3>3. Told(u)'
      BY <1>1, <1>5, <2>1, <3>1, <3>2 DEF Told, h
    <3>4. \A m : Coming(u, m) => Coming(u, m)'
      BY <1>5, <3>1, <3>2 DEF Coming, h
    <3>5. QED
      BY <3>3, <3>4 DEF u
  <2>3. CASE h = g
    <3>1. PICK f, d :
            /\ Continues(other, ch, f, d, u) /\ Len(other) = Len(ch) - d
            /\ f = 2 /\ d = 0 => ~Brings(other[1], u)
            /\ f = 2 /\ Brings(ch[1], u) => u = s
            /\ f = 2 => ~TellsDown(ch[1], u)
            /\ u = s => f = 2
      BY <1>8 DEF Brought
    <3>2. u # s => lastLive'[u] = lastLive[u]
      BY <1>5, <2>1
    <3>3. PICK last, more : last = lastLive[u] /\ more = lastLive'[u]
      OBVIOUS
    <3>4. u = s => more # NoMoment
      BY <1>5, <3>3
    <3>5. u # s => more = last
      BY <3>2, <3>3
    <3>6. ToldOf(ch, last, gaps[u], u) => ToldOf(other, more, gaps[u], u)
      <4>1. Sure(last, gaps[u]) => Sure(more, gaps[u]) \/ (f = 2 /\ Brings(ch[1], u))
        <5>1. CASE u # s
          BY <3>5, <5>1
        <5>2. CASE u = s
          BY <1>2, <1>3, <3>1, <5>2 DEF Brings, e
        <5>3. QED
          BY <5>1, <5>2
      <4>2. QED
        BY <3>1, <4>1, ContinuesTold
    <3>7. Told(u)'
      BY <1>1, <1>5, <2>1, <2>3, <3>3, <3>6 DEF Told, h, ch, other
    <3>8. ASSUME NEW m, Coming(u, m)
          PROVE  Coming(u, m)' \/ m \in Accounted(p)'
      <4>1. CASE OnTheWay(ch, last, u, m)
        <5>1. last # NoMoment => more # NoMoment
          BY <3>4, <3>5
        <5>2. f = 2 /\ Brings(ch[1], u) => more # NoMoment
          BY <3>1, <3>4
        <5>3. OnTheWay(other, more, u, m) \/ (u = s /\ ch[1].at = m)
          BY <3>1, <4>1, <5>1, <5>2, ContinuesOnTheWay
        <5>4. OnTheWay(other, more, u, m) => Coming(u, m)'
          BY <2>3, <3>3 DEF Coming, h, other
        <5>5. u = s /\ ch[1].at = m => m \in Accounted(p)'
          BY <1>5 DEF u, e
        <5>6. QED
          BY <5>3, <5>4, <5>5
      <4>2. CASE gaps[u] # NoMoment /\ gaps[u] < m
        BY <1>5, <4>2 DEF Coming
      <4>3. QED
        BY <2>3, <3>3, <3>8, <4>1, <4>2 DEF Coming, h, ch
    <3>9. QED
      BY <3>7, <3>8 DEF u
  <2>4. QED
    BY <2>2, <2>3
<1>12. ToldInv'
  BY <1>11 DEF ToldInv
<1>13. MissedInv'
  BY <1>1, <1>5, <1>11, MissedKept
<1>14. QED
  BY <1>5, <1>6, <1>9, <1>10, <1>12, <1>13 DEF RepairInv

LEMMA OnDisconnectedRepairs ==
  ASSUME RepairInv, NEW g \in Sessions, OnDisconnected(g)
  PROVE  RepairInv'
<1> DEFINE ch == inbox[g]
           other == Tail(ch)
           e == ch[1]
           n == WithDisconnected(net, e.streams)
<1>1. /\ DashInv /\ QueueInv /\ WantedInv /\ ToldInv /\ MissedInv /\ OverlayInv
      /\ DOMAIN inbox = Sessions
      /\ ch # <<>> /\ Head(ch).kind = "Disconnected"
      /\ inbox' = [inbox EXCEPT ![g] = other]
      /\ RecordGaps(Head(ch).streams)
      /\ net' = Evaluated(WithDisconnected(net, Head(ch).streams), now)
      /\ UNCHANGED <<now, wanted, link, silent>>
  BY RepairFields DEF OnDisconnected, Received
<1>2. /\ QueueOK(g, ch, lastLive, now) /\ QueueOK(g, other, lastLive, now)
      /\ Head(ch) = e /\ 1 \in 1..Len(ch) /\ ch \in Seq(Events(g))
  <2>1. QueueOK(g, ch, lastLive, now)
    BY <1>1 DEF QueueInv
  <2>2. QED
    BY <1>1, <2>1, QueueTail DEF QueueOK
<1>3. e.kind = "Disconnected" /\ e.streams \subseteq Carries[g] /\ e.streams \in SUBSET Streams
  <2>1. e \in Events(g)
    BY <1>2
  <2>2. QED
    BY <1>1, <1>2, <2>1, EventFields, SessionsApart
<1>4. /\ DashInv' /\ NothingForgotten /\ lastLive' = lastLive
      /\ \A u \in TradeStreams : gaps'[u] = IF u \in e.streams THEN FirstBreak(u) ELSE gaps[u]
  BY <1>1, <1>2, RecordGapsOK
<1>5. \A u \in TradeStreams : /\ FirstBreak(u) \in Moments \cup {NoMoment}
                              /\ FirstBreak(u) <= lastLive[u]
                              /\ FirstBreak(u) = NoMoment => lastLive[u] = NoMoment /\ gaps[u] = NoMoment
                              /\ gaps[u] # NoMoment => FirstBreak(u) <= gaps[u]
  BY <1>1, FirstBreakIs
<1>6. net'.expected = net.expected \cup e.streams
  <2>1. now \in Nat /\ Shown(net, now) /\ net \in ConnectivityType
    BY <1>1 DEF OverlayInv, Shown
  <2>2. Shown(n, now)
    BY <1>3, <2>1, PreparedIsShown
  <2>3. n.expected = net.expected \cup e.streams
    BY <2>1 DEF WithDisconnected, ConnectivityType
  <2> HIDE DEF n
  <2>4. Evaluated(n, now).expected = n.expected
    BY <2>1, <2>2, EvaluatedIsTrue
  <2>5. QED
    BY <1>1, <1>2, <2>3, <2>4 DEF n
<1>7. ReconnectInv'
  BY OnDisconnectedTruthful DEF RepairInv
<1>8. WantedInv'
  BY <1>1, <1>4, <1>6 DEF WantedInv
<1>9. inbox'[g] = other /\ \A h \in Sessions : h # g => inbox'[h] = inbox[h]
  BY <1>1
<1>10. \A u : Continues(other, ch, 2, 1, u) /\ Len(other) = Len(ch) - 1
  BY <1>1, <1>2, ContinuesTail
<1> HIDE DEF ch, other, e, n
<1>11. QueueInv'
  BY <1>1, <1>2, <1>4, <1>9 DEF QueueInv
<1>12. ASSUME NEW p \in Panes
       PROVE  /\ Told(StreamOf[p])'
              /\ \A m \in Traded : Coming(StreamOf[p], m) => Coming(StreamOf[p], m)'
  <2> DEFINE u == StreamOf[p]
             h == SessionOf(u)
  <2>1. /\ h \in Sessions /\ u \in Carries[h] /\ u \in TradeStreams /\ Told(u)
    BY <1>1, PaneStream DEF ToldInv
  <2> HIDE DEF u, h
  <2>2. CASE h # g
    <3>1. u \notin e.streams /\ inbox'[h] = inbox[h]
      BY <1>3, <1>9, <2>1, <2>2, SessionsApart
    <3>2. gaps'[u] = gaps[u]
      BY <1>4, <2>1, <3>1
    <3>3. Told(u)'
      BY <1>1, <1>4, <2>1, <3>1, <3>2 DEF Told, h
    <3>4. \A m : Coming(u, m) => Coming(u, m)'
      BY <1>4, <3>1, <3>2 DEF Coming, h
    <3>5. QED
      BY <3>3, <3>4 DEF u
  <2>3. CASE h = g
    <3>1. PICK last, gap, next : last = lastLive[u] /\ gap = gaps[u] /\ next = gaps'[u]
      OBVIOUS
    <3>2. /\ next = NoMoment => last = NoMoment \/ gap = NoMoment
          /\ u \in e.streams /\ next = NoMoment => last = NoMoment
          /\ u \notin e.streams => next = gap
      BY <1>4, <1>5, <2>1, <3>1
    <3>3. ToldOf(ch, last, gap, u) => ToldOf(other, last, next, u)
      <4>1. Sure(last, gap) => Sure(last, next)
        BY <3>2 DEF Sure
      <4>2. TellsDown(ch[1], u) => Sure(last, next)
        BY <3>2 DEF Sure, TellsDown, e
      <4>3. 1 # 0
        OBVIOUS
      <4>4. QED
        <5>1. Continues(other, ch, 2, 1, u) /\ Len(other) = Len(ch) - 1
          BY <1>10
        <5>2. QED
          BY <4>1, <4>2, <4>3, <5>1, ContinuesTold
    <3>4. Told(u)'
      BY <1>1, <1>4, <1>9, <2>1, <2>3, <3>1, <3>3 DEF Told, h, ch
    <3>5. ASSUME NEW m \in Traded, Coming(u, m)
          PROVE  Coming(u, m)'
      <4>1. CASE gap # NoMoment /\ gap < m
        <5>1. CASE u \in e.streams
          <6>1. next = FirstBreak(u) /\ next # NoMoment /\ next <= gap
            BY <1>4, <1>5, <2>1, <3>1, <4>1, <5>1
          <6>2. next \in Int /\ gap \in Int /\ m \in Int
            <7>1. next \in Moments \cup {NoMoment} /\ gap \in Moments \cup {NoMoment}
              BY <1>1, <1>5, <2>1, <3>1, <6>1, RepairFields
            <7>2. QED
              BY <7>1, MomentsAre
          <6>3. next < m
            BY <4>1, <6>1, <6>2
          <6>4. QED
            BY <3>1, <6>1, <6>3 DEF Coming
        <5>2. CASE u \notin e.streams
          BY <3>1, <3>2, <4>1, <5>2 DEF Coming
        <5>3. QED
          BY <5>1, <5>2
      <4>2. CASE OnTheWay(ch, last, u, m)
        <5>1. ~Brings(ch[1], u)
          <6>1. "Trades" # "Disconnected"
            OBVIOUS
          <6>2. QED
            BY <1>3, <6>1 DEF Brings, e
        <5>2. \/ OnTheWay(other, last, u, m)
              \/ TellsDown(ch[1], u) /\ last # NoMoment /\ ch[1].at < m
          BY <1>10, <4>2, <5>1, ContinuesOnTheWay
        <5>3. CASE OnTheWay(other, last, u, m)
          BY <1>4, <1>9, <2>3, <3>1, <5>3 DEF Coming, h
        <5>4. CASE TellsDown(ch[1], u) /\ last # NoMoment /\ ch[1].at < m
          <6>1. u \in e.streams
            BY <5>4 DEF TellsDown, e
          <6>2. next = FirstBreak(u) /\ next # NoMoment /\ next <= last
            BY <1>4, <1>5, <2>1, <3>1, <5>4, <6>1
          <6>3. last <= ch[1].at /\ ch[1].at \in Moments
            BY <1>2, <2>1, <2>3, <3>1 DEF QueueOK, EventOK
          <6>4. next \in Int /\ last \in Int /\ ch[1].at \in Int /\ m \in Int
            <7>1. next \in Moments \cup {NoMoment} /\ last \in Moments \cup {NoMoment}
              BY <1>1, <1>5, <2>1, <3>1, <6>2, RepairFields
            <7>2. QED
              BY <6>3, <7>1, MomentsAre
          <6>5. next < m
            BY <5>4, <6>2, <6>3, <6>4
          <6>6. QED
            BY <3>1, <6>2, <6>5 DEF Coming
        <5>5. QED
          BY <5>2, <5>3, <5>4
      <4>3. QED
        BY <2>3, <3>1, <3>5, <4>1, <4>2 DEF Coming, h, ch
    <3>6. QED
      BY <3>4, <3>5 DEF u
  <2>4. QED
    BY <2>2, <2>3
<1>13. ToldInv'
  BY <1>12 DEF ToldInv
<1>14. MissedInv'
  BY <1>1, <1>4, <1>12, MissedKept
<1>15. QED
  BY <1>4, <1>7, <1>8, <1>11, <1>13, <1>14 DEF RepairInv

-----------------------------------------------------------------------------
(* The user interface evaluates *)

(* The sessions' events are handled or left, and no trade with them.       *)
Passed ==
  /\ \A g \in Sessions : QueueOK(g, inbox'[g], lastLive, now)
  /\ \A p \in Panes :
       LET u == StreamOf[p]
           h == SessionOf(u)
       IN  /\ ~link[h] /\ ~silent[h] => ToldOf(inbox'[h], lastLive[u], gaps[u], u)
           /\ \A m : OnTheWay(inbox[h], lastLive[u], u, m)
                       => OnTheWay(inbox'[h], lastLive[u], u, m)

(* With no repair ...                                                      *)
LEMMA PassedRepairs ==
  ASSUME RepairInv, ReconnectInv', UNCHANGED <<now, wanted, link, silent, lastLive, gaps>>,
         Passed, DashInv', NothingForgotten,
         \A s \in Basic \cap TradeStreams : s \in net.expected => s \in net'.expected
  PROVE  RepairInv'
<1>1. QueueInv /\ WantedInv /\ ToldInv /\ MissedInv
  BY RepairFields
<1>2. QueueInv'
  BY DEF Passed, QueueInv
<1>3. WantedInv'
  BY <1>1 DEF WantedInv
<1>4. ToldInv'
  BY DEF Passed, ToldInv, Told
<1>5. \A p \in Panes : \A m : Coming(StreamOf[p], m) => Coming(StreamOf[p], m)'
  BY DEF Passed, Coming
<1>6. MissedInv'
  BY <1>1, <1>5, MissedKept
<1>7. QED
  BY <1>2, <1>3, <1>4, <1>6 DEF RepairInv

(* ... and with one: every stream of a pane is back by then, or the news   *)
(* of its next break is on the way.                                        *)
LEMMA ExecuteRepairs ==
  ASSUME RepairInv, ReconnectInv', UNCHANGED <<now, wanted, link, silent>>,
         Passed, NEW ticking \in BOOLEAN, Execute(now, ticking),
         \A s \in Basic \cap TradeStreams : gaps[s] # NoMoment => s \in net'.connected
  PROVE  RepairInv'
<1>1. /\ DashInv /\ QueueInv /\ WantedInv /\ ToldInv /\ MissedInv /\ now \in Moments
      /\ \A s \in TradeStreams : gaps[s] \in Moments \cup {NoMoment}
  BY RepairFields
<1>2. /\ DashInv' /\ NothingForgotten /\ lastLive' = lastLive
      /\ \A s \in TradeStreams : gaps'[s] = NoMoment
      /\ \A p \in Panes : \A m \in (gaps[StreamOf[p]] + 1)..now :
           gaps[StreamOf[p]] # NoMoment => m \in Accounted(p)'
  BY <1>1, ExecuteOK
<1>3. QueueInv'
  BY <1>2 DEF Passed, QueueInv
<1>4. WantedInv'
  BY <1>1, <1>2 DEF WantedInv
<1>5. ASSUME NEW p \in Panes
      PROVE  Told(StreamOf[p])'
  <2> DEFINE u == StreamOf[p]
             h == SessionOf(u)
             ch == inbox'[h]
  <2>1. /\ u \in TradeStreams /\ u \in Basic /\ u \in wanted /\ h \in Sessions
        /\ u \in Carries[h]
    BY <1>1, PaneStream DEF WantedInv
  <2>2. ~link[h] /\ ~silent[h] => ToldOf(ch, lastLive[u], gaps[u], u)
    BY DEF Passed
  <2>3. Truthful(h, link[h], silent[h], ch, wanted, net'.connected)
    BY <2>1 DEF ReconnectInv, LinkInv
  <2>4. gaps[u] # NoMoment => u \in net'.connected
    BY <2>1
  <2> HIDE DEF u, h, ch
  <2>5. ASSUME ~link[h], ~silent[h]
        PROVE  ToldOf(ch, lastLive[u], NoMoment, u)
    <3>1. CASE \E i \in 1..Len(ch) : /\ TellsDown(ch[i], u)
                                     /\ \A k \in (i + 1)..Len(ch) : ~Brings(ch[k], u)
      BY <3>1 DEF ToldOf
    <3>2. CASE (\A k \in 1..Len(ch) : ~Brings(ch[k], u)) /\ gaps[u] # NoMoment
      <4>1. u \in net'.connected
        BY <2>4, <3>2
      <4>2. ~Ends(ch, u \in net'.connected, u) /\ ch \in Seq(Events(h))
        BY <2>1, <2>3, <2>5 DEF Truthful
      <4>3. PICK i \in 1..Len(ch) : TellsDown(ch[i], u)
        BY <4>1, <4>2 DEF Ends
      <4>4. \A k \in (i + 1)..Len(ch) : k \in 1..Len(ch)
        BY <4>2, LenProperties
      <4>5. QED
        BY <3>2, <4>3, <4>4 DEF ToldOf
    <3>3. CASE (\A k \in 1..Len(ch) : ~Brings(ch[k], u)) /\ lastLive[u] = NoMoment
      BY <3>3 DEF ToldOf, Sure
    <3>4. QED
      BY <2>2, <2>5, <3>1, <3>2, <3>3 DEF ToldOf, Sure
  <2>6. lastLive'[u] = lastLive[u] /\ gaps'[u] = NoMoment
    BY <1>2, <2>1
  <2>7. QED
    BY <2>5, <2>6 DEF Told, u, h, ch
<1>6. ToldInv'
  BY <1>5 DEF ToldInv
<1>7. ASSUME NEW p \in Panes, NEW m \in Traded, m <= now, Coming(StreamOf[p], m)
      PROVE  Coming(StreamOf[p], m)' \/ m \in Accounted(p)'
  <2> DEFINE u == StreamOf[p]
  <2>1. CASE OnTheWay(inbox[SessionOf(u)], lastLive[u], u, m)
    <3>1. OnTheWay(inbox'[SessionOf(u)], lastLive[u], u, m)
      BY <2>1 DEF Passed
    <3>2. QED
      BY <1>2, <3>1 DEF Coming
  <2>2. CASE gaps[u] # NoMoment /\ gaps[u] < m
    <3>1. gaps[u] \in Int /\ m \in Int /\ now \in Int
      <4>1. gaps[u] \in Moments /\ m \in Moments
        BY <1>1, <2>2, MomentsAre
      <4>2. QED
        BY <1>1, <4>1, MomentsAre
    <3>2. m \in (gaps[u] + 1)..now
      BY <1>7, <2>2, <3>1
    <3>3. QED
      BY <1>2, <2>2, <3>2
  <2>3. QED
    BY <1>7, <2>1, <2>2 DEF Coming
<1>8. MissedInv'
  BY <1>1, <1>2, <1>7, MissedKept
<1>9. QED
  BY <1>2, <1>3, <1>4, <1>6, <1>8 DEF RepairInv

LEMMA RestoredIsComplete ==
  ASSUME NEW n, NEW t, Transition(n, t) = "Restored"
  PROVE  Complete(n)
<1>1. "Restored" # "None" /\ "Restored" # "WentOffline"
  OBVIOUS
<1>2. QED
  BY <1>1 DEF Transition

LEMMA OnConnectedRepairs ==
  ASSUME RepairInv, NEW g \in Sessions, OnConnected(g)
  PROVE  RepairInv'
<1> DEFINE ch == inbox[g]
           other == Tail(ch)
           e == ch[1]
           n == WithConnected(net, e.streams)
<1>1. /\ DashInv /\ QueueInv /\ WantedInv /\ ToldInv /\ OverlayInv
      /\ DOMAIN inbox = Sessions
      /\ ch # <<>> /\ Head(ch).kind = "Connected"
      /\ inbox' = [inbox EXCEPT ![g] = other]
      /\ Apply(WithConnected(net, Head(ch).streams))
      /\ UNCHANGED <<now, wanted, link, silent>>
  BY RepairFields DEF OnConnected, Received
<1>2. /\ QueueOK(g, ch, lastLive, now) /\ QueueOK(g, other, lastLive, now)
      /\ Head(ch) = e /\ 1 \in 1..Len(ch) /\ ch \in Seq(Events(g))
  <2>1. QueueOK(g, ch, lastLive, now)
    BY <1>1 DEF QueueInv
  <2>2. QED
    BY <1>1, <2>1, QueueTail DEF QueueOK
<1>3. e.kind = "Connected" /\ e.streams \in SUBSET Streams
  <2>1. e \in Events(g)
    BY <1>2
  <2>2. QED
    BY <1>1, <1>2, <2>1, EventFields, SessionsApart
<1>4. /\ net'.expected = n.expected /\ net'.connected = n.connected
      /\ n.expected = net.expected \cup e.streams
  <2>1. now \in Nat /\ Shown(net, now) /\ net \in ConnectivityType
    BY <1>1 DEF OverlayInv, Shown
  <2>2. Shown(n, now)
    BY <1>3, <2>1, ConnectingIsShown
  <2>3. n.expected = net.expected \cup e.streams
    BY <2>1 DEF WithConnected, ConnectivityType
  <2>4. net' = Evaluated(n, now)
    BY <1>1, <1>2 DEF Apply
  <2> HIDE DEF n
  <2>5. QED
    BY <2>1, <2>2, <2>3, <2>4, EvaluatedIsTrue
<1>5. IF Transition(n, now) = "Restored" THEN Execute(now, FALSE) ELSE UNCHANGED dashVars
  BY <1>1, <1>2 DEF Apply
<1>6. ReconnectInv'
  BY OnConnectedTruthful DEF RepairInv
<1>7. inbox'[g] = other /\ \A h \in Sessions : h # g => inbox'[h] = inbox[h]
  BY <1>1
<1>8. \A u : Continues(other, ch, 2, 1, u) /\ Len(other) = Len(ch) - 1
  BY <1>1, <1>2, ContinuesTail
<1>9. \A u : ~Brings(ch[1], u) /\ ~TellsDown(ch[1], u)
  <2>1. "Trades" # "Connected" /\ "Disconnected" # "Connected"
    OBVIOUS
  <2>2. QED
    BY <1>3, <2>1 DEF Brings, TellsDown
<1> HIDE DEF ch, other, e, n
<1>10. Passed
  <2>1. ASSUME NEW h \in Sessions
        PROVE  QueueOK(h, inbox'[h], lastLive, now)
    BY <1>1, <1>2, <1>7 DEF QueueInv
  <2>2. ASSUME NEW p \in Panes
        PROVE  LET u == StreamOf[p]
                   h == SessionOf(u)
               IN  /\ ~link[h] /\ ~silent[h] => ToldOf(inbox'[h], lastLive[u], gaps[u], u)
                   /\ \A m : OnTheWay(inbox[h], lastLive[u], u, m)
                               => OnTheWay(inbox'[h], lastLive[u], u, m)
    <3> DEFINE u == StreamOf[p]
               h == SessionOf(u)
    <3>1. h \in Sessions /\ Told(u)
      BY <1>1, PaneStream DEF ToldInv
    <3> HIDE DEF u, h
    <3>2. PICK last, gap : last = lastLive[u] /\ gap = gaps[u]
      OBVIOUS
    <3>3. 1 # 0
      OBVIOUS
    <3>4. ToldOf(ch, last, gap, u) => ToldOf(other, last, gap, u)
      <4>1. /\ Continues(other, ch, 2, 1, u) /\ Len(other) = Len(ch) - 1
            /\ ~TellsDown(ch[1], u)
        BY <1>8, <1>9
      <4>2. Sure(last, gap) => Sure(last, gap)
        OBVIOUS
      <4>3. QED
        BY <3>3, <4>1, <4>2, ContinuesTold
    <3>5. ASSUME NEW m, OnTheWay(ch, last, u, m)
          PROVE  OnTheWay(other, last, u, m)
      BY <1>8, <1>9, <3>5, ContinuesOnTheWay
    <3>6. CASE h = g
      <4>1. inbox'[h] = other /\ inbox[h] = ch
        BY <1>7, <3>6 DEF ch
      <4>2. ~link[h] /\ ~silent[h] => ToldOf(ch, last, gap, u)
        BY <3>1, <3>2, <4>1 DEF Told, h
      <4>3. ~link[h] /\ ~silent[h] => ToldOf(inbox'[h], lastLive[u], gaps[u], u)
        BY <3>2, <3>4, <4>1, <4>2
      <4>4. \A m : OnTheWay(inbox[h], lastLive[u], u, m)
                     => OnTheWay(inbox'[h], lastLive[u], u, m)
        BY <3>2, <3>5, <4>1
      <4>5. QED
        BY <4>3, <4>4 DEF u, h
    <3>7. CASE h # g
      <4>1. inbox'[h] = inbox[h]
        BY <1>7, <3>1, <3>7
      <4>2. ~link[h] /\ ~silent[h] => ToldOf(inbox'[h], lastLive[u], gaps[u], u)
        BY <3>1, <4>1 DEF Told, h
      <4>3. QED
        BY <4>1, <4>2 DEF u, h
    <3>8. QED
      BY <3>6, <3>7
  <2>3. QED
    BY <2>1, <2>2 DEF Passed
<1>11. CASE Transition(n, now) = "Restored"
  <2>1. n.expected \subseteq n.connected
    BY <1>11, RestoredIsComplete DEF Complete
  <2>2. \A s \in Basic \cap TradeStreams : gaps[s] # NoMoment => s \in net'.connected
    BY <1>1, <1>4, <2>1 DEF WantedInv
  <2>3. Execute(now, FALSE)
    BY <1>5, <1>11
  <2>4. QED
    BY <1>1, <1>6, <1>10, <2>2, <2>3, ExecuteRepairs
<1>12. CASE Transition(n, now) # "Restored"
  <2>1. UNCHANGED <<lastLive, gaps, reserved, jobs, charts, left, lapsed>>
    BY <1>5, <1>12 DEF dashVars
  <2>2. DashInv' /\ NothingForgotten
    BY <1>1, <2>1 DEF DashInv, BoardInv, NothingForgotten, Accounted
  <2>3. \A s \in Basic \cap TradeStreams : s \in net.expected => s \in net'.expected
    BY <1>4
  <2>4. QED
    BY <1>1, <1>6, <1>10, <2>1, <2>2, <2>3, PassedRepairs
<1>13. QED
  BY <1>11, <1>12

LEMMA UiTickRepairs ==
  ASSUME RepairInv, UiTick
  PROVE  RepairInv'
<1> DEFINE synced == Expecting(net, wanted)
           after  == Evaluated(synced, now)
           first  == Transition(synced, now)
           restored == \/ first = "Restored"
                       \/ first = "None" /\ Transition(after, now) = "Restored"
<1>1. /\ DashInv /\ QueueInv /\ WantedInv /\ ToldInv /\ OverlayInv
      /\ UNCHANGED <<now, wanted, link, inbox, silent>>
      /\ net' = IF first = "None" THEN Evaluated(after, now) ELSE after
      /\ IF restored THEN Execute(now, TRUE)
         ELSE IF net'.phase = "Offline" THEN UNCHANGED dashVars
         ELSE HandleCleanup
  BY RepairFields DEF UiTick
<1>2. ReconnectInv'
  BY UiTickTruthful DEF RepairInv
<1>3. now \in Nat /\ Shown(net, now) /\ wanted \in SUBSET Streams
  BY <1>1 DEF OverlayInv
<1>4. Shown(synced, now) /\ synced.expected = wanted
  BY <1>3, PreparedIsShown
<1> HIDE DEF synced
<1>5. /\ Shown(after, now) /\ after.expected = wanted
      /\ after.connected = synced.connected
  BY <1>3, <1>4, EvaluatedIsTrue
<1>6. net'.expected = wanted /\ net'.connected = synced.connected
  <2> HIDE DEF after
  <2>1. /\ Evaluated(after, now).expected = wanted
        /\ Evaluated(after, now).connected = synced.connected
    BY <1>3, <1>5, EvaluatedIsTrue
  <2>2. QED
    BY <1>1, <1>5, <2>1
<1> HIDE DEF after, first
<1>7. Passed
  <2>1. \A g \in Sessions : QueueOK(g, inbox'[g], lastLive, now)
    BY <1>1 DEF QueueInv
  <2>2. QED
    BY <1>1, <2>1 DEF Passed, ToldInv, Told
<1>8. CASE restored
  <2>1. wanted \subseteq synced.connected
    <3>1. CASE first = "Restored"
      <4>1. Complete(synced)
        BY <3>1, RestoredIsComplete DEF first
      <4>2. QED
        BY <1>4, <4>1 DEF Complete
    <3>2. CASE Transition(after, now) = "Restored"
      <4>1. Complete(after)
        BY <3>2, RestoredIsComplete
      <4>2. QED
        BY <1>5, <4>1 DEF Complete
    <3>3. QED
      BY <1>8, <3>1, <3>2
  <2>2. \A s \in Basic \cap TradeStreams : gaps[s] # NoMoment => s \in net'.connected
    BY <1>1, <1>6, <2>1 DEF WantedInv
  <2>3. Execute(now, TRUE)
    BY <1>1, <1>8
  <2>4. QED
    BY <1>1, <1>2, <1>7, <2>2, <2>3, ExecuteRepairs
<1>9. CASE ~restored
  <2>1. DashInv' /\ NothingForgotten /\ lastLive' = lastLive /\ gaps' = gaps
    <3>1. CASE HandleCleanup
      BY <1>1, <3>1, HandleCleanupOK
    <3>2. CASE UNCHANGED dashVars
      <4>1. UNCHANGED <<lastLive, gaps, reserved, jobs, charts, left, lapsed>>
        BY <3>2 DEF dashVars
      <4>2. QED
        BY <1>1, <4>1 DEF DashInv, BoardInv, NothingForgotten, Accounted
    <3>3. QED
      BY <1>1, <1>9, <3>1, <3>2
  <2>2. \A s \in Basic \cap TradeStreams : s \in net'.expected
    BY <1>1, <1>6 DEF WantedInv
  <2>3. QED
    BY <1>1, <1>2, <1>7, <2>1, <2>2, PassedRepairs
<1>10. QED
  BY <1>8, <1>9

-----------------------------------------------------------------------------
(* Every step keeps the invariant *)

LEMMA WorkersRepair ==
  ASSUME RepairInv, NEW j \in jobs, OnBatch(j) \/ OnCompleted(j) \/ OnFailed(j)
  PROVE  RepairInv'
<1>1. DashInv /\ now' = now /\ UNCHANGED <<now, wanted, link, inbox, net, silent>>
  BY RepairFields DEF OnBatch, OnCompleted, OnFailed, worldVars
<1>2. CASE OnBatch(j)
  <2>1. PICK m \in Moments : Deliver(j, m)
    BY <1>2 DEF OnBatch
  <2>2. lastLive' = lastLive /\ gaps' = gaps
    BY <2>1 DEF Deliver
  <2>3. DashInv' /\ NothingForgotten
    BY <1>1, <2>1, DeliverOK
  <2>4. QED
    BY <1>1, <2>2, <2>3, RepairDash
<1>3. CASE OnCompleted(j)
  <2>1. Completed(j) /\ lastLive' = lastLive /\ gaps' = gaps
    BY <1>3 DEF OnCompleted, Completed
  <2>2. DashInv' /\ NothingForgotten
    BY <1>1, <2>1, CompletedOK
  <2>3. QED
    BY <1>1, <2>1, <2>2, RepairDash
<1>4. CASE OnFailed(j)
  <2>1. Failed(j) /\ lastLive' = lastLive /\ gaps' = gaps
    BY <1>4 DEF OnFailed, Failed
  <2>2. DashInv' /\ NothingForgotten
    BY <1>1, <2>1, FailedOK
  <2>3. QED
    BY <1>1, <2>1, <2>2, RepairDash
<1>5. QED
  BY <1>2, <1>3, <1>4

LEMMA OnOwnFetchRepairs ==
  ASSUME RepairInv, NEW p \in Panes, OnOwnFetch(p)
  PROVE  RepairInv'
<1>1. DashInv /\ UNCHANGED <<now, wanted, link, inbox, net, silent>>
  BY RepairFields DEF OnOwnFetch
<1>2. PICK r \in OwnRanges : OwnFetch(p, r[1], r[2])
  BY DEF OnOwnFetch
<1>3. r[1] \in Moments /\ r[2] \in Moments
  BY ReconnectAssumption
<1>4. DashInv' /\ NothingForgotten /\ lastLive' = lastLive /\ gaps' = gaps
  BY <1>1, <1>2, <1>3, OwnFetchOK
<1>5. QED
  BY <1>1, <1>4, RepairDash

LEMMA RepairNext == RepairInv /\ [Next]_vars => RepairInv'
<1> SUFFICES ASSUME RepairInv, [Next]_vars
             PROVE  RepairInv'
  OBVIOUS
<1>1. CASE Advance
  BY <1>1, AdvanceRepairs
<1>2. ASSUME NEW g \in Sessions, Connect(g)
      PROVE  RepairInv'
  BY <1>2, ConnectRepairs
<1>3. ASSUME NEW g \in Sessions, Break(g)
      PROVE  RepairInv'
  BY <1>3, BreakRepairs
<1>4. ASSUME NEW g \in Sessions, OnConnected(g)
      PROVE  RepairInv'
  BY <1>4, OnConnectedRepairs
<1>5. ASSUME NEW g \in Sessions, OnDisconnected(g)
      PROVE  RepairInv'
  BY <1>5, OnDisconnectedRepairs
<1>6. ASSUME NEW g \in Sessions, OnTrades(g)
      PROVE  RepairInv'
  BY <1>6, OnTradesRepairs
<1>7. ASSUME NEW s \in Streams, Resubscribe(s)
      PROVE  RepairInv'
  BY <1>7, ResubscribeRepairs
<1>8. CASE UiTick
  BY <1>8, UiTickRepairs
<1>9. ASSUME NEW j \in jobs, OnBatch(j) \/ OnCompleted(j) \/ OnFailed(j)
      PROVE  RepairInv'
  BY <1>9, WorkersRepair
<1>10. ASSUME NEW p \in Panes, OnOwnFetch(p)
       PROVE  RepairInv'
  BY <1>10, OnOwnFetchRepairs
<1>11. CASE OnClearCache
  <2>1. /\ ClearCache /\ DashInv
        /\ UNCHANGED <<now, wanted, link, inbox, net, silent>>
    BY <1>11, RepairFields DEF OnClearCache
  <2>2. DashInv' /\ NothingForgotten /\ lastLive' = lastLive /\ gaps' = gaps
    BY <2>1, ClearCacheOK
  <2>3. QED
    BY <2>1, <2>2, RepairDash
<1>12. CASE UNCHANGED vars
  <2>1. /\ DashInv
        /\ UNCHANGED <<now, wanted, link, inbox, net, silent>>
        /\ UNCHANGED <<lastLive, gaps, reserved, jobs, charts, left, lapsed>>
    BY <1>12, RepairFields DEF vars, worldVars, dashVars
  <2>2. DashInv' /\ NothingForgotten
    BY <2>1 DEF DashInv, BoardInv, NothingForgotten, Accounted
  <2>3. QED
    BY <2>1, <2>2, RepairDash
<1>13. QED
  BY <1>1, <1>2, <1>3, <1>4, <1>5, <1>6, <1>7, <1>8, <1>9, <1>10, <1>11, <1>12 DEF Next

LinkType == link \in [Sessions -> BOOLEAN]

LEMMA LinkTyped == Spec => []LinkType
<1>1. Init => LinkType
  BY DEF Init, LinkType
<1>2. LinkType /\ [Next]_vars => LinkType'
  <2> SUFFICES ASSUME LinkType, [Next]_vars
               PROVE  LinkType'
    OBVIOUS
  <2>1. ASSUME link' = link
        PROVE  LinkType'
    BY <2>1 DEF LinkType
  <2>2. CASE Advance
    BY <2>1, <2>2 DEF Advance
  <2>3. ASSUME NEW g \in Sessions,
               \/ Connect(g) \/ Break(g)
               \/ OnConnected(g) \/ OnDisconnected(g) \/ OnTrades(g)
        PROVE  LinkType'
    <3>1. CASE Connect(g) \/ Break(g)
      <4>1. link' = [link EXCEPT ![g] = TRUE] \/ link' = [link EXCEPT ![g] = FALSE]
        BY <3>1 DEF Connect, Break
      <4>2. QED
        BY <4>1 DEF LinkType
    <3>2. CASE OnConnected(g) \/ OnDisconnected(g) \/ OnTrades(g)
      BY <2>1, <3>2 DEF OnConnected, OnDisconnected, OnTrades
    <3>3. QED
      BY <2>3, <3>1, <3>2
  <2>4. ASSUME NEW s \in Streams, Resubscribe(s)
        PROVE  LinkType'
    <3>1. link' = [link EXCEPT ![SessionOf(s)] = FALSE]
      BY <2>4 DEF Resubscribe
    <3>2. QED
      BY <3>1 DEF LinkType
  <2>5. CASE UiTick
    BY <2>1, <2>5 DEF UiTick
  <2>6. ASSUME NEW j \in jobs, OnBatch(j) \/ OnCompleted(j) \/ OnFailed(j)
        PROVE  LinkType'
    BY <2>1, <2>6 DEF OnBatch, OnCompleted, OnFailed, worldVars
  <2>7. ASSUME NEW p \in Panes, OnOwnFetch(p)
        PROVE  LinkType'
    BY <2>1, <2>7 DEF OnOwnFetch
  <2>8. CASE OnClearCache
    BY <2>1, <2>8 DEF OnClearCache
  <2>9. CASE UNCHANGED vars
    BY <2>1, <2>9 DEF vars, worldVars
  <2>10. QED
    BY <2>2, <2>3, <2>4, <2>5, <2>6, <2>7, <2>8, <2>9 DEF Next
<1>3. QED
  BY <1>1, <1>2, PTL DEF Spec

(* The chunks of a worker, as a set.                                       *)
LEMMA ChunksOf ==
  ASSUME DashInv, NEW j \in jobs, NEW c \in ToSet(j.chunks)
  PROVE  /\ c \in Chunk2 /\ Has(j, c)
         /\ c.from \in Nat /\ c.to \in Nat /\ c.from <= c.to /\ c.to <= j.born
<1>1. JobOK(j, now)
  BY DashFields
<1>2. PICK i \in 1..Len(j.chunks) : j.chunks[i] = c
  BY <1>1, InSet DEF JobOK
<1>3. c \in Chunk2 /\ c.from <= c.to /\ c.to <= j.born
  BY <1>1, <1>2 DEF JobOK
<1>4. c.from \in Nat /\ c.to \in Nat
  BY <1>3, MomentsAre DEF Chunk2
<1>5. QED
  BY <1>2, <1>3, <1>4 DEF Has

-----------------------------------------------------------------------------
(* Theorems about the repair *)

(* The dashboard, its workers and the sessions' queues agree: what a pane  *)
(* missed is accounted for or coming.                                      *)
THEOREM RepairInvariance == Spec => []RepairInv
<1>1. QED
  BY InitRepair, RepairNext, PTL DEF Spec

(* Gaps, reservations and workers are well formed.                         *)
THEOREM ReconnectTypes == Spec => []TypeOK
<1>1. RepairInv /\ LinkType => TypeOK
  <2> SUFFICES ASSUME RepairInv, LinkType
               PROVE  TypeOK
    OBVIOUS
  <2>1. DashInv /\ BoardInv /\ OverlayInv
    BY RepairFields
  <2>2. /\ now \in Moments /\ wanted \in SUBSET Streams /\ net \in ConnectivityType
        /\ lastLive \in [TradeStreams -> Moments \cup {NoMoment}]
        /\ gaps \in [TradeStreams -> Moments \cup {NoMoment}]
        /\ \A s \in TradeStreams : gaps[s] <= lastLive[s]
    BY <2>1 DEF OverlayInv, Shown, BoardInv
  <2>3. \A r \in reserved : r.from <= r.to /\ r.to <= r.born /\ r.born <= now
    BY <2>1, DashFields DEF RepairOK, ReservationOK
  <2>4. ASSUME NEW j \in jobs
        PROVE  /\ j.chunks # <<>> /\ j.panes # {}
               /\ \A c \in ToSet(j.chunks) : c.from <= c.to /\ c.to <= j.born
               /\ j.upTo \in (Current(j).from - 1)..Current(j).to
    <3>1. JobOK(j, now)
      BY <2>1, DashFields
    <3>2. \A c \in ToSet(j.chunks) : c.from <= c.to /\ c.to <= j.born
      BY <2>1, ChunksOf
    <3>3. QED
      BY <3>1, <3>2 DEF JobOK
  <2>5. \A p \in Panes : charts[p].loaded \subseteq Traded
    BY <2>1 DEF BoardInv, ChartOK
  <2>6. link \in [Sessions -> BOOLEAN]
    BY DEF LinkType
  <2>7. QED
    BY <2>2, <2>3, <2>4, <2>5, <2>6 DEF TypeOK
<1>2. QED
  BY <1>1, RepairInvariance, LinkTyped, PTL

(* A reservation never outlives the worker it was made for.                *)
THEOREM ReservedWorkedOn == Spec => []ReservedIsWorkedOn
<1>1. RepairInv => ReservedIsWorkedOn
  <2> SUFFICES ASSUME RepairInv, NEW r \in reserved
               PROVE  \E j \in jobs : /\ j.stream = r.stream
                                      /\ \E c \in ToSet(j.chunks) : c.from = r.from /\ c.to = r.to
    BY DEF ReservedIsWorkedOn
  <2>1. DashInv /\ Worked(reserved, jobs)
    BY RepairFields, DashFields DEF RepairOK
  <2>2. PICK j \in jobs : /\ j.stream = r.stream
                          /\ \E c \in Chunk2 : Has(j, c) /\ c.from = r.from /\ c.to = r.to
    BY <2>1 DEF Worked
  <2>3. PICK c \in Chunk2 : Has(j, c) /\ c.from = r.from /\ c.to = r.to
    BY <2>2
  <2>4. JobOK(j, now)
    BY <2>1, DashFields
  <2>5. c \in ToSet(j.chunks)
    BY <2>3, <2>4, InSet DEF JobOK, Has
  <2>6. QED
    BY <2>2, <2>3, <2>5
<1>2. QED
  BY <1>1, RepairInvariance, PTL

(* Nothing is downloaded twice at a time unless a reservation expired.     *)
THEOREM RepairedOnce == Spec => []NoDoubleRepair
<1>1. RepairInv => NoDoubleRepair
  <2> SUFFICES ASSUME RepairInv, NEW i \in jobs, NEW j \in jobs, i # j, i.stream = j.stream,
                      NEW c \in ToSet(i.chunks), NEW d \in ToSet(j.chunks),
                      Span(c) \cap Span(d) # {}
               PROVE  RangeOf(i.stream, c) \in lapsed \/ RangeOf(j.stream, d) \in lapsed
    BY DEF NoDoubleRepair
  <2>1. DashInv /\ Apart(jobs, lapsed)
    BY RepairFields, DashFields DEF RepairOK
  <2>2. /\ c \in Chunk2 /\ Has(i, c) /\ c.from \in Nat /\ c.to \in Nat
        /\ d \in Chunk2 /\ Has(j, d) /\ d.from \in Nat /\ d.to \in Nat
    BY <2>1, ChunksOf
  <2>3. Overlap(c, d)
    BY <2>2 DEF Span, Overlap
  <2>4. QED
    BY <2>1, <2>2, <2>3 DEF Apart
<1>2. QED
  BY <1>1, RepairInvariance, PTL

(* What a pane missed is not forgotten, whatever breaks and returns.       *)
THEOREM MissedRemembered == Spec => []MissedIsRemembered
<1>1. RepairInv => MissedIsRemembered
  <2> SUFFICES ASSUME RepairInv, NEW p \in Panes, NEW m \in Traded \cap (1..now)
               PROVE  LET s == StreamOf[p] g == SessionOf(s) IN
                        m \in charts[p].loaded \cup left[p] \cup TradesUnderWay(g, s)
                                \cup Announced(g, s) \cup Noted(s) \cup Remaining(p, jobs)
    BY DEF MissedIsRemembered
  <2> DEFINE s == StreamOf[p]
             g == SessionOf(s)
             ch == inbox[g]
  <2>1. /\ m \in Traded /\ m \in Moments /\ 1 <= m /\ m <= now /\ m \in Int
        /\ QueueInv /\ MissedInv /\ s \in TradeStreams /\ g \in Sessions
        /\ s \in Carries[g]
        /\ lastLive[s] \in Moments \cup {NoMoment} /\ gaps[s] \in Moments \cup {NoMoment}
    BY RepairFields, PaneStream, MomentsAre
  <2>2. m \in Accounted(p) \/ Coming(s, m)
    BY <2>1 DEF MissedInv
  <2>3. QueueOK(g, ch, lastLive, now) /\ DOMAIN ch = 1..Len(ch) /\ Len(ch) \in Nat
    <3>1. QueueOK(g, ch, lastLive, now)
      BY <2>1 DEF QueueInv
    <3>2. QED
      BY <3>1, LenProperties DEF QueueOK
  <2>4. CASE m \in Accounted(p)
    BY <2>4 DEF Accounted
  <2>5. ASSUME gaps[s] # NoMoment, gaps[s] < m
        PROVE  m \in Noted(s)
    <3>1. m \in (gaps[s] + 1)..LastMoment
      <4>1. gaps[s] \in Int /\ LastMoment \in Int /\ m <= LastMoment
        BY <2>1, MomentsAre
      <4>2. QED
        BY <2>1, <2>5, <4>1
    <3>2. QED
      BY <2>5, <3>1 DEF Noted
  <2>6. ASSUME NEW k \in 1..Len(ch), Brings(ch[k], s), ch[k].at = m
        PROVE  m \in TradesUnderWay(g, s)
    BY <2>3, <2>6 DEF TradesUnderWay, Brings
  <2>7. ASSUME NEW i \in 1..Len(ch), TellsDown(ch[i], s), ch[i].at < m,
               lastLive[s] # NoMoment \/ \E k \in 1..(i - 1) : Brings(ch[k], s)
        PROVE  m \in Announced(g, s)
    <3> DEFINE before == {k \in 1..(i - 1) : ch[k].kind = "Trades" /\ s \in ch[k].streams}
               seen == {lastLive[s]} \cup {ch[k].at : k \in before}
    <3>1. \A k \in before : k \in 1..Len(ch) /\ k <= i
      BY <2>3
    <3>2. ch[i].at \in Moments /\ ch[i].at \in Int /\ lastLive[s] <= ch[i].at
      BY <2>1, <2>3, MomentsAre DEF QueueOK, EventOK
    <3>3. \A k \in before : ch[k].at \in Moments /\ ch[k].at <= ch[i].at
      BY <2>3, <2>7, <3>1 DEF QueueOK, EventOK
    <3>4. \A x \in seen : x \in Moments \cup {NoMoment} /\ x <= ch[i].at
      BY <2>1, <3>2, <3>3
    <3>5. seen # {NoMoment} /\ seen # {}
      <4>1. CASE lastLive[s] # NoMoment
        BY <4>1
      <4>2. ASSUME NEW k \in 1..(i - 1), Brings(ch[k], s)
            PROVE  seen # {NoMoment}
        <5>1. k \in before
          BY <4>2 DEF Brings
        <5>2. ch[k].at \in seen /\ ch[k].at # NoMoment
          BY <3>3, <5>1, MomentsAre
        <5>3. QED
          BY <5>2
      <4>3. QED
        BY <2>7, <4>1, <4>2
    <3>6. m > Max(seen)
      <4> HIDE DEF seen, before
      <4>1. seen \in SUBSET ((-1)..ch[i].at)
        <5>1. \A x \in Moments \cup {NoMoment} : x \in Int /\ -1 <= x
          BY MomentsAre
        <5>2. QED
          BY <3>2, <3>4, <5>1
      <4>2. Max(seen) \in seen
        <5>1. PICK top \in Int : top = ch[i].at
          BY <3>2
        <5>2. -1 \in Int /\ seen \in SUBSET ((-1)..top) /\ seen # {}
          BY <3>5, <4>1, <5>1
        <5>3. QED
          BY <5>1, <5>2, MaxIs
      <4>3. Max(seen) \in (-1)..ch[i].at
        BY <4>1, <4>2
      <4>4. QED
        BY <2>1, <2>7, <3>2, <4>3
    <3>7. QED
      BY <2>1, <2>3, <2>7, <3>5, <3>6 DEF Announced, TellsDown
  <2>8. QED
    BY <2>2, <2>4, <2>5, <2>6, <2>7 DEF Coming, OnTheWay
<1>2. QED
  BY <1>1, RepairInvariance, PTL
=============================================================================
