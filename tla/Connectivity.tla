----------------------------- MODULE Connectivity -----------------------------
(***************************************************************************)
(* The one connection state shown to the user (MarketConnectivity in       *)
(* src/market_service.rs): which streams the dashboard requires, which of  *)
(* them are connected, and when to put up and take down the overlay that   *)
(* says the application is offline.  It is a value that its owner          *)
(* (module Reconnect) updates on every message, so its methods are         *)
(* operators from a state and a time to the next state.                    *)
(***************************************************************************)
EXTENDS Integers

CONSTANTS
  Streams,
  Grace        \* OFFLINE_GRACE

ASSUME ConnectivityAssumption == Grace \in Nat

Phases == {"Connecting", "Online", "Offline"}

Transitions == {"None", "WentOffline", "Restored"}

None == -1

ConnectivityType ==
  [expected : SUBSET Streams, connected : SUBSET Streams, phase : Phases,
   since : Nat \cup {None}, hadDisconnect : BOOLEAN]

NewConnectivity ==
  [expected |-> {}, connected |-> {}, phase |-> "Connecting", since |-> None,
   hadDisconnect |-> FALSE]

Complete(net) == net.expected \subseteq net.connected

(* When the connection became incomplete, if it is seen for the first time *)
(* now.                                                                    *)
Since(net, t) == IF net.since = None THEN t ELSE net.since

GraceElapsed(net, t) == t - Since(net, t) >= Grace

(* evaluate: what it returns, and the state it leaves.                     *)
Transition(net, t) ==
  CASE Complete(net) /\ (net.phase = "Offline" \/ net.hadDisconnect) -> "Restored"
    [] ~Complete(net) /\ net.phase # "Offline" /\ GraceElapsed(net, t)
         -> "WentOffline"
    [] OTHER -> "None"

(* Mutant: the overlay is spared by keeping the phase through the grace.    *)
MutantEvaluated(net, t) ==
  IF Complete(net)
    THEN [net EXCEPT !.since = None, !.phase = "Online", !.hadDisconnect = FALSE]
    ELSE [net EXCEPT !.since = Since(net, t),
                     !.phase = IF GraceElapsed(net, t) THEN "Offline" ELSE @]

Evaluated(net, t) ==
  IF Complete(net)
    THEN [net EXCEPT !.since = None, !.phase = "Online", !.hadDisconnect = FALSE]
    ELSE [net EXCEPT !.since = Since(net, t),
                     !.phase = IF @ = "Offline" \/ GraceElapsed(net, t)
                                 THEN "Offline" ELSE "Connecting"]

(* Mutant: streams that no pane asks for any more stay expected.           *)
MutantExpecting(net, streams) == [net EXCEPT !.expected = @ \cup streams]

(* What the public methods do before they evaluate.                        *)
Expecting(net, streams) ==
  [net EXCEPT !.expected = streams, !.connected = @ \cap streams]

WithConnected(net, streams) ==
  [net EXCEPT !.expected = @ \cup streams, !.connected = @ \cup streams]

(* Mutant: the streams that broke still count as connected.                *)
MutantWithDisconnected(net, streams) ==
  [net EXCEPT !.hadDisconnect = @ \/ net.phase = "Online",
              !.expected = @ \cup streams]

WithDisconnected(net, streams) ==
  [net EXCEPT !.hadDisconnect = @ \/ net.phase = "Online",
              !.expected = @ \cup streams,
              !.connected = @ \ streams]
=============================================================================
