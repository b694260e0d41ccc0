------------------------------- MODULE Heartbeat -------------------------------
(***************************************************************************)
(* When a websocket connection asks its server for a sign of life, and     *)
(* when it takes it for dead (WsHeartbeat in src/exchange/src/adapter/     *)
(* ws.rs).  A heartbeat is a value of the I/O task (module WsSession).     *)
(* Times are relative to the present: how long nothing was received, and   *)
(* how long until the next ping or the deadline for an answer.             *)
(***************************************************************************)
EXTENDS Integers, FiniteSetsExt

(* The policies of the venues: a ping at a fixed cadence, a ping after     *)
(* idleness that wants an answer, or pings of the server.                  *)
Periodic(every, silence) == [kind |-> "Periodic", every |-> every, silence |-> silence]

AfterIdle(idle, response) == [kind |-> "AfterIdle", idle |-> idle, response |-> response]

ServerDriven(silence) == [kind |-> "ServerDriven", silence |-> silence]

Beats == [silent : Nat, awaiting : BOOLEAN, due : Nat]

(* The longest that a dead server can go unnoticed.                        *)
Limit(policy) ==
  IF policy.kind = "AfterIdle" THEN policy.idle + policy.response ELSE policy.silence

NewBeat(policy) ==
  [silent   |-> 0,
   awaiting |-> FALSE,
   due      |-> IF policy.kind = "Periodic" THEN policy.every ELSE 0]

(* next_deadline: how long the I/O task sleeps unless a frame arrives.     *)
NextDeadline(policy, beat) ==
  CASE policy.kind = "Periodic" -> Min({policy.silence - beat.silent, beat.due})
    [] policy.kind = "AfterIdle" /\ beat.awaiting -> beat.due
    [] policy.kind = "AfterIdle" /\ ~beat.awaiting -> policy.idle - beat.silent
    [] policy.kind = "ServerDriven" -> policy.silence - beat.silent

(* Mutant: an answer that is awaited is judged like idleness.              *)
MutantDeadlineAction(policy, beat) ==
  CASE policy.kind = "AfterIdle" ->
         IF beat.silent >= policy.idle THEN "SendPing" ELSE "Wait"
    [] beat.silent >= policy.silence -> "Timeout"
    [] policy.kind = "Periodic" /\ beat.due = 0 -> "SendPing"
    [] OTHER -> "Wait"

(* deadline_action.                                                        *)
DeadlineAction(policy, beat) ==
  CASE policy.kind = "AfterIdle" /\ beat.awaiting ->
         IF beat.due = 0 THEN "Timeout" ELSE "Wait"
    [] policy.kind = "AfterIdle" /\ ~beat.awaiting ->
         IF beat.silent >= policy.idle THEN "SendPing" ELSE "Wait"
    [] policy.kind # "AfterIdle" /\ beat.silent >= policy.silence -> "Timeout"
    [] policy.kind = "Periodic" /\ beat.silent < policy.silence /\ beat.due = 0
         -> "SendPing"
    [] OTHER -> "Wait"

(* Mutant: only data in time counts, the awaited answer does not.          *)
MutantMarkActivity(beat) == [beat EXCEPT !.silent = 0]

(* mark_activity: any frame ends the wait for an answer.                   *)
MarkActivity(beat) == [beat EXCEPT !.silent = 0, !.awaiting = FALSE]

(* Mutant: a ping that is sent counts as activity.                         *)
MutantPingSent(policy, beat) ==
  CASE policy.kind = "Periodic" -> [beat EXCEPT !.due = policy.every, !.silent = 0]
    [] policy.kind = "AfterIdle" -> [beat EXCEPT !.awaiting = TRUE, !.due = policy.response]
    [] OTHER -> beat

(* record_ping_sent.                                                       *)
PingSent(policy, beat) ==
  CASE policy.kind = "Periodic" -> [beat EXCEPT !.due = policy.every]
    [] policy.kind = "AfterIdle" -> [beat EXCEPT !.awaiting = TRUE, !.due = policy.response]
    [] OTHER -> beat

(* One unit of time later; not past a deadline.                            *)
Later(policy, beat) ==
  [beat EXCEPT !.silent = @ + 1,
     !.due = IF policy.kind = "Periodic" \/ beat.awaiting THEN @ - 1 ELSE 0]
=============================================================================
