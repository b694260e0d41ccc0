------------------------------ MODULE MCWsSession ------------------------------
EXTENDS WsSession

(* The policies of the venues in units of about 15 seconds, and both kinds *)
(* of adapters.                                                            *)
MCAdapters ==
  {[policy |-> Periodic(1, 3), buffered |-> TRUE],
   [policy |-> AfterIdle(1, 2), buffered |-> FALSE],
   [policy |-> ServerDriven(2), buffered |-> FALSE]}

=============================================================================
