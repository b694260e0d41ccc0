---------------------------- MODULE MCDepthSync ----------------------------
(* Five updates in diffs of one or two, two texts in flight, a queue of    *)
(* two diffs.                                                              *)
EXTENDS DepthSync
=============================================================================
