-------------------------- MODULE MCRequestHandler --------------------------
(* A small registry: nested trade ranges, one bubble range with two sets   *)
(* of parameters, an invalid range; three ids.  The unit of time is the    *)
(* longest completed retention; durations are ordered as in the code       *)
(* (superseded < completed < pending time-out <= failed), and the longest  *)
(* delay does not exceed the failed retention.                             *)
EXTENDS RequestHandler, TLC

CONSTANTS i1, i2, i3

MCIds == {i1, i2, i3}
MCIdSymmetry == Permutations(MCIds)

Fetch(kind, from, to, detail) ==
  [kind |-> kind, from |-> from, to |-> to, timeframe |-> 1, detail |-> detail]

MCFetches ==
  {Fetch("Trades", 0, 2, 0), Fetch("Trades", 0, 1, 0), Fetch("Kline", 1, 1, 0),
   Fetch("BubbleSummary", 0, 2, 1), Fetch("BubbleSummary", 0, 2, 2)}

MCBackoff == <<1, 2>>
=============================================================================
