------------------------- MODULE MCChartTradeFetch -------------------------
(* A chart of three or four points whose workers download one or two points*)
(* at a time.                                                              *)
EXTENDS ChartTradeFetch

MCFetches == {TradesFetch(r.from, r.to) :
                r \in {s \in [from: Points, to: Points] : s.from < s.to}}
MCBackoff == <<1>>
=============================================================================
