---------------------------- MODULE MCMarketCache ----------------------------
(* An instance of MarketCache: three buckets, one without trades, and a    *)
(* moment with more trades than the page that reaches it has room for.     *)
EXTENDS MarketCache, TLC

Trade(i, m) == [id |-> i, time |-> m]

MCTrades == {Trade(1, 0), Trade(2, 1), Trade(3, 1), Trade(4, 4)}

MCRanges == {<<0, 5>>}

MCSymmetry == Permutations(Workers)
=============================================================================
