----------------------------- MODULE MCReconnect -----------------------------
EXTENDS Reconnect

CONSTANTS trades, depth, other, p1, p2

MCCarries == [g \in Sessions |-> IF g = "T" THEN {trades, other} ELSE {depth}]

MCStreamOf == [p \in Panes |-> trades]

MCTraded == 1..LastMoment

MCOddTraded == {m \in 1..LastMoment : m % 2 = 1}

MCOwnRanges == {<<1, 2>>, <<2, 3>>}
=============================================================================
