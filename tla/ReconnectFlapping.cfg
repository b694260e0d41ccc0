SPECIFICATION Spec
CONSTANTS
  trades = trades
  depth = depth
  other = other
  p1 = p1
  p2 = p2
  Streams = {trades, depth, other}
  Grace = 2
  LastMoment = 5
  TradeStreams = {trades}
  Panes = {p1}
  StreamOf <- MCStreamOf
  Traded <- MCOddTraded
  MinGap = 1
  ChunkLength = 4
  Expiry = 9
  Candle = 2
  LivePanes = {}
  Sessions = {"T", "D"}
  Carries <- MCCarries
  Basic = {trades, depth}
  OwnRanges <- MCOwnRanges
  Faults = {"break"}
  MaxFaults = 2
  MaxInbox = 2
INVARIANT OfflineIsRecovered
