SPECIFICATION Spec
CONSTANTS
  trades = trades
  depth = depth
  other = other
  p1 = p1
  p2 = p2
  Streams = {trades, depth, other}
  Grace = 2
  LastMoment = 4
  TradeStreams = {trades}
  Panes = {p1, p2}
  StreamOf <- MCStreamOf
  Traded <- MCTraded
  MinGap = 1
  ChunkLength = 2
  Expiry = 2
  Candle = 2
  LivePanes = {p1}
  Sessions = {"T", "D"}
  Carries <- MCCarries
  Basic = {trades, depth}
  OwnRanges <- MCOwnRanges
  Faults = {"break", "resubscribe", "clear", "failed", "tail", "own", "connect"}
  MaxFaults = 2
  MaxInbox = 2
INVARIANTS TypeOK MissedIsRemembered ConnectedIsTrue ReservedIsWorkedOn NoDoubleRepair OverlayIsTrue NoFalseAlarm
