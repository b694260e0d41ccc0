CONSTANTS
  Prices <- MCPrices
  MaxQty <- MCMaxQty
  MaxTime = 2
  MaxChanges = 3
  MaxBreaks = 0
  MaxToggles = 2
  MaxTradeQueue = 1
  MaxDepthQueue = 2
  ReorderWindow = 1
  MaxReorder = 3
  Warmup = 1
  MaxSamples = 1
  RollingWindow = 1
  MaxDistance = 1
  MaxAdverse = 0
  IdleTimeout = 0
  MaxDuration = 1
  MaxEpisodes = 1
  RefillThreshold = 1
  ReleaseGrace = 1
  NoLevel = NoLevel
  NoEpisode = NoEpisode
SPECIFICATION Spec
INVARIANT RetainsVisibleQuantity
CHECK_DEADLOCK FALSE
