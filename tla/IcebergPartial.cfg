CONSTANTS
  Prices <- MCPrices
  MaxQty <- MCMaxQty
  MaxTime = 3
  MaxChanges = 3
  MaxBreaks = 1
  MaxToggles = 0
  MaxTradeQueue = 1
  MaxDepthQueue = 2
  ReorderWindow = 1
  MaxReorder = 3
  Warmup = 1
  MaxSamples = 1
  RollingWindow = 1
  MaxDistance = 1
  MaxAdverse = 0
  IdleTimeout = 1
  MaxDuration = 1
  MaxEpisodes = 1
  RefillThreshold = 1
  ReleaseGrace = 1
  NoLevel = NoLevel
  NoEpisode = NoEpisode
SPECIFICATION Spec
PROPERTY ResumesWithWholeBook
CHECK_DEADLOCK FALSE
