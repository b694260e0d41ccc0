CONSTANTS
  MaxUpdate = 5
  MaxSpan = 2
  MaxWire = 2
  MaxPending = 2
SPECIFICATION FairSpec
INVARIANTS TypeOK BookIsExact HealthyViewIsBook
PROPERTIES ResyncEnds
CHECK_DEADLOCK FALSE
