SPECIFICATION FairSpec
CONSTANTS
  Adapters <- MCAdapters
  InitialDelay = 1
  MaxDelay = 2
  StableAfter = 1
  Capacity = 2
  AnswerWithin = 0
  SpeaksEvery = 1
  MaxTrades = 3
  MaxFaults = 2
INVARIANTS TypeOK SilenceIsNoticed LivingIsKept BeliefIsTrue NoSilentLoss TradesWhileConnected
PROPERTIES DeadIsReplaced
