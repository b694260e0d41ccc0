SPECIFICATION Spec
CONSTANTS
  LastMoment = 5
  BucketLength = 2
  Trades <- MCTrades
  PageLimit = 2
  Bridge = 1
  Epsilon = 0
  MaxNoProgress = 2
  Workers = {w1, w2}
  Ranges <- MCRanges
  MaxFaults = 2
SYMMETRY MCSymmetry
INVARIANTS TypeOK CoveredHasBucket CoveredIsStored OutcomeIsHonest
PROPERTIES Contract NeverAsksTwice
