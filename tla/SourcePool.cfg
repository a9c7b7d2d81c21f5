SPECIFICATION Spec
CONSTANTS
  Candidates <- MCCandidates
  Filing <- MCFiling
  BatchSize = 2
  MaxWorkers = 2
  TargetCounts = {2, 3}
  Sizes <- MCSizes
  Shuffle <- MCShuffle
  MaxPools = 2
INVARIANTS TypeOK FinishedPoolIsConsistent SealVouches
CHECK_DEADLOCK FALSE
