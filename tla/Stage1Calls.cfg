SPECIFICATION FairSpec
CONSTANTS
  RelayTasks = {a1, a2}
  ReceiverTasks = {b1, b2}
  Tasks <- MCTasks
  NumWaves = 2
  WaveOf <- MCWaveOf
  Workers = {w1, w2}
  Costs = {1, 2}
  MaxCost = 2
  Ceiling = 3
  MaxAttempts = 2
  Leftover = {b1}
  MaxRuns = 2
  NoTask = NoTask
INVARIANTS OvershootBounded NoSecondPurchase AnswersAreDurable BreakdownMatchesLedger
PROPERTIES ImplementsStore EveryRunEnds
CHECK_DEADLOCK FALSE
