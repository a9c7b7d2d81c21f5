SPECIFICATION Spec
CONSTANTS
  s1 = s1
  s2 = s2
  n1 = n1
  n2 = n2
  b1 = b1
  b2 = b2
  w1 = w1
  w2 = w2
  NoTask = NoTask
  Slots = {s1, s2}
  Tasks = {n1, b1, n2, b2}
  SlotOf <- MCSlotOf
  Natural = {n1, n2}
  Resample <- FirstTwice
  Workers = {w1}
  Costs = {1}
  MaxCost = 1
  Ceiling = 3
  MaxRuns = 2
INVARIANT CeilingRespected
CHECK_DEADLOCK FALSE
