SPECIFICATION ChecksSpec
CONSTANTS
  i1 = i1
  i2 = i2
  d1 = d1
  d2 = d2
  Inputs = {i1, i2}
  REPEATS = 2
  WorkItems <- MCWorkItems
  DocumentOf <- MCDocumentOf
  Canonical = {"right", "wrong"}
  Target = "right"
  PoolSize = 2
  Attempts = 2
  AnswerCosts = {0, 1}
  AuditCeiling = 2
  MaxAudits = 2
  Candidates <- MCCandidates
  RelayCalls = 2
  ReceiverCalls = 2
  CanaryCosts = {0, 1, 2}
  MaxCallCost = 2
  FamilyStopLoss = 3
  TotalLimit = 4
  Outputs = {"a", "b"}
  MaxCanaries = 2
INVARIANTS ChecksTypeOK VerdictFollowsRule EvidencePrecedesDecision CanaryOvershoot
PROPERTY AuditEnds
CHECK_DEADLOCK FALSE
