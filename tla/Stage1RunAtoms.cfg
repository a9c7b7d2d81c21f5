SPECIFICATION Spec
CONSTANTS
  d1 = d1
  a1 = a1
  a2 = a2
  probed = probed
  NoClass = NoClass
  TextAtoms = {a1}
  Docs <- OneDoc
  DocOf <- InOneDoc
  ClassOf <- FirstProbed
  Classes = {probed}
  MPrior = 1
  Atoms = {a1, a2}
  MStars = {1}
  Budgets = {1}
  OverallCap = 50
  DifferentialCap = 100
  MaxRuns = 1
INVARIANTS PassNeedsPriorAccess NoSilentAttrition
CHECK_DEADLOCK FALSE
