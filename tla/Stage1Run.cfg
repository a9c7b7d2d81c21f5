SPECIFICATION Spec
CONSTANTS
  d1 = d1
  a1 = a1
  a2 = a2
  probed = probed
  NoClass = NoClass
  TextAtoms = {}
  Docs <- OneDoc
  DocOf <- InOneDoc
  ClassOf <- FirstProbed
  Classes = {probed}
  MPrior = 1
  Atoms = {a1}
  MStars = {1, 2}
  Budgets = {1, 2}
  OverallCap = 15
  DifferentialCap = 5
  MaxRuns = 2
INVARIANTS TypeOK VerdictReproducible ManifestIsLast AnswersFitTheQuestion
CHECK_DEADLOCK FALSE
