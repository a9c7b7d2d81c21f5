SPECIFICATION Spec
CONSTANTS
  a1 = a1
  a2 = a2
  a3 = a3
  scope = scope
  period = period
  Atoms = {a1, a2, a3}
  RoleOf <- Roles
  TextRoles = {scope}
  K = 2
  Graphs <- AllLists
  Engines = {"sequential", "langgraph"}
INVARIANTS TypeOK StagesInOrder OneTerminalEvent NoFocalDropped ArmsAreApart CallIdsDistinct
CHECK_DEADLOCK FALSE
