SPECIFICATION Spec
CONSTANTS
  Pinned = {"v1"}
  MaxManifest = 2
INVARIANT FinalTestOnValidRecord
CHECK_DEADLOCK FALSE
