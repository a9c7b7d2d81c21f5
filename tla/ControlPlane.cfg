SPECIFICATION PlaneSpec
CONSTANTS
  Pinned = {"v1"}
  MaxManifest = 2
  RunIds = {"r1", "r2"}
  MaxRestarts = 2
INVARIANTS PlaneTypeOK NothingRunsUnauthorised ValidMeansWritten PanesShowOneRun
CHECK_DEADLOCK FALSE
