SPECIFICATION Spec
CONSTANTS
  Tests <- MCTests
  Suite <- MCSuite
  MaxPolls = 3
  StageReused = FALSE
INVARIANTS
  TypeOK
  GreenMeansRan
  GivesUpForCause
  GateHolds
  NothingLeft
PROPERTIES
  SkippedForCause
  RunEnds
CHECK_DEADLOCK FALSE
