SPECIFICATION Spec
CONSTANTS
  Tests <- MCTests
  Suite <- MCSuite
  MaxPolls = 2
  StageReused = TRUE
INVARIANT
  GateHolds
CHECK_DEADLOCK FALSE
