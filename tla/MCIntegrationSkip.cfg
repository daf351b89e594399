SPECIFICATION Spec
CONSTANTS
  Tests <- MCTests
  Suite <- MCSuite
  MaxPolls = 2
  StageReused = FALSE
INVARIANT
  SkipIsNoPass
CHECK_DEADLOCK FALSE
