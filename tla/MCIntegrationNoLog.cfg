SPECIFICATION Spec
CONSTANTS
  Tests <- MCTests
  Suite <- MCSuite
  MaxPolls = 2
  StageReused = FALSE
INVARIANT
  FailuresExplained
CHECK_DEADLOCK FALSE
