SPECIFICATION Spec
CONSTANTS
  Null = Null
  Ports <- MCPorts
  Arguments <- MCArguments
  ShiftFatal = TRUE
  Retries = 3
INVARIANT
  HealthyMeansServes
PROPERTIES
  BecomesHealthy
  SilenceShows
CHECK_DEADLOCK FALSE
