SPECIFICATION Spec
CONSTANTS
  Null = Null
  Ports <- MCPorts
  Arguments <- MCArguments
  ShiftFatal = TRUE
  Retries = 3
INVARIANT
  DefaultIsHttp
CHECK_DEADLOCK FALSE
