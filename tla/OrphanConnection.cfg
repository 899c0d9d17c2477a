SPECIFICATION Spec
CONSTANTS
  Connections = 3
  Nothing = Nothing
INVARIANTS
  LoneConnectionIsReachable
CHECK_DEADLOCK FALSE
