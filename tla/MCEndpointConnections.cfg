SPECIFICATION Spec
CONSTANTS
  Connections = 4
  Nothing = Nothing
INVARIANTS
  TypeOK
  NoSessionOutlivesHandler
  CommandsHaveAReader
PROPERTIES
  NewerConnectionsSpared
  DroppedOnlyDuringReplacement
CHECK_DEADLOCK FALSE
