SPECIFICATION ConfigSpec
CONSTANTS
  NodeIds = {n1, n2}
  NoNodeId = NoNodeId
  Beats = {b1, b2}
  Choices = {c1, c2}
  Off = Off
  Stock = c1
  Edits = {e1}
  Reconciles = {r1}
  MaxTries = 2
  Models = {c1, c2}
  Unknown = u
  Puts = {p1, p2}
  MaxWorkers = 3
  Endpoints = {d1, d2}
  HotReload = HotReload
  Invalid = Invalid
  NoVolume = NoVolume
  MaxVolume = 1
  DefaultVolume = 1
  MaxEdits = 2
  MaxAsks = 2
  MaxWire = 1
INVARIANT
  ConfigurationInv
PROPERTY
  RuntimeIsKnown
CHECK_DEADLOCK FALSE
