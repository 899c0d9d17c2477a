SPECIFICATION LiveSpec
CONSTANTS
  Requests = {q, m}
  Quick = {q}
  QueueDepth = 1
  Nobody = Nobody
INVARIANTS
  TypeOK
  VerdictsAreTrue
PROPERTIES
  VerdictsOnlyLostToQueueAck
  EveryRecordSettles
CHECK_DEADLOCK FALSE
