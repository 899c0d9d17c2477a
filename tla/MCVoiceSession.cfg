SPECIFICATION FairSpec
CONSTANTS
  MaxSessions = 2
  NoSession = NoSession
  Windows <- BothWindows
  CustomInUse = TRUE
  Alarms = TRUE
INVARIANTS
  TypeOK
  NothingHeardWithoutWake
  SessionsAccountedFor
  TimerOwnsLiveFollowup
  PlacementNeverAnswered
PROPERTIES
  SupersededHeldNoSpeech
  ImplementsLedger
  WaitingIsBounded
CHECK_DEADLOCK FALSE
