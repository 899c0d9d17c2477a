SPECIFICATION Spec
CONSTANTS
  Ranks <- MCRanks
  Window = 2
  NoDecision = NoDecision
  MaxTime = 6
  MaxCandidates = 4
INVARIANTS
  TypeOK
  WinnerOutranksRound
  FreshElectionStartsEmpty
PROPERTIES
  RejectedOnlyForALiveWinner
  ImplementsArbiter
CHECK_DEADLOCK FALSE
