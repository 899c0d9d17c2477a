SPECIFICATION Spec
CONSTANTS
  MaxVersion = 3
  Faulty = {2}
  None = None
INVARIANTS
  TypeOK
  OnlySignedImagesRun
  ASoundImageIsKept
PROPERTIES
  ImplementsTrialBoot
CHECK_DEADLOCK FALSE
