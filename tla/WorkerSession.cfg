SPECIFICATION Spec
CONSTANTS
  MaxSessions = 2
  MaxAttempts = 2
  None = None
INVARIANTS
  TypeOK
  PhoneHasOneUser
  TriedBeforeEnd
  StoppedMeansFree
  HeardInWords
PROPERTIES
  StopEnds
  MainEnds
  KeepsContract
