SPECIFICATION Spec
CONSTANTS
  MaxCalls = 3
  PipeSize = 1
  None = None
INVARIANTS
  TypeOK
  ReceivedInOrder
  AnswersAreOwn
  ExitFailsAll
PROPERTIES
  CallsEnd
