SPECIFICATION Spec
CONSTANT MaxTries = 2
INVARIANTS
  TypeOK
  AllClosed
  BlameIsTrue
PROPERTIES
  StopEnds
