SPECIFICATION Spec
CONSTANTS
  Capacity = 3
  MaxFrames = 4
  PacketFresh = 2
  StallAfter = 3
  WriteIdle = 4
  StreamTimeout = 5
  None = None
INVARIANT HeaderFirst
