SPECIFICATION Spec
CONSTANTS
  f = f
  g = g
  p = p
  q = q
  r = r
  none = none
  Flows <- MCFlows
  Players <- MCPlayers
  None = none
  Tries = 1
  MaxEvents = 1
SYMMETRY Symmetry
INVARIANTS
  OneViewer
  StopEnds
