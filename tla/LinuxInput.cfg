SPECIFICATION Spec
CONSTANTS
  cmd = cmd
  a = a
  v = v
  Mods <- MCMods
  Chords <- MCChords
  Cmd = cmd
  HotKey = v
INVARIANTS
  TypeOK
  OneReporter
  InSync
  Released
PROPERTIES
  NoInputUnfocused
  ReleaseEnds
