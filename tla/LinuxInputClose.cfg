SPECIFICATION CloseSpec
CONSTANTS
  cmd = cmd
  a = a
  v = v
  Mods <- MCMods
  Chords <- MCOneChord
  Cmd = cmd
  HotKey = v
PROPERTY CloseEnds
