SPECIFICATION Spec
CONSTANTS
  cmd = cmd
  a = a
  b = b
  Mods <- MCMods
  Letters <- MCLetters
  Cmd = cmd
  HotKey = a
  BadUsage = bad
INVARIANTS
  TypeOK
  InSync
  CommandDone
PROPERTIES
  ModifiersApart
  TouchIsBounded
