SPECIFICATION Spec
CONSTANTS
  cmd = cmd
  a = a
  b = b
  Mods <- MCMods
  Letters <- MCOneLetter
  Cmd = cmd
  HotKey = a
  BadUsage = bad
PROPERTY RetriesLazily
