SPECIFICATION Spec
CONSTANTS
  p = p
  q = q
  nobody = nobody
  installer = installer
  Pids <- MCPids
  Nobody = nobody
  Installer = installer
  Owned = 3
  Obsolete = {3}
SYMMETRY Symmetry
INVARIANTS
  TypeOK
  OldOrNew
  OwnSocket
  StatusIsTrue
