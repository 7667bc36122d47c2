SPECIFICATION InstallSpec
CONSTANTS
  Procs = {p1, p2}
  MaxVersion = 3
INVARIANT NoDowngrade
CHECK_DEADLOCK FALSE
