SPECIFICATION ClipboardSpec
CONSTANTS
  Pcs = {client, host}
  Files = {f1, f2}
  System = {host}
  Bare = {f2}
  PIECES = 2
  OverTcp = TRUE
  MaxCopies = 2
  MaxOfFiles = 2
CHECK_DEADLOCK FALSE
INVARIANT NothingSentBack
