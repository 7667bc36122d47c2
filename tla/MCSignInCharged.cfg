SPECIFICATION SignInSpec
CONSTANTS
  Users = {u1}
  Right = {u1}
  FREE_FAILURES = 2
  MAX_PENDING_PER_IP = 2
  HELLOS = 2
  COOKIE_ROUNDS = 2
  MaxCalls = 2
  MaxNonces = 4
  MaxKeys = 3
  MaxPeriods = 1
  MaxBlocks = 0
  MaxLosses = 1
  SignNet = 2
  Repeated = TRUE
  Timely = FALSE
CHECK_DEADLOCK FALSE
INVARIANT OnlyWrongCharged
