SPECIFICATION ConsoleSpec
CONSTANTS
  ConsoleSessions = {1, 2}
  FromSignIn = TRUE
  MaxLogons = 2
  MaxDeaths = 1
  MaxRestarts = 0
CHECK_DEADLOCK FALSE
INVARIANT RecoveryLocks
