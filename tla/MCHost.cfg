SPECIFICATION HostSpec
CONSTANTS
  \* Repair
  SLOTS = 2
  REPAIRS_PER_SEC = 1
  REPAIR_OK = TRUE
  HELD = 0
  MaxInputs = 5
  MaxPath = 1
  \* CopySession
  MaxSession = 3
  \* Update
  NChunks = 3
  MAX_GET = 2
  Budget = 2
  UpMaxNet = 2
  UpRepeats = {TRUE}      \* one taken once is repeated and then lost
  \* Install
  Procs = {p1, p2}
  MaxVersion = 3
  \* Console
  ConsoleSessions = {1, 2}
  FromSignIn = FALSE
  MaxLogons = 3
  MaxDeaths = 2
  MaxRestarts = 1
  \* SignIn
  Users = {u1}
  Right = {}
  FREE_FAILURES = 1
  MAX_PENDING_PER_IP = 1
  HELLOS = 2
  COOKIE_ROUNDS = 1
  MaxCalls = 3
  MaxNonces = 8
  MaxKeys = 4
  MaxPeriods = 1
  MaxBlocks = 1
  MaxLosses = 0
  SignNet = 2
  Repeated = FALSE
  Timely = FALSE
  \* Clipboard
  Pcs = {client, host}
  Files = {f1, f2}
  System = {host}
  Bare = {f2}
  PIECES = 2
  OverTcp = TRUE
  MaxCopies = 2
  MaxOfFiles = 1
CHECK_DEADLOCK FALSE
INVARIANT PictureSound
PROPERTY EndsOnlyItself
INVARIANT NoFalseFailure
INVARIANT ExeThere
INVARIANT OpenIsMarked
INVARIANT StopStaysSet
PROPERTY NewcomerUntouched
INVARIANT GuessesRationed
INVARIANT OnlyListedFilesSentBack
