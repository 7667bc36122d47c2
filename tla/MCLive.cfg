SPECIFICATION LiveSpec
CONSTANTS
  \* CopyStream
  Threads = {t1, t2}
  LANES = 2
  Widths = {1, 2}
  QUEUED_PER_LANE = 1
  IN_TCP = 1
  MaxSeq = 5
  \* Input: full resends are all that brings a lost event back
  MAX_PER_PACKET = 1
  CAPPED_TAIL = 1
  CAPPED_REPEATS = 1
  REL_MAX = 3
  Steps = {}
  Places = {}
  Fingers = {}
  MaxInputSeq = 3
  MaxPushes = 3
  MaxNet = 2
  \* Update
  NChunks = 2
  MAX_GET = 2
  Budget = 1
  UpMaxNet = 1
  UpRepeats = {FALSE}
  \* ViewFollow
  Views = {v1, v2}
  NoView = NoView
  \* Link
  LinkLanes = {Urgent, Bulk}
  Callers = {c1, c2}
  LinkWindow = 1
  MaxQueued = 1
  \* Console
  ConsoleSessions = {1, 2}
  FromSignIn = FALSE
  MaxLogons = 1
  MaxDeaths = 1
  MaxRestarts = 0
  \* SignIn
  Users = {u1}
  Right = {u1}
  FREE_FAILURES = 1
  MAX_PENDING_PER_IP = 2
  HELLOS = 2
  COOKIE_ROUNDS = 2
  MaxCalls = 5
  MaxNonces = 20
  MaxKeys = 8
  MaxPeriods = 2
  MaxBlocks = 0
  MaxLosses = 2
  SignNet = 2
  Repeated = FALSE
  Timely = TRUE
CHECK_DEADLOCK FALSE
INVARIANT InOrder
INVARIANT NotSleptThrough
PROPERTY AllArrive
PROPERTY AllApplied
PROPERTY DownloadEnds
PROPERTY ViewFollowed
PROPERTY LeftIsLocked
PROPERTY ComesBack
