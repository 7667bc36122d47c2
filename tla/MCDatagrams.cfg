INIT DatagramsInit
NEXT DatagramsNext
CONSTANTS
  \* Wire: more datagrams than the window is wide
  REPLAY_WINDOW = 6
  WORD = 2
  WINDOW_WORDS = 3
  Versions = {3, 4}
  version = 4
  Kinds = {Input, Update}
  Update = Update
  Input = Input
  MaxSeq = 7
  MaxLink = 2
  \* Input
  MAX_PER_PACKET = 2
  CAPPED_TAIL = 1
  CAPPED_REPEATS = 1
  REL_MAX = 3
  Steps <- MCSteps
  Places = {5}
  Fingers = {f}
  MaxInputSeq = 3
  MaxPushes = 3
  MaxNet = 2
  \* Reassembler: frame ids wrap
  MAX_IN_FLIGHT = 3
  IDS = 24
  Blocks = {b1}
  Shards = {s1, s2, s3}
  K = 2
  FirstId = 21
  MaxFrames = 5
  \* AudioOrder: numbers wrap
  SEQS = 24
  RESTART_BEHIND = 2
  MaxAudio = 10
  MaxRuns = 3
  AuMaxNet = 2
  \* RdpUdp: numbers wrap both ways
  SnMod = 16
  PeerIsn = 14
  OurIsn = 15
  MAX_REORDER = 1
  MAX_UNACKED = 2
  SYN_RETRIES = 2
  MaxPeer = 3
  MaxWrites = 2
  NetIn = 2
  NetOut = 1
  \* Dvc
  Ids = {i1, i2}
  NoId = NoId
  Names = {"gfx", "lossy", "device", "bridge", "other", "disp", "rdpei"}
  MidClose = FALSE
  MaxFragments = 3
  MaxMessages = 3
  MaxOpens = 3
CHECK_DEADLOCK FALSE
INVARIANT OpenedOnce
INVARIANT WindowExact
INVARIANT ShiftsEveryBit
INVARIANT HostCatchesUp
INVARIANT InOrderOnce
INVARIANT DeliveredExactly
INVARIANT DecodedInOrder
INVARIANT HeardAgain
INVARIANT StreamExact
INVARIANT AckedWasDelivered
INVARIANT KeptUntilTaken
INVARIANT MessagesWhole
INVARIANT RoutedRight
