SPECIFICATION LinkSpec
CONSTANTS
  SPAN = 1
  WIDE_SPAN = 2
  REORDER = 1
  CWND_MIN = 1
  CWND_START = 2
  ACK_EVERY = 2
  MAX_MESSAGE = 1
  MaxSeq = 3
  MaxTx = 9
  MaxChunks = 2
  MaxNet = 2
  FreeTx = 4
  MaxLoss = 2
CHECK_DEADLOCK FALSE
INVARIANT TypeOK
INVARIANT NoChunkForgotten
INVARIANT NeverNonsense
INVARIANT AckedTxArrived
PROPERTY NoResendOfAcked
PROPERTY RefinesChannel
PROPERTY Drains
