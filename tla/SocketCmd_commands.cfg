SPECIFICATION FairSpec
CONSTANTS
  NumPackets = 2
  BufLen = 2
  MsgLen = 3
  RcvLen = 3
  MaxSegment = 4
  RECEIVE_TIMEOUT = 3
  MaxSockets = 3
INVARIANTS TypeOK OkClosesAll SendsExactly
PROPERTY ReceiveEnds
