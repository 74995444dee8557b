SPECIFICATION FairSpec
CONSTANTS
  MsgLen = 2
  PortLen = 2
  MaxTries = 1
  BindRetries = 2
  MaxPort = 3
  BoardCount = 2
  Restarts = 1
  NsPerSec = 2
  Word = 5
  MaxClock = 5
INVARIANTS TypeOK PortAgreed DescriptorsSound ElapsedExact
PROPERTY HandshakeReturns
CHECK_DEADLOCK FALSE
