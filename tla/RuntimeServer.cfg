SPECIFICATION FairSpec
CONSTANTS
  Conns = {k1, k2}
  Wake = Wake
  NoConn = NoConn
  NoSnapshot = NoSnapshot
  Domains = {"progress"}
  ProgressStep = 2
  MaxShown = 2
  Backlog = 1
  SocketSize = 1
  RingSize = 2
  MaxLives = 2
  MaxRequests = 1
CHECK_DEADLOCK FALSE
INVARIANT PicturesComeInOrder
INVARIANT AppliedIsAnswered
PROPERTY CallsEnd
PROPERTY TerminalCatchesUp
