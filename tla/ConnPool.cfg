CONSTANTS
  m1 = m1  m2 = m2  m3 = m3  m4 = m4  m5 = m5  w1 = w1
  Reader = Reader  Writer = Writer
  NULL = NULL  Wild = Wild
  Conns <- FiveConns
  Workers <- OneWorker
  NClient = 1
  MaxPeers = 5
  MaxAsked = 1
  NFds = 2
  FreeTotal = 1
  MaxTotal = 2
SPECIFICATION FairSpec
INVARIANTS IInv OneOwner
PROPERTIES PopAfterPopIsSafe MessagesReachTheirPeer HungUpIsClosed
\* the threads wait for peers
CHECK_DEADLOCK FALSE
