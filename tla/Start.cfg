CONSTANTS
  t1 = t1  t2 = t2  t3 = t3
  Starter = Starter  Nobody = Nobody
  Threads <- ThreeThreads
  NConn = 3
  Sides <- BothSides
SPECIFICATION FairSpec
INVARIANTS IInv ReturnsAfterAll CountIsExact
PROPERTIES ServerStarts ClientConnects
\* the threads come to their event loops, and a client thread may block
CHECK_DEADLOCK FALSE
