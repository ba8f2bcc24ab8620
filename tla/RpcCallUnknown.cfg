CONSTANTS
  c1 = c1  c2 = c2  c3 = c3  c4 = c4
  r1 = r1  r2 = r2  r3 = r3
  NULL = NULL  Wild = Wild  NoCall = NoCall
  Calls <- FourCalls
  Known <- ThreeKnown
  Sync <- TwoKnown
  Reqs <- TwoReqs
  NConn = 2
  Capacity = 1
  ListSize = 1
  JunkSeqs <- MCJunk
SPECIFICATION Spec
INVARIANTS IInv RequestsAreOwnedOnce SyncReturnsOwn OutputStaysIntact
\* a crash of the client stops the system
CHECK_DEADLOCK FALSE
