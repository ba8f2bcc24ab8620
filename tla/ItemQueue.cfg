CONSTANTS
  qw = qw  qa = qa  p1 = p1  p2 = p2
  v1 = v1  v2 = v2  v3 = v3
  NULL = NULL
  Queues <- TwoQueues
  Blocking <- OneAsync
  Pushers <- TwoPushers
  Values <- ThreeValues
  ChunkLen = 3
  MaxChunks = 2
SPECIFICATION FairSpec
INVARIANTS IInv EachItemIsInOnePlace
PROPERTIES ImplementsFifo PushedIsTaken
\* the threads push a bounded number of values
CHECK_DEADLOCK FALSE
