CONSTANTS
  qw = qw  qa = qa  p1 = p1  p2 = p2
  v1 = v1  v2 = v2  v3 = v3
  NULL = NULL
  Queues <- TwoQueues
  Blocking <- OneAsync
  Pushers <- TwoPushers
  Values <- ThreeValues
  ChunkLen = 2
  MaxChunks = 3
SPECIFICATION Spec
INVARIANT PopReturnsWhatItUnlinked
\* the threads push a bounded number of values
CHECK_DEADLOCK FALSE
