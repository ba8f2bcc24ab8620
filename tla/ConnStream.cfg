SPECIFICATION FairSpec
CONSTANTS
  Bodies <- MCBodies
  SockSize = 8
  RSize = 8
  MaxReallocs = 1
  Garbage <- MCGarbage
INVARIANTS IInv StreamIsKept
PROPERTIES MisreadIsFinal MessagesAreHandled
CHECK_DEADLOCK FALSE
