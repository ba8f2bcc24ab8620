CONSTANTS
  k1 = k1  k2 = k2  k3 = k3  k4 = k4
  NoConn = NoConn
  Conns <- ThreeConns
  WorkerLen = 1
SPECIFICATION FairSpec
PROPERTY AcceptedIsTaken
\* clients open a bounded number of connections
CHECK_DEADLOCK FALSE
