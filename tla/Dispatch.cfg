CONSTANTS
  k1 = k1  k2 = k2  k3 = k3  k4 = k4
  NoConn = NoConn
  Conns <- FourConns
  WorkerLen = 2
SPECIFICATION FairSpec
INVARIANTS IInv PopFindsConnection WorkerGetsItsShare NotifiedAreQueued
PROPERTY NotifiedWorkerAdvances
\* clients open a bounded number of connections
CHECK_DEADLOCK FALSE
