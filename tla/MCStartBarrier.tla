--------------------------- MODULE MCStartBarrier ---------------------------
(* Bounds of the start barrier for TLC: three threads of either side, one  *)
(* less than WORKER_LEN and as many as doc/protocal.txt gives a client.    *)
EXTENDS StartBarrier

CONSTANTS t1, t2, t3

ThreeThreads == {t1, t2, t3}
BothSides == {"server", "client"}
=============================================================================
