----------------------------- MODULE MCConnPool -----------------------------
(* Bounds of the connections for TLC. *)
EXTENDS ConnPool

CONSTANTS m1, m2, m3, m4, m5, w1

FiveConns == {m1, m2, m3, m4, m5}
OneWorker == {w1}
=============================================================================
