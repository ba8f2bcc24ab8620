--------------------------- MODULE MCSessionPool ----------------------------
(* Bounds of the session pool for TLC: the array starts with one slot and  *)
(* doubles up to three times when realloc leaves garbage in it.             *)
EXTENDS SessionPool

CONSTANTS t1, t2, x1, x2, x3, x4

MCThreads == {t1, t2}
MCItems == {x1, x2, x3, x4}
=============================================================================
