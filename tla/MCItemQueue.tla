---------------------------- MODULE MCItemQueue -----------------------------
(* Bounds of the queues for TLC: one rpc_queue and one rpc_async_queue that *)
(* share the free list, two pushing threads, and chunks of three items.     *)
EXTENDS ItemQueue

CONSTANTS qw, qa, p1, p2, v1, v2, v3

TwoQueues == {qw, qa}
OneAsync == {qa}
TwoPushers == {p1, p2}
ThreeValues == {v1, v2, v3}
=============================================================================
