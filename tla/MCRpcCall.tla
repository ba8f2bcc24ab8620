----------------------------- MODULE MCRpcCall ------------------------------
(* Bounds of the call path for TLC, over two connections and from a pool   *)
(* of one slot: three calls with a structure each, so that the pool grows  *)
(* twice; four calls that share two structures, so that structures, slots  *)
(* and numbers are used again.                                             *)
EXTENDS RpcCall, TLC

CONSTANTS c1, c2, c3, c4, r1, r2, r3

ThreeCalls == {c1, c2, c3}
FourCalls == {c1, c2, c3, c4}
TwoReqs == {r1, r2}
ThreeReqs == {r1, r2, r3}
TwoKnown == {c1, c2}
ThreeKnown == {c1, c2, c3}
MCJunk == {0}
NoneSync == {}
=============================================================================
