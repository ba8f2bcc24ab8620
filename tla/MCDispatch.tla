----------------------------- MODULE MCDispatch -----------------------------
(* Bounds of the dispatcher for TLC: two workers that get two connections  *)
(* each, so that notifications can merge; one worker that gets three.      *)
EXTENDS Dispatch

CONSTANTS k1, k2, k3, k4

FourConns == {k1, k2, k3, k4}
ThreeConns == {k1, k2, k3}
=============================================================================
