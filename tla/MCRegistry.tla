----------------------------- MODULE MCRegistry -----------------------------
(* Bounds of the registry for TLC: five services, two of them with one key,  *)
(* in tables of 2, 3 and 5 buckets in place of 53, 97 and more.              *)
EXTENDS Registry, TLC

CONSTANTS s1, s2, s3, s4, s5, w1

FiveServices == {s1, s2, s3, s4, s5}
OneWorker == {w1}
MCKeyOf == (s1 :> "a") @@ (s2 :> "b") @@ (s3 :> "c") @@ (s4 :> "d") @@ (s5 :> "a")
MCHashOf == [k \in {"a", "b", "c", "d"} |->
  CASE k = "a" -> 0 [] k = "b" -> 2 [] k = "c" -> 3 [] k = "d" -> 6]
MCSizes == <<2, 3, 5>>
=============================================================================
