------------------------- MODULE StartBarrierProofs -------------------------
(***************************************************************************)
(* The start barrier is correct for any finite number of threads and on    *)
(* both sides.                                                             *)
(*                                                                         *)
(* That the starting thread leaves its loop only when every thread has     *)
(* counted itself follows from an upper bound on init_count, which holds   *)
(* with and without the shared mutex: a lost increment only makes the      *)
(* count smaller.  That no increment is lost on the server needs, on top   *)
(* of it, that a thread between lock and unlock owns the mutex.            *)
(***************************************************************************)
EXTENDS StartBarrier, FiniteSetTheorems, TLAPS

-----------------------------------------------------------------------------
(* The threads counted are finitely many, and counting one more adds one.  *)
LEMMA CountedFinite ==
  /\ IsFiniteSet(Counted) /\ Cardinality(Counted) \in Nat
  /\ Cardinality(Threads) \in Nat
<1>1. Counted \in SUBSET Threads
  BY DEF Counted
<1> QED
  BY <1>1, BarrierAssumption, FS_Subset, FS_CardinalityType

LEMMA CountedGrows ==
  ASSUME NEW t \in Threads, t \notin Counted, Counted' = Counted \cup {t}
  PROVE  Cardinality(Counted') = Cardinality(Counted) + 1
<1>1. Cardinality(Counted \cup {t}) = Cardinality(Counted) + 1
  BY CountedFinite, FS_AddElement
<1> QED
  BY <1>1

-----------------------------------------------------------------------------
LEMMA InitIInv == Init => IInv
<1> SUFFICES ASSUME Init PROVE IInv
  OBVIOUS
<1>1. Counted = {}
  BY DEF Init, Counted
<1>2. Cardinality(Counted) = 0
  BY <1>1, FS_EmptySet
<1>3. TypeOK
  <2>1. starter \in {"connect", "create"} /\ dispatch \in BOOLEAN
    BY Zenon DEF Init
  <2>2. conns \in 0 .. NConn
    BY BarrierAssumption DEF Init
  <2> QED
    BY <2>1, <2>2, BarrierAssumption DEF Init, TypeOK
<1>4. starter = "connect" => conns < NConn
  BY BarrierAssumption DEF Init
<1>5. CountIsNotAhead /\ CountIsExact
  BY <1>2 DEF Init, CountIsNotAhead, CountIsExact
<1>6. LeavesAfterAll /\ OneInSection
  BY BarrierAssumption DEF Init, LeavesAfterAll, OneInSection, InSection, Copies
<1> QED
  BY <1>3, <1>4, <1>5, <1>6 DEF IInv

(* The steps that leave the threads where they are, and so those counted.  *)
LEMMA StarterStep ==
  ASSUME IInv, Connect \/ LockToWait \/ Check \/ Sleep \/ Wake \/ Return
  PROVE  IInv'
<1> USE DEF IInv
<1>1. UNCHANGED <<side, pc, init_count, seen>> /\ Counted' = Counted
  BY DEF netVars, Connect, LockToWait, Check, Sleep, Wake, Return, Counted
<1>2. TypeOK' /\ (starter' = "connect" => conns' < NConn)
  <2>1. CASE Connect
    BY <2>1, BarrierAssumption DEF TypeOK, Connect
  <2>2. CASE LockToWait \/ Check \/ Sleep \/ Wake
    BY <2>2, BarrierAssumption DEF TypeOK, netVars, LockToWait, Check, Sleep, Wake
  <2>3. CASE Return
    BY <2>3, BarrierAssumption DEF TypeOK, Copies, Return
  <2> QED
    BY <2>1, <2>2, <2>3
<1>3. (CountIsNotAhead /\ CountIsExact)'
  BY <1>1 DEF CountIsNotAhead, CountIsExact
<1>4. LeavesAfterAll'
  <2>1. CASE Check /\ starter' = "counted"
    <3>1. Cardinality(Counted) = Cardinality(Threads)
      <4>1. Cardinality(Counted) <= Cardinality(Threads)
        BY BarrierAssumption, FS_Subset DEF Counted
      <4> QED
        BY <2>1, <4>1, CountedFinite DEF Check, Missing, CountIsNotAhead, TypeOK
    <3>2. Counted = Threads
      BY <3>1, BarrierAssumption, FS_Subset DEF Counted
    <3> QED
      BY <1>1, <3>2 DEF LeavesAfterAll
  <2>2. CASE ~ (Check /\ starter' = "counted")
    BY <1>1, <2>2
       DEF LeavesAfterAll, netVars, Connect, LockToWait, Check, Sleep, Wake, Return
  <2> QED
    BY <2>1, <2>2
<1>5. OneInSection'
  BY <1>1, BarrierAssumption
     DEF OneInSection, InSection, TypeOK, Copies, Connect, LockToWait, Check, Sleep, Wake, Return
<1> QED
  BY <1>2, <1>3, <1>4, <1>5

(* The steps of a thread before and after it counts itself. *)
LEMMA ThreadStep ==
  ASSUME IInv, NEW t \in Threads,
         Create(t) \/ CopyMutex(t) \/ Lock(t) \/ ReadCount(t) \/ Signal(t) \/ Unlock(t)
  PROVE  IInv'
<1> USE DEF IInv
<1> DEFINE A == Create(t) \/ CopyMutex(t) \/ Lock(t) \/ ReadCount(t) \/ Signal(t) \/ Unlock(t)
<1>1. /\ UNCHANGED <<side, init_count, conns, dispatch>>
      /\ starter' # starter => starter = "wait" /\ starter' = "signalled"
  BY DEF netVars, Create, CopyMutex, Lock, ReadCount, Signal, Unlock, Woken
<1>2. TypeOK' /\ (starter' = "connect" => conns' < NConn)
  BY <1>1, BarrierAssumption
     DEF TypeOK, Copies, Goto, Create, CopyMutex, Lock, ReadCount, Signal, Unlock,
         Woken, OwnerAfter
<1>3. Counted' = Counted
  BY DEF Counted, TypeOK, Goto, Copies, Create, CopyMutex, Lock, ReadCount, Signal, Unlock
<1>4. (CountIsNotAhead /\ CountIsExact)'
  BY <1>1, <1>3
     DEF CountIsNotAhead, CountIsExact, TypeOK, Goto, Copies, Create, CopyMutex, Lock,
         ReadCount, Signal, Unlock
<1>5. LeavesAfterAll'
  BY <1>1, <1>3 DEF LeavesAfterAll
<1>6. OneInSection'
  BY <1>1, BarrierAssumption
     DEF OneInSection, InSection, TypeOK, Goto, Copies, IsUnlocked, OwnerAfter,
         Create, CopyMutex, Lock, ReadCount, Signal, Unlock
<1> QED
  BY <1>2, <1>4, <1>5, <1>6

(* A thread counts itself with the count it has read. *)
LEMMA CountStep ==
  ASSUME IInv, NEW t \in Threads, Count(t)
  PROVE  IInv'
<1> USE DEF IInv, Count
<1>1. t \notin Counted /\ Counted' = Counted \cup {t}
  BY DEF Counted, TypeOK, Goto
<1>2. Cardinality(Counted') = Cardinality(Counted) + 1 /\ Cardinality(Counted) \in Nat
  BY <1>1, CountedGrows, CountedFinite
<1>3. TypeOK' /\ (starter' = "connect" => conns' < NConn)
  BY DEF TypeOK, Goto, Incremented, netVars
<1>4. CountIsNotAhead'
  BY <1>2 DEF CountIsNotAhead, TypeOK, Goto, Incremented
<1>5. CountIsExact'
  BY <1>2 DEF CountIsExact, OneInSection, TypeOK, Goto, Incremented, netVars
<1>6. LeavesAfterAll'
  BY <1>1 DEF LeavesAfterAll, netVars, Counted
<1>7. OneInSection'
  BY BarrierAssumption DEF OneInSection, InSection, TypeOK, Goto, Incremented, netVars
<1> QED
  BY <1>3, <1>4, <1>5, <1>6, <1>7

(* IInv is inductive. *)
THEOREM IInvHolds == Spec => []IInv
<1>1. IInv /\ [Next]_vars => IInv'
  <2> SUFFICES ASSUME IInv, [Next]_vars PROVE IInv'
    OBVIOUS
  <2>1. CASE UNCHANGED vars
    BY <2>1 DEF vars, IInv, TypeOK, CountIsNotAhead, LeavesAfterAll, OneInSection,
                CountIsExact, Counted, InSection
  <2> QED
    BY <2>1, StarterStep, ThreadStep, CountStep DEF Next, Start, Thread
<1> QED
  BY <1>1, InitIInv, PTL DEF Spec

(* The types of the state (TypeOK). *)
THEOREM TypeCorrect == Spec => []TypeOK
<1>1. IInv => TypeOK
  BY DEF IInv
<1> QED
  BY <1>1, IInvHolds, PTL

(* rpc_server_start and rpc_client_connect return TRUE, and the server     *)
(* accepts connections, only when every thread has counted itself          *)
(* (ReturnsAfterAll), although the client's threads lock mutexes of their  *)
(* own and may lose increments.                                            *)
THEOREM StartWaitsForAll == Spec => []ReturnsAfterAll
<1>1. IInv => ReturnsAfterAll
  BY DEF IInv, LeavesAfterAll, ReturnsAfterAll
<1> QED
  BY <1>1, IInvHolds, PTL

(* The server's threads lose no increment (CountIsExact).                  *)
THEOREM ServerCountsAll == Spec => []CountIsExact
<1>1. IInv => CountIsExact
  BY DEF IInv
<1> QED
  BY <1>1, IInvHolds, PTL
=============================================================================
