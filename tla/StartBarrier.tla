---------------------------- MODULE StartBarrier ----------------------------
(***************************************************************************)
(* How rpc_server_start and rpc_client_connect wait for the threads they   *)
(* created: each thread counts itself in init_count and signals, the       *)
(* starting thread waits on the condition variable until all are counted.  *)
(*                                                                         *)
(* The server's threads lock server->mutex (rpc_thread.c:75).  A client    *)
(* thread copies client->mutex into a local variable and locks the copy    *)
(* (rpc_thread.c:206-207): a mutex of its own, which stays locked for ever *)
(* when it was copied while the starting thread held the original.         *)
(*                                                                         *)
(* The client connects its sockets before it creates threads, the server   *)
(* listens when its workers run; either may fail and end the start.        *)
(***************************************************************************)
EXTENDS Integers, FiniteSets

CONSTANTS
  Threads, \* the worker threads of the server, the read threads of the client
  NConn,   \* CLIENT_CONN_NUM
  Sides,   \* which of rpc_server_start and rpc_client_connect is called
  Starter, \* the thread that calls rpc_server_start or rpc_client_connect
  Nobody   \* the owner of a free mutex

ASSUME BarrierAssumption ==
  /\ IsFiniteSet(Threads) /\ NConn \in Nat \ {0}
  /\ Sides \subseteq {"server", "client"}
  /\ Starter \notin Threads /\ Nobody \notin Threads /\ Starter # Nobody

VARIABLES
  side,       \* the side that starts; it never changes
  conns,      \* the sockets the client has connected
  dispatch,   \* the server listens and its dispatch thread runs
  starter,    \* where the starting thread is
  pc,         \* where each thread is
  mutex,      \* the owner of the mutex of the server or client
  copy,       \* of each thread, whether its copy of the mutex is locked
  init_count, \* the threads counted so far
  seen        \* of each thread, the init_count its increment has read

vars == <<side, conns, dispatch, starter, pc, mutex, copy, init_count, seen>>

netVars == <<side, conns, dispatch>>

Copies == side = "client"

Init ==
  /\ side \in Sides /\ conns = 0 /\ dispatch = FALSE
  /\ starter = IF Copies THEN "connect" ELSE "create"
  /\ pc = [t \in Threads |-> "none"]
  /\ mutex = Nobody
  /\ copy = [t \in Threads |-> FALSE]
  /\ init_count = 0
  /\ seen = [t \in Threads |-> 0]

Goto(t, l) == pc' = [pc EXCEPT ![t] = l]

-----------------------------------------------------------------------------
(* The starting thread. *)

(* rpc_client_thread_init connects the sockets; the first that fails ends  *)
(* the start, and those connected before it stay.                          *)
Connect ==
  /\ starter = "connect"
  /\ \/ conns' = conns + 1 /\ starter' = IF conns' = NConn THEN "create" ELSE "connect"
     \/ UNCHANGED conns /\ starter' = "failed"
  /\ UNCHANGED <<side, dispatch, pc, mutex, copy, init_count, seen>>

Create(t) ==
  /\ starter = "create"
  /\ pc[t] = "none"
  /\ Goto(t, IF Copies THEN "copy" ELSE "lock")
  /\ UNCHANGED <<netVars, starter, mutex, copy, init_count, seen>>

(* The mutex is locked when all threads are created. *)
LockToWait ==
  /\ starter = "create"
  /\ \A t \in Threads : pc[t] # "none"
  /\ mutex = Nobody
  /\ mutex' = Starter
  /\ starter' = "check"
  /\ UNCHANGED <<netVars, pc, copy, init_count, seen>>

(* Mutant of Missing: one thread too few is waited for. *)
MissingMany == init_count < Cardinality(Threads) - 1

Missing == init_count < Cardinality(Threads)

(* The loop condition. *)
Check ==
  /\ starter = "check"
  /\ IF Missing
     THEN starter' = "sleep" /\ UNCHANGED mutex
     ELSE starter' = "counted" /\ mutex' = Nobody
  /\ UNCHANGED <<netVars, pc, copy, init_count, seen>>

(* pthread_cond_wait: the mutex is released and the thread waits at once.  *)
Sleep ==
  /\ starter = "sleep"
  /\ starter' = "wait"
  /\ mutex' = Nobody
  /\ UNCHANGED <<netVars, pc, copy, init_count, seen>>

(* Signalled, pthread_cond_wait locks the mutex again. *)
Wake ==
  /\ starter = "signalled"
  /\ mutex = Nobody
  /\ mutex' = Starter
  /\ starter' = "check"
  /\ UNCHANGED <<netVars, pc, copy, init_count, seen>>

(* The client returns TRUE.  The server binds and listens, and returns     *)
(* whether it could and its dispatch thread was created.                   *)
Return ==
  /\ starter = "counted"
  /\ dispatch' \in {FALSE, ~ Copies}
  /\ starter' = IF Copies \/ dispatch' THEN "started" ELSE "failed"
  /\ UNCHANGED <<side, conns, pc, mutex, copy, init_count, seen>>

-----------------------------------------------------------------------------
(* A created thread: thread_worker_handler, thread_client_handler. *)

CopyMutex(t) ==
  /\ pc[t] = "copy"
  /\ copy' = [copy EXCEPT ![t] = (mutex # Nobody)]
  /\ Goto(t, "lock")
  /\ UNCHANGED <<netVars, starter, mutex, init_count, seen>>

(* Mutant of IsUnlocked: nobody waits for the mutex. *)
NeverLocked(t) == TRUE

IsUnlocked(t) == IF Copies THEN ~ copy[t] ELSE mutex = Nobody

Lock(t) ==
  /\ pc[t] = "lock" /\ IsUnlocked(t)
  /\ IF Copies
     THEN copy' = [copy EXCEPT ![t] = TRUE] /\ UNCHANGED mutex
     ELSE mutex' = t /\ UNCHANGED copy
  /\ Goto(t, "read")
  /\ UNCHANGED <<netVars, starter, init_count, seen>>

(* init_count++ reads and writes. *)
ReadCount(t) ==
  /\ pc[t] = "read"
  /\ seen' = [seen EXCEPT ![t] = init_count]
  /\ Goto(t, "count")
  /\ UNCHANGED <<netVars, starter, mutex, copy, init_count>>

(* Mutant of Incremented: the threads are counted down. *)
Decremented(n) == n - 1

Incremented(n) == n + 1

Count(t) ==
  /\ pc[t] = "count"
  /\ init_count' = Incremented(seen[t])
  /\ Goto(t, "signal")
  /\ UNCHANGED <<netVars, starter, mutex, copy, seen>>

(* Mutant of Woken: nobody is signalled. *)
NotWoken == starter

Woken == IF starter = "wait" THEN "signalled" ELSE starter

Signal(t) ==
  /\ pc[t] = "signal"
  /\ starter' = Woken
  /\ Goto(t, "unlock")
  /\ UNCHANGED <<netVars, mutex, copy, init_count, seen>>

(* Mutant of OwnerAfter: the mutex stays locked. *)
OwnerBefore == mutex

OwnerAfter == Nobody

(* The thread enters its event loop. *)
Unlock(t) ==
  /\ pc[t] = "unlock"
  /\ IF Copies
     THEN copy' = [copy EXCEPT ![t] = FALSE] /\ UNCHANGED mutex
     ELSE mutex' = OwnerAfter /\ UNCHANGED copy
  /\ Goto(t, "loop")
  /\ UNCHANGED <<netVars, starter, init_count, seen>>

-----------------------------------------------------------------------------
Start ==
  \/ Connect \/ (\E t \in Threads : Create(t))
  \/ LockToWait \/ Check \/ Sleep \/ Wake \/ Return

Thread(t) ==
  CopyMutex(t) \/ Lock(t) \/ ReadCount(t) \/ Count(t) \/ Signal(t) \/ Unlock(t)

Next == Start \/ \E t \in Threads : Thread(t)

Spec == Init /\ [][Next]_vars

(* Every thread runs; a mutex that is released again and again is obtained *)
(* in the end.                                                             *)
Fairness ==
  /\ WF_vars(Start) /\ SF_vars(LockToWait \/ Wake)
  /\ \A t \in Threads : WF_vars(Thread(t)) /\ SF_vars(Lock(t))

FairSpec == Spec /\ Fairness
-----------------------------------------------------------------------------
(* Types of the variables. *)
TypeOK ==
  /\ side \in Sides
  /\ conns \in 0 .. NConn /\ dispatch \in BOOLEAN
  /\ starter \in {"connect", "create", "check", "sleep", "wait", "signalled",
                  "counted", "started", "failed"}
  /\ pc \in [Threads -> {"none", "copy", "lock", "read", "count", "signal",
                         "unlock", "loop"}]
  /\ mutex \in Threads \cup {Starter, Nobody}
  /\ copy \in [Threads -> BOOLEAN]
  /\ init_count \in Nat
  /\ seen \in [Threads -> Nat]

Counted == {t \in Threads : pc[t] \in {"signal", "unlock", "loop"}}

(* The call returns TRUE only when every thread has counted itself, and    *)
(* connections are accepted only then, so the dispatch thread never hands  *)
(* one to a worker that has not started; with a copied mutex an increment  *)
(* may be lost but none is counted twice.                                  *)
ReturnsAfterAll == starter = "started" \/ dispatch => Counted = Threads

(* On the server no increment of init_count is lost. *)
CountIsExact == side = "server" => init_count = Cardinality(Counted)

Returned == starter \in {"started", "failed"}

(* rpc_server_start returns. *)
ServerStarts == side = "server" ~> Returned

InSection(t) == pc[t] \in {"read", "count", "signal", "unlock"}

(* What a copy of the mutex cannot prevent, or does by itself: a thread is *)
(* between lock and unlock together with another or with the starting      *)
(* thread, which loses an increment or the signal; or it was copied locked.*)
CopyFails ==
  \E t \in Threads :
    \/ InSection(t) /\ mutex = Starter
    \/ \E u \in Threads \ {t} : InSection(t) /\ InSection(u)
    \/ pc[t] = "lock" /\ copy[t]

(* rpc_client_connect returns - the samples print that the client has      *)
(* started and call the service right after it (sample/testclient.c:21-22, *)
(* sample/openrpc.c:112-115) - unless the copy of the mutex                *)
(* (rpc_thread.c:206) fails it; without this exception it may not.         *)
ClientConnects == side = "client" => <>Returned \/ <>CopyFails

-----------------------------------------------------------------------------
(* Why the count can be relied on: it never runs ahead of the threads that *)
(* have counted themselves, on either side.                                *)
CountIsNotAhead ==
  /\ init_count <= Cardinality(Counted)
  /\ \A t \in Threads : pc[t] = "count" => seen[t] <= Cardinality(Counted)

(* The starting thread leaves its loop only when all are counted.          *)
LeavesAfterAll == starter \in {"counted", "started"} \/ dispatch => Counted = Threads

(* The server's threads and the starting thread share one mutex.           *)
OneInSection ==
  side = "server" =>
    /\ starter \in {"check", "sleep"} => mutex = Starter
    /\ \A t \in Threads :
         /\ pc[t] # "copy"
         /\ InSection(t) => mutex = t
         /\ pc[t] = "count" => seen[t] = init_count

(* The inductive invariant. *)
IInv ==
  /\ TypeOK
  /\ starter = "connect" => conns < NConn
  /\ CountIsNotAhead
  /\ LeavesAfterAll
  /\ OneInSection
  /\ CountIsExact
=============================================================================
