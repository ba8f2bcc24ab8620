------------------------------ MODULE Dispatch ------------------------------
(***************************************************************************)
(* How the server hands accepted connections to its worker threads         *)
(* (rpc_thread.c, cb_dispatch_conn and cb_notify_conn).                    *)
(*                                                                         *)
(*   dispatch thread  accept, choose the next worker, push the connection  *)
(*                    on its queue, write 1 to its eventfd                 *)
(*   worker thread    its event loop sees the eventfd readable: read it,   *)
(*                    unlink one item of its queue and put it on the free  *)
(*                    list, read its connection, register that one         *)
(*                                                                         *)
(* An eventfd is a counter: a write adds to it, a read returns it and      *)
(* clears it.  So the steps of the two threads interleave between the push *)
(* and the write, and between the read and the pop.  They also interleave  *)
(* within the pop: the item is free before it is read, and the dispatcher  *)
(* may take it from the free list and put a later connection in it.        *)
(***************************************************************************)
EXTENDS Integers, Sequences, FiniteSets

CONSTANTS
  Conns,     \* the connections clients open
  WorkerLen, \* WORKER_LEN
  NoConn     \* no connection: NULL popped from an empty queue

ASSUME DispatchAssumption ==
  /\ WorkerLen \in Nat \ {0}
  /\ NoConn \notin Conns

Workers == 0 .. (WorkerLen - 1)

VARIABLES
  backlog,     \* connections the kernel holds until they are accepted
  accepted,    \* history: the connections accepted, in order
  last_thread, \* the worker chosen last
  dispatcher,  \* the dispatch thread: pc and the connection it hands over
  queue,       \* the queue of each worker
  notify,      \* the counter of each worker's eventfd
  worker,      \* each worker: pc, the n it read from its eventfd, and what
               \* the item it has unlinked holds now
  taken,       \* history: the connections each worker has unlinked, in order
  since,       \* history: how many had been pushed when it unlinked each
  served       \* the connections each worker has registered, in order

vars == <<backlog, accepted, last_thread, dispatcher, queue, notify, worker,
          taken, since, served>>

IdleDispatcher == [pc |-> "accept", conn |-> NoConn]
IdleWorker == [pc |-> "poll", n |-> 0, item |-> NoConn]

Init ==
  /\ backlog = {}
  /\ accepted = <<>>
  /\ last_thread = -1
  /\ dispatcher = IdleDispatcher
  /\ queue = [w \in Workers |-> <<>>]
  /\ notify = [w \in Workers |-> 0]
  /\ worker = [w \in Workers |-> IdleWorker]
  /\ taken = [w \in Workers |-> <<>>]
  /\ since = [w \in Workers |-> <<>>]
  /\ served = [w \in Workers |-> <<>>]

(* A client connects: the connection waits in the listen backlog. *)
Connect(c) ==
  /\ c \notin backlog
  /\ \A i \in DOMAIN accepted : accepted[i] # c
  /\ backlog' = backlog \cup {c}
  /\ UNCHANGED <<accepted, last_thread, dispatcher, queue, notify, worker,
                 taken, since, served>>

(* Mutant of Accept: the connections are dealt out to all workers but one. *)
AcceptForAllButOne(c) ==
  /\ dispatcher.pc = "accept"
  /\ c \in backlog
  /\ backlog' = backlog \ {c}
  /\ accepted' = Append(accepted, c)
  /\ last_thread' = (last_thread + 1) % (WorkerLen - 1)
  /\ dispatcher' = [pc |-> "push", conn |-> c]
  /\ UNCHANGED <<queue, notify, worker, taken, since, served>>

(* cb_dispatch_conn: accept, and choose the workers in turn. *)
Accept(c) ==
  /\ dispatcher.pc = "accept"
  /\ c \in backlog
  /\ backlog' = backlog \ {c}
  /\ accepted' = Append(accepted, c)
  /\ last_thread' = (last_thread + 1) % WorkerLen
  /\ dispatcher' = [pc |-> "push", conn |-> c]
  /\ UNCHANGED <<queue, notify, worker, taken, since, served>>

Queued(c) == \E w \in Workers : \E i \in DOMAIN queue[w] : queue[w][i] = c

(* The item of the new connection is a new one, or one of the free list.   *)
(* An item that holds c is on the free list once c is in no queue; workers *)
(* may be about to read it: more than one, if it was refilled and unlinked *)
(* again before the first of them got to read it.                          *)
FillsItemOf(c) ==
  /\ ~ Queued(c)
  /\ worker' = [w \in Workers |->
       IF worker[w].pc = "read" /\ worker[w].item = c
       THEN [worker[w] EXCEPT !.item = dispatcher.conn] ELSE worker[w]]

FillsAnItem == UNCHANGED worker \/ \E c \in Conns : FillsItemOf(c)

(* Mutant of Push: the queue is a stack. *)
PushInFront ==
  /\ dispatcher.pc = "push"
  /\ FillsAnItem
  /\ queue' = [queue EXCEPT ![last_thread] = <<dispatcher.conn>> \o @]
  /\ dispatcher' = [pc |-> "notify", conn |-> NoConn]
  /\ UNCHANGED <<backlog, accepted, last_thread, notify, taken, since, served>>

(* rpc_queue_push: the item is filled and linked at the tail. *)
Push ==
  /\ dispatcher.pc = "push"
  /\ FillsAnItem
  /\ queue' = [queue EXCEPT ![last_thread] = Append(@, dispatcher.conn)]
  /\ dispatcher' = [pc |-> "notify", conn |-> NoConn]
  /\ UNCHANGED <<backlog, accepted, last_thread, notify, taken, since, served>>

(* Mutant of Notify: the eventfd is written twice. *)
NotifyTwice ==
  /\ dispatcher.pc = "notify"
  /\ notify' = [notify EXCEPT ![last_thread] = @ + 2]
  /\ dispatcher' = IdleDispatcher
  /\ UNCHANGED <<backlog, accepted, last_thread, queue, worker, taken, since, served>>

Notify ==
  /\ dispatcher.pc = "notify"
  /\ notify' = [notify EXCEPT ![last_thread] = @ + 1]
  /\ dispatcher' = IdleDispatcher
  /\ UNCHANGED <<backlog, accepted, last_thread, queue, worker, taken, since, served>>

(* Mutant of ReadNotify: the eventfd is not read. *)
LeaveNotify(w) ==
  /\ worker[w].pc = "poll"
  /\ notify[w] > 0
  /\ worker' = [worker EXCEPT ![w] = [@ EXCEPT !.pc = "pop", !.n = notify[w]]]
  /\ UNCHANGED <<backlog, accepted, last_thread, dispatcher, queue, notify,
                 taken, since, served>>

(* cb_notify_conn: the counter is read and cleared. *)
ReadNotify(w) ==
  /\ worker[w].pc = "poll"
  /\ notify[w] > 0
  /\ worker' = [worker EXCEPT ![w] = [@ EXCEPT !.pc = "pop", !.n = notify[w]]]
  /\ notify' = [notify EXCEPT ![w] = 0]
  /\ UNCHANGED <<backlog, accepted, last_thread, dispatcher, queue,
                 taken, since, served>>

Pushed == Len(accepted) - (IF dispatcher.pc = "push" THEN 1 ELSE 0)

(* Mutant of PopConn: the handler returns when n is not 1. *)
PopConnIfOne(w) ==
  /\ worker[w].pc = "pop"
  /\ IF worker[w].n # 1
     THEN /\ worker' = [worker EXCEPT ![w] = IdleWorker]
          /\ UNCHANGED <<queue, taken, since>>
     ELSE /\ queue' = [queue EXCEPT ![w] = Tail(@)]
          /\ taken' = [taken EXCEPT ![w] = Append(@, Head(queue[w]))]
          /\ since' = [since EXCEPT ![w] = Append(@, Pushed)]
          /\ worker' = [worker EXCEPT ![w] =
                          [@ EXCEPT !.pc = "read", !.item = Head(queue[w])]]
  /\ UNCHANGED <<backlog, accepted, last_thread, dispatcher, notify, served>>

(* rpc_queue_pop, whatever n is: one item is unlinked and freed.  From an  *)
(* empty queue NULL is popped, and registered as file descriptor 0.        *)
PopConn(w) ==
  /\ worker[w].pc = "pop"
  /\ IF queue[w] = <<>>
     THEN /\ served' = [served EXCEPT ![w] = Append(@, NoConn)]
          /\ worker' = [worker EXCEPT ![w] = IdleWorker]
          /\ UNCHANGED <<queue, taken, since>>
     ELSE /\ queue' = [queue EXCEPT ![w] = Tail(@)]
          /\ taken' = [taken EXCEPT ![w] = Append(@, Head(queue[w]))]
          /\ since' = [since EXCEPT ![w] = Append(@, Pushed)]
          /\ worker' = [worker EXCEPT ![w] =
                          [@ EXCEPT !.pc = "read", !.item = Head(queue[w])]]
          /\ UNCHANGED served
  /\ UNCHANGED <<backlog, accepted, last_thread, dispatcher, notify>>

(* item->data is read, after the item was freed, and registered. *)
ReadConn(w) ==
  /\ worker[w].pc = "read"
  /\ served' = [served EXCEPT ![w] = Append(@, worker[w].item)]
  /\ worker' = [worker EXCEPT ![w] = IdleWorker]
  /\ UNCHANGED <<backlog, accepted, last_thread, dispatcher, queue, notify,
                 taken, since>>

Dispatcher == (\E c \in Conns : Accept(c)) \/ Push \/ Notify

Worker(w) == ReadNotify(w) \/ PopConn(w) \/ ReadConn(w)

Next ==
  \/ \E c \in Conns : Connect(c)
  \/ Dispatcher
  \/ \E w \in Workers : Worker(w)

Spec == Init /\ [][Next]_vars

(* The event loops run for ever, and no thread stops in a handler. *)
Fairness == WF_vars(Dispatcher) /\ \A w \in Workers : WF_vars(Worker(w))

FairSpec == Spec /\ Fairness
-----------------------------------------------------------------------------
(* Types of the variables. *)
TypeOK ==
  /\ backlog \subseteq Conns
  /\ accepted \in Seq(Conns)
  /\ last_thread \in Workers \cup {-1}
  /\ dispatcher \in [pc : {"accept", "push", "notify"}, conn : Conns \cup {NoConn}]
  /\ dispatcher.pc = "push" => dispatcher.conn \in Conns
  /\ dispatcher.pc # "accept" => last_thread \in Workers
  /\ queue \in [Workers -> Seq(Conns)]
  /\ notify \in [Workers -> Nat]
  /\ worker \in [Workers -> [pc : {"poll", "pop", "read"}, n : Nat,
                             item : Conns \cup {NoConn}]]
  /\ taken \in [Workers -> Seq(Conns)]
  /\ since \in [Workers -> Seq(Int)]
  /\ served \in [Workers -> Seq(Conns \cup {NoConn})]

(* A worker that has read its eventfd finds a connection to pop, so it     *)
(* never registers NULL, file descriptor 0, as a connection: the push      *)
(* comes before the write (rpc_thread.c:59-61) and one write is worth at   *)
(* most one pop.                                                           *)
PopFindsConnection == \A w \in Workers : worker[w].pc = "pop" => queue[w] # <<>>

(* The share of a worker: every WorkerLen-th of the accepted connections.  *)
Share(w) ==
  [i \in 1 .. ((Len(accepted) + WorkerLen - 1 - w) \div WorkerLen) |->
     accepted[(i - 1) * WorkerLen + w + 1]]

BeingPushed(w) ==
  IF dispatcher.pc = "push" /\ last_thread = w THEN <<dispatcher.conn>> ELSE <<>>

(* What worker w may register for the i-th connection it unlinked: that    *)
(* one, or one that was pushed after it was unlinked.                      *)
MayRegister(w, i, c) ==
  \/ c = taken[w][i]
  \/ \E k \in DOMAIN accepted : k > since[w][i] /\ accepted[k] = c

(* The connections are dealt out in turn, and each worker unlinks those of *)
(* its share in the order they were accepted: none is in two queues, none  *)
(* is lost on the way, and none overtakes another.  What it registers is   *)
(* what it unlinked, with one exception: as rpc_queue_pop frees the item   *)
(* before it reads it (rpc_queue.c:80-81), it may be a connection pushed   *)
(* in between, which is registered twice while its own is never served.    *)
WorkerGetsItsShare ==
  \A w \in Workers :
    /\ taken[w] \o queue[w] \o BeingPushed(w) = Share(w)
    /\ \A i \in DOMAIN served[w] :
         i \in DOMAIN taken[w] /\ MayRegister(w, i, served[w][i])

(* A connection may be left in its queue after its notification was read   *)
(* together with that of another one; but the next connection for the same *)
(* worker moves the queue on again: whenever a worker is notified, it      *)
(* registers one more connection, however many it has registered so far.   *)
NotifiedWorkerAdvances ==
  \A w \in Workers : \A n \in 0 .. Cardinality(Conns) :
    (notify[w] > 0 /\ Len(served[w]) = n) ~> (Len(served[w]) > n)

(* Every accepted connection is registered with the event loop of a        *)
(* worker, which then reads its requests (doc/protocal.txt, "connect quest *)
(* -> rpc_request -> event loop -> read request").  For that it must at    *)
(* least leave the queue it was pushed on.                                 *)
AcceptedIsTaken == \A c \in Conns : Queued(c) ~> ~ Queued(c)

-----------------------------------------------------------------------------
(* Why a worker always finds a connection: what its eventfd counts, what   *)
(* it has read and what is about to be written are all in the queue.       *)
Owed(w) ==
  notify[w]
  + (IF worker[w].pc = "pop" THEN 1 ELSE 0)
  + (IF dispatcher.pc = "notify" /\ last_thread = w THEN 1 ELSE 0)

NotifiedAreQueued == \A w \in Workers : Owed(w) <= Len(queue[w])

(* Why a worker gets its share: last_thread follows the number of          *)
(* connections accepted.  From -1 the first goes to worker 0.  And what is *)
(* being pushed is the last one accepted.                                  *)
NextInTurn ==
  /\ (last_thread + 1) % WorkerLen = Len(accepted) % WorkerLen
  /\ dispatcher.pc = "push" =>
       accepted # <<>> /\ dispatcher.conn = accepted[Len(accepted)]

(* Why a worker registers what it may: what it has unlinked is registered  *)
(* already or being read, and the item being read was refilled, if at all, *)
(* after it was unlinked.                                                  *)
ItemsAreRead ==
  \A w \in Workers :
    /\ Len(since[w]) = Len(taken[w])
    /\ \A i \in DOMAIN since[w] : since[w][i] <= Pushed
    /\ Len(taken[w]) = Len(served[w]) + (IF worker[w].pc = "read" THEN 1 ELSE 0)
    /\ worker[w].pc = "read" => MayRegister(w, Len(taken[w]), worker[w].item)

(* The inductive invariant: the types, that no worker is told of more than *)
(* its queue holds, whose turn it is, what each worker has got so far, and *)
(* what it is about to register.                                           *)
IInv ==
  TypeOK /\ NotifiedAreQueued /\ NextInTurn /\ WorkerGetsItsShare /\ ItemsAreRead
=============================================================================
