----------------------------- MODULE ItemQueue ------------------------------
(***************************************************************************)
(* The linked queues of rpc_queue.c and rpc_async_queue.c with the list of *)
(* free items all of them share.  Any thread pushes; each queue has one    *)
(* thread that pops: a worker of the server pops its connections with      *)
(* rpc_queue_pop, the write thread of a client thread its requests with    *)
(* rpc_async_queue_pop, which waits on a condition variable.               *)
(*                                                                         *)
(* The critical sections of the queue mutexes and of free_list_locker are  *)
(* steps; so is each access to shared memory outside of them: the first    *)
(* look at free_item_list, the filling of an item, and the reading of an   *)
(* item's data after the item was given back.                              *)
(***************************************************************************)
EXTENDS Integers, Sequences, FiniteSets

CONSTANTS
  Queues,    \* the queues, each with its popping thread
  Blocking,  \* those of them that are rpc_async_queues
  Pushers,   \* the threads that push
  Values,    \* the pointers pushed, each once
  ChunkLen,  \* FREE_ITEM_LEN
  MaxChunks, \* bound: the number of times malloc is called
  NULL

ASSUME QueueAssumption ==
  /\ Blocking \subseteq Queues
  /\ Queues \cap Pushers = {}
  /\ ChunkLen \in Nat \ {0, 1}
  /\ MaxChunks \in Nat
  /\ NULL \notin Values \cup Queues \cup Int

Items == 1 .. (ChunkLen * MaxChunks)
Link == Items \cup {NULL}

VARIABLES
  next,            \* the next field of each item
  data,            \* the data field of each item
  chunks,          \* the number of chunks allocated
  free_item_list,  \* the head of the list of free items
  head, tail,      \* of each queue
  pushed,          \* the values pushed, or being pushed
  pusher,          \* each pushing thread: pc, queue, value and item
  popper,          \* each popping thread: pc, item and the value unlinked
  returned         \* of each queue, what pop returned: [unlinked, got]

vars == <<next, data, chunks, free_item_list, head, tail, pushed, pusher,
          popper, returned>>

IdlePusher == [pc |-> "idle", queue |-> NULL, value |-> NULL, item |-> NULL]
IdlePopper == [pc |-> "idle", item |-> NULL, value |-> NULL]

Init ==
  /\ next = [i \in Items |-> NULL]
  /\ data = [i \in Items |-> NULL]
  /\ chunks = 0
  /\ free_item_list = NULL
  /\ head = [q \in Queues |-> NULL]
  /\ tail = [q \in Queues |-> NULL]
  /\ pushed = {}
  /\ pusher = [t \in Pushers |-> IdlePusher]
  /\ popper = [q \in Queues |-> IdlePopper]
  /\ returned = [q \in Queues |-> <<>>]

-----------------------------------------------------------------------------
(* rpc_queue_push and rpc_async_queue_push. *)

At(t, pc) == pusher[t].pc = pc
Goto(t, pc) == pusher' = [pusher EXCEPT ![t].pc = pc]

CallPush(t, q, v) ==
  /\ At(t, "idle")
  /\ v \notin pushed
  /\ pushed' = pushed \cup {v}
  /\ pusher' = [pusher EXCEPT ![t] =
                  [pc |-> "look", queue |-> q, value |-> v, item |-> NULL]]
  /\ UNCHANGED <<next, data, chunks, free_item_list, head, tail, popper, returned>>

(* rpc_queue_item_new looks at the list without the lock first. *)
LookAtFreeList(t) ==
  /\ At(t, "look")
  /\ Goto(t, IF free_item_list # NULL THEN "take" ELSE "malloc")
  /\ UNCHANGED <<next, data, chunks, free_item_list, head, tail, pushed,
                 popper, returned>>

(* Mutant of Advanced: the list is not advanced. *)
NotAdvanced == free_item_list

Advanced == next[free_item_list]

(* With the lock it looks again, and takes the first item. *)
TakeItem(t) ==
  /\ At(t, "take")
  /\ IF free_item_list # NULL
     THEN /\ pusher' = [pusher EXCEPT ![t].pc = "fill", ![t].item = free_item_list]
          /\ free_item_list' = Advanced
     ELSE /\ Goto(t, "malloc")
          /\ UNCHANGED free_item_list
  /\ UNCHANGED <<next, data, chunks, head, tail, pushed, popper, returned>>

(* A chunk is allocated: its first item is taken, the others are linked.   *)
Malloc(t) ==
  /\ At(t, "malloc")
  /\ chunks < MaxChunks
  /\ LET first == chunks * ChunkLen + 1 IN
       /\ next' = [i \in Items |->
                     IF first < i /\ i < first + ChunkLen - 1 THEN i + 1 ELSE next[i]]
       /\ pusher' = [pusher EXCEPT ![t].pc = "share", ![t].item = first]
  /\ chunks' = chunks + 1
  /\ UNCHANGED <<data, free_item_list, head, tail, pushed, popper, returned>>

(* Mutant of Behind: the end of the chunk is linked to what follows it. *)
BehindChunk(first) == first + ChunkLen

(* What the last item of a chunk is linked to. *)
Behind(first) == free_item_list

(* The rest of the chunk is put in front of the list. *)
ShareChunk(t) ==
  /\ At(t, "share")
  /\ next' = [next EXCEPT ![pusher[t].item + ChunkLen - 1] = Behind(pusher[t].item)]
  /\ free_item_list' = pusher[t].item + 1
  /\ Goto(t, "fill")
  /\ UNCHANGED <<data, chunks, head, tail, pushed, popper, returned>>

(* Mutant of Detached: next keeps its link into the free list. *)
StillAttached(i) == next

Detached(i) == [next EXCEPT ![i] = NULL]

FillItem(t) ==
  /\ At(t, "fill")
  /\ data' = [data EXCEPT ![pusher[t].item] = pusher[t].value]
  /\ next' = Detached(pusher[t].item)
  /\ Goto(t, "link")
  /\ UNCHANGED <<chunks, free_item_list, head, tail, pushed, popper, returned>>

(* Mutant of Woken: the popping thread is not signalled. *)
NotWoken(q) == popper

Woken(q) == IF popper[q].pc = "wait" THEN [popper EXCEPT ![q] = IdlePopper] ELSE popper

(* The item becomes the last of its queue; pthread_cond_signal wakes the   *)
(* popping thread if it waits.                                             *)
LinkItem(t) ==
  /\ At(t, "link")
  /\ LET q == pusher[t].queue
         i == pusher[t].item
     IN /\ IF tail[q] # NULL
           THEN next' = [next EXCEPT ![tail[q]] = i] /\ UNCHANGED head
           ELSE head' = [head EXCEPT ![q] = i] /\ UNCHANGED next
        /\ tail' = [tail EXCEPT ![q] = i]
        /\ popper' = Woken(q)
  /\ pusher' = [pusher EXCEPT ![t] = IdlePusher]
  /\ UNCHANGED <<data, chunks, free_item_list, pushed, returned>>

-----------------------------------------------------------------------------
(* rpc_queue_pop and rpc_async_queue_pop. *)

(* The async queue is empty: the thread waits to be signalled, and looks   *)
(* again when it is.  rpc_queue_pop returns NULL and changes nothing.      *)
Wait(q) ==
  /\ popper[q].pc = "idle"
  /\ q \in Blocking
  /\ head[q] = NULL
  /\ popper' = [popper EXCEPT ![q].pc = "wait"]
  /\ UNCHANGED <<next, data, chunks, free_item_list, head, tail, pushed,
                 pusher, returned>>

UnlinkItem(q) ==
  /\ popper[q].pc = "idle"
  /\ head[q] # NULL
  /\ popper' = [popper EXCEPT ![q] =
                  [pc |-> "free", item |-> head[q], value |-> data[head[q]]]]
  /\ head' = [head EXCEPT ![q] = next[head[q]]]
  /\ tail' = [tail EXCEPT ![q] = IF next[head[q]] = NULL THEN NULL ELSE @]
  /\ UNCHANGED <<next, data, chunks, free_item_list, pushed, pusher, returned>>

(* rpc_queue_item_free. *)
FreeItem(q) ==
  /\ popper[q].pc = "free"
  /\ next' = [next EXCEPT ![popper[q].item] = free_item_list]
  /\ free_item_list' = popper[q].item
  /\ popper' = [popper EXCEPT ![q].pc = "read"]
  /\ UNCHANGED <<data, chunks, head, tail, pushed, pusher, returned>>

(* item->data is read after the item was given back. *)
ReadData(q) ==
  /\ popper[q].pc = "read"
  /\ returned' = [returned EXCEPT ![q] =
       Append(@, [unlinked |-> popper[q].value, got |-> data[popper[q].item]])]
  /\ popper' = [popper EXCEPT ![q] = IdlePopper]
  /\ UNCHANGED <<next, data, chunks, free_item_list, head, tail, pushed, pusher>>

-----------------------------------------------------------------------------
Push(t) ==
  \/ LookAtFreeList(t) \/ TakeItem(t) \/ Malloc(t) \/ ShareChunk(t)
  \/ FillItem(t) \/ LinkItem(t)

Pop(q) == Wait(q) \/ UnlinkItem(q) \/ FreeItem(q) \/ ReadData(q)

Next ==
  \/ \E t \in Pushers : \/ \E q \in Queues, v \in Values : CallPush(t, q, v)
                        \/ Push(t)
  \/ \E q \in Queues : Pop(q)

Spec == Init /\ [][Next]_vars

(* A thread that pushes comes to an end; the write thread pops for ever.   *)
Fairness ==
  /\ \A t \in Pushers : WF_vars(Push(t))
  /\ \A q \in Blocking : WF_vars(Pop(q))

FairSpec == Spec /\ Fairness
-----------------------------------------------------------------------------
(* The items reached from link i along next, at most all of them. *)
Walk ==
  LET walk[n \in 0 .. (ChunkLen * MaxChunks)] ==
        [j \in Link |->
           IF n = 0 \/ j = NULL THEN <<>> ELSE <<j>> \o walk[n - 1][next[j]]]
  IN walk

Chain(i) == Walk[ChunkLen * MaxChunks][i]

Content(q) == LET c == Chain(head[q]) IN [k \in DOMAIN c |-> data[c[k]]]

(* Types of the variables. *)
TypeOK ==
  /\ next \in [Items -> Link]
  /\ data \in [Items -> Values \cup {NULL}]
  /\ chunks \in 0 .. MaxChunks
  /\ free_item_list \in Link
  /\ head \in [Queues -> Link] /\ tail \in [Queues -> Link]
  /\ pushed \subseteq Values
  /\ pusher \in [Pushers ->
       [pc : {"idle", "look", "take", "malloc", "share", "fill", "link"},
        queue : Queues \cup {NULL}, value : Values \cup {NULL}, item : Link]]
  /\ popper \in [Queues ->
       [pc : {"idle", "wait", "free", "read"}, item : Link,
        value : Values \cup {NULL}]]
  /\ returned \in [Queues ->
       Seq([unlinked : Values \cup {NULL}, got : Values \cup {NULL}])]

(* The items a pushing thread owns: the one it fills and links, and the    *)
(* rest of the chunk until that is shared.                                 *)
Owned(t) ==
  IF pusher[t].item = NULL THEN {}
  ELSE IF At(t, "share") THEN pusher[t].item .. (pusher[t].item + ChunkLen - 1)
  ELSE {pusher[t].item}

Popped(q) == IF popper[q].pc = "free" THEN {popper[q].item} ELSE {}

(* The lists: the queues and, under the name NULL, the free items. *)
Lists == Queues \cup {NULL}
First(o) == IF o = NULL THEN free_item_list ELSE head[o]

(* Which item is in which place: at a position of a list, or in the hands  *)
(* of a thread.                                                            *)
Positions(o) == LET c == Chain(First(o)) IN {<<o, k, c[k]>> : k \in DOMAIN c}

Held ==
  (UNION {Positions(o) : o \in Lists})
  \cup (UNION {{<<t, 0, i>> : i \in Owned(t)} : t \in Pushers})
  \cup (UNION {{<<q, 0, i>> : i \in Popped(q)} : q \in Queues})

(* Every item of every chunk is in exactly one place, so no two threads    *)
(* write the same item, none is linked twice, and none leaks: the free     *)
(* list is shared by all queues, and is looked at without its lock.        *)
EachItemIsInOnePlace ==
  LET held == Held
  IN \A i \in 1 .. (chunks * ChunkLen) : Cardinality({h \in held : h[3] = i}) = 1

(* Why the items stay apart: what each thread is about to do agrees with   *)
(* the links.  A thread has an item from the time it takes it until it     *)
(* links it, the rest of its chunk is linked, and an item about to be      *)
(* linked is the end of its chain and holds its value.                     *)
PushHandAgrees(t) ==
  LET p == pusher[t] IN
  /\ p.item # NULL <=> p.pc \in {"share", "fill", "link"}
  /\ p.pc # "idle" => p.queue \in Queues /\ p.value \in Values
  /\ p.pc = "share" =>
       /\ p.item + ChunkLen - 1 \in Items
       /\ \A i \in Items : p.item < i /\ i < p.item + ChunkLen - 1 => next[i] = i + 1
  /\ p.pc = "link" => next[p.item] = NULL /\ data[p.item] = p.value

HandsAgree ==
  /\ \A t \in Pushers : PushHandAgrees(t)
  /\ \A q \in Queues : popper[q].pc \in {"free", "read"} => popper[q].item # NULL

(* The last of a list of items. *)
LastOf(c) == IF c = <<>> THEN NULL ELSE c[Len(c)]

TailsAreLast == \A q \in Queues : tail[q] = LastOf(Chain(head[q]))

(* What malloc has not returned is nowhere. *)
HeldAreMalloced == \A h \in Held : h[3] \in 1 .. (chunks * ChunkLen)

IInv ==
  /\ TypeOK /\ HandsAgree /\ TailsAreLast
  /\ EachItemIsInOnePlace /\ HeldAreMalloced

(* The queues are first in, first out, and a value is not altered while it *)
(* is linked, although the item may still be read by the thread that freed *)
(* it in its former life.                                                  *)
F == INSTANCE Fifo WITH content <- [q \in Queues |-> Content(q)]

ImplementsFifo == F!Spec

(* Every request that is pushed is taken from the queue in the end: no     *)
(* signal is missed between the look at an empty queue and the wait, and   *)
(* no item is cut off the chain.                                           *)
Taken(q) == {returned[q][k].unlinked : k \in DOMAIN returned[q]}

PushedIsTaken ==
  \A q \in Blocking, v \in Values :
    (\E t \in Pushers : pusher[t].queue = q /\ pusher[t].value = v)
      ~> (v \in Taken(q))

(* rpc_queue_pop returns the value it unlinked: the request that was       *)
(* queued is the one that is sent (doc/protocal.txt, "request->add to      *)
(* thread request queue ->select thread and notify->send request queue").  *)
PopReturnsWhatItUnlinked ==
  \A q \in Queues : \A k \in DOMAIN returned[q] :
    returned[q][k].got = returned[q][k].unlinked
=============================================================================
