-------------------------------- MODULE Fifo --------------------------------
(***************************************************************************)
(* What rpc_queue and rpc_async_queue promise: first in, first out queues  *)
(* of values, each value unaltered while it waits.                         *)
(***************************************************************************)
EXTENDS Sequences

CONSTANTS Queues, Values

VARIABLE content

Init == content = [q \in Queues |-> <<>>]

Enqueue(q, v) == content' = [content EXCEPT ![q] = Append(@, v)]

Dequeue(q) ==
  /\ content[q] # <<>>
  /\ content' = [content EXCEPT ![q] = Tail(@)]

Next == \E q \in Queues : Dequeue(q) \/ \E v \in Values : Enqueue(q, v)

Spec == Init /\ [][Next]_content
=============================================================================
