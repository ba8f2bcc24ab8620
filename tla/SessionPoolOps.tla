--------------------------- MODULE SessionPoolOps ---------------------------
(***************************************************************************)
(* The array of src/rpc_sessionpool.c and what its critical sections do to *)
(* it.  A pool is a record: data is the pointer array, size its length.    *)
(* A slot holds NULL when it is free, the pointer that was inserted, or    *)
(* Wild: a non-null word that realloc left in the part of the array which  *)
(* rpc_sessionpool_insert extends and never clears (lines 39-46).          *)
(***************************************************************************)
EXTENDS Integers

CONSTANTS NULL, Wild

Slots(p) == 0 .. (p.size - 1)

FreeSlots(p) == {i \in Slots(p) : p.data[i] = NULL}

(* rpc_sessionpool_new: calloc clears every slot. *)
NewPool(capacity) ==
  [size |-> capacity, data |-> [i \in 0 .. (capacity - 1) |-> NULL]]

(* Mutant of FirstFree: the scan does not test whether the slot is free.   *)
FirstSlot(p) == 0

(* The scan of rpc_sessionpool_insert takes the lowest free slot. *)
FirstFree(p) == CHOOSE i \in FreeSlots(p) : \A j \in FreeSlots(p) : i <= j

Stored(p, i, x) == [p EXCEPT !.data[i] = x]

(* Mutant of Doubled: the item is stored in all of the new slots. *)
DoubledFilled(p, x, junk) ==
  [size |-> 2 * p.size,
   data |-> [i \in 0 .. (2 * p.size - 1) |-> IF i < p.size THEN p.data[i] ELSE x]]

(* The array doubled, x in its first new slot; junk is what realloc left   *)
(* in the slots after it.                                                  *)
Doubled(p, x, junk) ==
  [size |-> 2 * p.size,
   data |-> [i \in 0 .. (2 * p.size - 1) |->
               IF i < p.size THEN p.data[i]
               ELSE IF i = p.size THEN x
               ELSE junk[i]]]

JunkFor(p) == [(p.size + 1) .. (2 * p.size - 1) -> {NULL, Wild}]

(* Every outcome of rpc_sessionpool_insert(p, x) when realloc succeeds:    *)
(* the slot it returns and the pool it leaves.                             *)
InsertResults(p, x) ==
  IF FreeSlots(p) # {}
  THEN {[slot |-> FirstFree(p), pool |-> Stored(p, FirstFree(p), x)]}
  ELSE {[slot |-> p.size, pool |-> Doubled(p, x, junk)] : junk \in JunkFor(p)}

(* Mutant of Removed: the slot is not cleared. *)
RemovedNothing(p, i) == p

(* rpc_sessionpool_remove clears the slot. *)
Removed(p, i) == Stored(p, i, NULL)

PoolOK(p, items) ==
  /\ p.size \in Nat \ {0}
  /\ p = [size |-> p.size, data |-> p.data]
  /\ p.data \in [Slots(p) -> items \cup {NULL, Wild}]
=============================================================================
