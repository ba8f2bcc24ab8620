---------------------------- MODULE SessionPool -----------------------------
(***************************************************************************)
(* rpc_sessionpool.c as the threads of a client thread use it: a mutex     *)
(* around an array of pointers.  The write thread inserts a request and    *)
(* sends the returned slot number as the request's sequence number; the    *)
(* read thread looks the number of a response up and then removes it       *)
(* (rpc_thread.c:191, rpc_conn.c:264-272).                                 *)
(*                                                                         *)
(* A critical section is one step.  What the code does outside the mutex   *)
(* is a step of its own: the assertions of rpc_sessionpool_get read        *)
(* pool->size before they lock, so another thread can double the array     *)
(* between the assertion and the read of the slot.                         *)
(*                                                                         *)
(* An insert whose realloc fails returns -1, which the write thread takes  *)
(* for a number like any other and sends; the response comes back with it  *)
(* and is looked up under it.                                              *)
(***************************************************************************)
EXTENDS SessionPoolOps

CONSTANTS
  Threads,   \* the threads that share the pool
  Items,     \* the pointers inserted, none of them NULL or Wild
  Capacity,  \* POOLCAPACITY
  MayFail,   \* whether realloc may return NULL
  Nobody     \* the owner of a free mutex

ASSUME PoolAssumption ==
  /\ NULL \notin Items /\ Wild \notin Items /\ NULL # Wild
  /\ Capacity \in Nat \ {0}
  /\ MayFail \in BOOLEAN
  /\ Nobody \notin Threads

VARIABLES
  pool,     \* data and size
  mutex,    \* the thread that holds pool->mutex, or Nobody
  pc,       \* where each thread is
  arg,      \* the entry a thread works on: [slot, item]
  got,      \* what rpc_sessionpool_get read for the thread
  out,      \* the entries handed out by insert and not yet removed
  lost      \* the entry handed out by the insert that failed, if one did

vars == <<pool, mutex, pc, arg, got, out, lost>>

Entries == [slot : Int, item : Items \cup {NULL}]

NoEntry == [slot |-> -1, item |-> NULL]

Init ==
  /\ pool = NewPool(Capacity)
  /\ mutex = Nobody
  /\ pc = [t \in Threads |-> "idle"]
  /\ arg = [t \in Threads |-> NoEntry]
  /\ got = [t \in Threads |-> NULL]
  /\ out = {} /\ lost = {}

(* The items some thread is inserting or that were inserted: a request is  *)
(* not inserted again before it was removed (RequestsAreOwnedOnce of       *)
(* RpcCall, with its exception).                                           *)
Busy(x) == (\E e \in out \cup lost : e.item = x) \/ (\E t \in Threads : arg[t].item = x)

(* rpc_sessionpool_insert(pool, x) is called.                              *)
CallInsert(t, x) ==
  /\ pc[t] = "idle"
  /\ ~ Busy(x)
  /\ arg' = [arg EXCEPT ![t] = [slot |-> -1, item |-> x]]
  /\ pc' = [pc EXCEPT ![t] = "insert"]
  /\ UNCHANGED <<pool, mutex, got, out, lost>>

(* Its critical section: a free slot is found or the array is doubled, and *)
(* the mutex is released.                                                  *)
Insert(t) ==
  /\ pc[t] = "insert"
  /\ mutex = Nobody
  /\ \E r \in InsertResults(pool, arg[t].item) :
       /\ pool' = r.pool
       /\ out' = out \cup {[slot |-> r.slot, item |-> arg[t].item]}
  /\ arg' = [arg EXCEPT ![t] = NoEntry]
  /\ pc' = [pc EXCEPT ![t] = "idle"]
  /\ UNCHANGED <<mutex, got, lost>>

(* The critical section when the array is full and realloc fails: -1 is    *)
(* returned with the mutex still locked, and goes round like the number of *)
(* a slot.                                                                 *)
InsertFails(t) ==
  /\ pc[t] = "insert"
  /\ mutex = Nobody
  /\ MayFail
  /\ FreeSlots(pool) = {}
  /\ mutex' = t
  /\ lost' = lost \cup {[slot |-> -1, item |-> arg[t].item]}
  /\ arg' = [arg EXCEPT ![t] = NoEntry]
  /\ pc' = [pc EXCEPT ![t] = "idle"]
  /\ UNCHANGED <<pool, got, out>>

(* Mutants of CallGet: assert(index > 0); two threads look one entry up.   *)
CallGetAbove0(t, e) ==
  /\ pc[t] = "idle"
  /\ \A u \in Threads : arg[u] # e
  /\ arg' = [arg EXCEPT ![t] = e]
  /\ pc' = [pc EXCEPT ![t] = IF e.slot > 0 /\ e.slot < pool.size
                             THEN "get" ELSE "aborted"]
  /\ UNCHANGED <<pool, mutex, got, out, lost>>

CallGetShared(t, e) ==
  /\ pc[t] = "idle"
  /\ arg' = [arg EXCEPT ![t] = e]
  /\ pc' = [pc EXCEPT ![t] = "get"]
  /\ UNCHANGED <<pool, mutex, got, out, lost>>

(* rpc_sessionpool_get(pool, e.slot) up to its assertions, which read      *)
(* pool->size without the mutex.  A response comes once, so two threads    *)
(* never look up the same entry.  An assertion that fails ends the process.*)
CallGet(t, e) ==
  /\ pc[t] = "idle"
  /\ \A u \in Threads : arg[u] # e
  /\ arg' = [arg EXCEPT ![t] = e]
  /\ pc' = [pc EXCEPT ![t] = IF e.slot >= 0 /\ e.slot < pool.size
                             THEN "get" ELSE "aborted"]
  /\ UNCHANGED <<pool, mutex, got, out, lost>>

(* Mutants of Get: the number is taken modulo the initial capacity; the    *)
(* mutex is not locked.                                                    *)
GetModulo(t) ==
  /\ pc[t] = "get"
  /\ mutex = Nobody
  /\ got' = [got EXCEPT ![t] = pool.data[arg[t].slot % Capacity]]
  /\ pc' = [pc EXCEPT ![t] = "remove"]
  /\ UNCHANGED <<pool, mutex, arg, out, lost>>

GetUnlocked(t) ==
  /\ pc[t] = "get"
  /\ got' = [got EXCEPT ![t] = pool.data[arg[t].slot]]
  /\ pc' = [pc EXCEPT ![t] = "remove"]
  /\ UNCHANGED <<pool, mutex, arg, out, lost>>

(* The critical section of rpc_sessionpool_get.                            *)
Get(t) ==
  /\ pc[t] = "get"
  /\ mutex = Nobody
  /\ got' = [got EXCEPT ![t] = pool.data[arg[t].slot]]
  /\ pc' = [pc EXCEPT ![t] = "remove"]
  /\ UNCHANGED <<pool, mutex, arg, out, lost>>

(* Mutant of Remove: the mutex is not unlocked. *)
RemoveKeepsLock(t) ==
  /\ pc[t] = "remove"
  /\ mutex = Nobody
  /\ pool' = Removed(pool, arg[t].slot)
  /\ out' = out \ {arg[t]}
  /\ arg' = [arg EXCEPT ![t] = NoEntry]
  /\ got' = [got EXCEPT ![t] = NULL]
  /\ pc' = [pc EXCEPT ![t] = "idle"]
  /\ mutex' = t
  /\ UNCHANGED lost

(* rpc_sessionpool_remove(pool, slot), called by the thread that looked    *)
(* the slot up.                                                            *)
Remove(t) ==
  /\ pc[t] = "remove"
  /\ mutex = Nobody
  /\ pool' = Removed(pool, arg[t].slot)
  /\ out' = out \ {arg[t]}
  /\ arg' = [arg EXCEPT ![t] = NoEntry]
  /\ got' = [got EXCEPT ![t] = NULL]
  /\ pc' = [pc EXCEPT ![t] = "idle"]
  /\ UNCHANGED <<mutex, lost>>

Running == \A t \in Threads : pc[t] # "aborted"

Next ==
  /\ Running
  /\ \E t \in Threads :
       \/ \E x \in Items : CallInsert(t, x)
       \/ Insert(t)
       \/ InsertFails(t)
       \/ \E e \in out \cup lost : CallGet(t, e)
       \/ Get(t)
       \/ Remove(t)

Spec == Init /\ [][Next]_vars

(* A thread inside an operation keeps running: the critical sections are   *)
(* short and end.  Nobody is obliged to call.                              *)
Fairness ==
  \A t \in Threads :
    /\ WF_vars(Running /\ Insert(t))
    /\ WF_vars(Running /\ Get(t))
    /\ WF_vars(Running /\ Remove(t))

FairSpec == Spec /\ Fairness

-----------------------------------------------------------------------------
(* Types of the variables. *)
TypeOK ==
  /\ PoolOK(pool, Items)
  /\ mutex \in Threads \cup {Nobody}
  /\ pc \in [Threads -> {"idle", "insert", "get", "remove", "aborted"}]
  /\ arg \in [Threads -> Entries]
  /\ got \in [Threads -> Items \cup {NULL, Wild}]
  /\ out \subseteq Entries /\ lost \subseteq Entries

(* A slot number that insert returned identifies its item until it is      *)
(* removed, whatever the other threads insert, remove or grow meanwhile:   *)
(* no two entries share a slot and the array still holds the item there.   *)
SlotsAreExclusive ==
  \A e, f \in out :
    /\ e.slot \in Slots(pool) /\ pool.data[e.slot] = e.item
    /\ e.slot = f.slot => e = f

(* A lookup returns the item the slot number was handed out for, although  *)
(* the array may be doubled between the assertion and the read.            *)
LookupFindsItem == \A t \in Threads : pc[t] = "remove" => got[t] = arg[t].item

(* assert(index >= 0) and assert(index < pool->size) hold for every number *)
(* of a slot insert handed out, whatever was read of pool->size without    *)
(* the mutex.  The one number that fails them, and ends the process, is    *)
(* the -1 of an insert whose realloc failed, when no slot was free         *)
(* (rpc_sessionpool.c:42, unchecked at rpc_thread.c:191).                  *)
AssertionsHold ==
  \A t \in Threads : pc[t] = "aborted" =>
    arg[t] \in lost /\ arg[t].slot = -1 /\ FreeSlots(pool) = {}

(* A realloc failure takes the whole pool out of service: the mutex stays  *)
(* locked, and no thread ever reads or writes a slot again.  Only one      *)
(* insert can fail, and only its -1 is ever handed out.                    *)
FailureIsFinal ==
  [][mutex # Nobody => UNCHANGED <<pool, mutex, out, got, lost>>]_vars

(* Every call on the pool returns, as long as no realloc fails: a failed   *)
(* one can only happen when no slot is free.  No assertion ends it before. *)
CallsReturn ==
  \A t \in Threads :
    pc[t] # "idle" ~> (pc[t] = "idle" \/ (mutex # Nobody /\ FreeSlots(pool) = {}))

(* Why the slots stay exclusive: whoever looks an entry up works on one    *)
(* that is still out, and on one that nobody else works on.                *)
LookingUp(t) == pc[t] \in {"get", "remove"}

CallersHoldEntries ==
  /\ \A e \in out : e.item \in Items
  /\ \A t \in Threads : pc[t] = "insert" => arg[t].item \in Items
  /\ \A t \in Threads : LookingUp(t) => arg[t] \in out
  /\ \A e \in lost : e.slot = -1
  /\ lost # {} => mutex # Nobody /\ FreeSlots(pool) = {}
  /\ \A t, u \in Threads : LookingUp(t) /\ LookingUp(u) /\ t # u => arg[t] # arg[u]

IInv ==
  /\ TypeOK
  /\ SlotsAreExclusive
  /\ LookupFindsItem
  /\ AssertionsHold
  /\ CallersHoldEntries

(* The pool implements the slot table: the entries of the table are the    *)
(* slots of the array that hold an item; the words realloc left in the     *)
(* array never count as entries.                                           *)
Entered == {<<i, pool.data[i]>> : i \in {j \in Slots(pool) : pool.data[j] \in Items}}

Table == INSTANCE SlotTable WITH table <- Entered

ImplementsSlotTable == Table!Spec
=============================================================================
