-------------------------- MODULE SessionPoolProofs -------------------------
(***************************************************************************)
(* The session pool is correct for any number of threads, any items, any   *)
(* initial capacity, and whether or not realloc may fail.                  *)
(*                                                                         *)
(* SlotsAreExclusive and LookupFindsItem are not inductive by themselves:  *)
(* a removal could clear the slot of an entry another thread is about to   *)
(* read.  IInv adds that a lookup works on an entry that is still out, and *)
(* that no two lookups work on the same one; and that the -1 of a failed   *)
(* insert is only about when the mutex is locked for ever.                 *)
(***************************************************************************)
EXTENDS SessionPool, WellFoundedInduction, TLAPS

-----------------------------------------------------------------------------
(* What the operators on the array of the pool do, for any items and size. *)

(* A nonempty set of slots has a lowest one. *)
LEMMA LowestExists ==
  ASSUME NEW S \in SUBSET Nat, S # {}
  PROVE  \E i \in S : \A j \in S : i <= j
<1>1. PICK i \in S : \A j \in S : <<j, i>> \notin OpToRel(<, Nat)
  BY NatLessThanWellFounded, WFMin, Zenon
<1>2. \A j \in S : ~ (j < i)
  BY <1>1, Zenon DEF OpToRel
<1>3. \A j \in S : i <= j
  BY <1>2
<1> QED
  BY <1>3

(* The scan of insert finds a slot of the array that is free. *)
LEMMA FirstFreeIsFree ==
  ASSUME NEW X, NEW p, PoolOK(p, X), FreeSlots(p) # {}
  PROVE  FirstFree(p) \in Slots(p) /\ p.data[FirstFree(p)] = NULL
<1>1. FreeSlots(p) \in SUBSET Nat
  BY DEF PoolOK, FreeSlots, Slots
<1>2. FirstFree(p) \in FreeSlots(p)
  BY <1>1, LowestExists DEF FirstFree
<1> QED
  BY <1>2 DEF FreeSlots

(* Storing in a slot changes this slot and no other. *)
LEMMA StoredIsStored ==
  ASSUME NEW X, NEW p, PoolOK(p, X), NEW i \in Slots(p), NEW x \in X \cup {NULL, Wild}
  PROVE  /\ PoolOK(Stored(p, i, x), X)
         /\ Slots(Stored(p, i, x)) = Slots(p)
         /\ Stored(p, i, x).data[i] = x
         /\ \A j \in Slots(p) : j # i => Stored(p, i, x).data[j] = p.data[j]
<1>1. Stored(p, i, x) = [size |-> p.size, data |-> [p.data EXCEPT ![i] = x]]
  BY DEF PoolOK, Stored
<1> QED
  BY <1>1 DEF PoolOK, Slots

(* Doubling keeps the old slots, puts the item in the first new one, and   *)
(* leaves no item in the others.                                           *)
LEMMA DoubledIsDoubled ==
  ASSUME NEW X, NEW p, PoolOK(p, X), NEW x \in X, NEW junk \in JunkFor(p)
  PROVE  /\ PoolOK(Doubled(p, x, junk), X)
         /\ Slots(p) \subseteq Slots(Doubled(p, x, junk))
         /\ p.size \in Slots(Doubled(p, x, junk)) \ Slots(p)
         /\ Doubled(p, x, junk).data[p.size] = x
         /\ \A j \in Slots(p) : Doubled(p, x, junk).data[j] = p.data[j]
         /\ \A j \in Slots(Doubled(p, x, junk)) \ Slots(p) :
              j # p.size => Doubled(p, x, junk).data[j] \in {NULL, Wild}
BY DEF PoolOK, Slots, Doubled, JunkFor

(* What insert leaves behind, whichever way it goes: the item sits in the  *)
(* slot that is returned, which no item was in before; the other slots     *)
(* keep what they held and no other item has appeared.                     *)
LEMMA InsertStores ==
  ASSUME NEW X, NEW p, PoolOK(p, X), NEW x \in X, NEW r \in InsertResults(p, x)
  PROVE  /\ PoolOK(r.pool, X)
         /\ Slots(p) \subseteq Slots(r.pool)
         /\ r.slot \in Slots(r.pool)
         /\ r.pool.data[r.slot] = x
         /\ r.slot \in Slots(p) => p.data[r.slot] = NULL
         /\ \A j \in Slots(p) : j # r.slot => r.pool.data[j] = p.data[j]
         /\ \A j \in Slots(r.pool) \ Slots(p) :
              j # r.slot => r.pool.data[j] \in {NULL, Wild}
<1>1. CASE FreeSlots(p) # {}
  <2>1. r = [slot |-> FirstFree(p), pool |-> Stored(p, FirstFree(p), x)]
    BY <1>1 DEF InsertResults
  <2> QED
    BY <1>1, <2>1, FirstFreeIsFree, StoredIsStored
<1>2. CASE FreeSlots(p) = {}
  <2>1. PICK junk \in JunkFor(p) : r = [slot |-> p.size, pool |-> Doubled(p, x, junk)]
    BY <1>2 DEF InsertResults
  <2> QED
    BY <2>1, DoubledIsDoubled
<1> QED
  BY <1>1, <1>2

-----------------------------------------------------------------------------
(* The inductive invariant. *)

LEMMA InitIInv == Init => IInv
<1> SUFFICES ASSUME Init PROVE IInv
  OBVIOUS
<1>1. TypeOK
  <2>1. PoolOK(pool, Items)
    BY PoolAssumption DEF Init, NewPool, PoolOK, Slots
  <2> QED
    BY <2>1, PoolAssumption DEF Init, TypeOK, NoEntry, Entries
<1> QED
  BY <1>1 DEF Init, IInv, SlotsAreExclusive, LookupFindsItem, AssertionsHold,
              CallersHoldEntries, LookingUp

(* A call of insert brings an item that nobody has. *)
LEMMA CallInsertStep ==
  ASSUME IInv, NEW t \in Threads, NEW x \in Items, CallInsert(t, x)
  PROVE  IInv'
<1> USE DEF IInv, CallInsert
<1>1. TypeOK'
  BY DEF TypeOK, Entries
<1>2. SlotsAreExclusive'
  BY DEF SlotsAreExclusive
<1>3. (LookupFindsItem /\ AssertionsHold)'
  BY DEF LookupFindsItem, AssertionsHold, TypeOK
<1>4. CallersHoldEntries'
  BY DEF CallersHoldEntries, LookingUp, TypeOK
<1> QED
  BY <1>1, <1>2, <1>3, <1>4

(* As long as the mutex is free no insert has failed, so no -1 is about    *)
(* and no assertion has failed.                                            *)
LEMMA FreeMutexNoneLost ==
  ASSUME IInv, mutex = Nobody
  PROVE  lost = {} /\ \A t \in Threads : pc[t] # "aborted"
BY DEF IInv, CallersHoldEntries, AssertionsHold

(* The insertion puts the item in a slot no entry uses, so the entries     *)
(* that are out stay where they are.                                       *)
LEMMA InsertStep ==
  ASSUME IInv, NEW t \in Threads, Insert(t)
  PROVE  IInv'
<1> USE DEF IInv, Insert
<1> DEFINE x == arg[t].item
<1>0. PICK r \in InsertResults(pool, x) :
        /\ pool' = r.pool
        /\ out' = out \cup {[slot |-> r.slot, item |-> x]}
  OBVIOUS
<1>1. x \in Items /\ PoolOK(pool, Items)
  BY DEF CallersHoldEntries, TypeOK
<1>2. /\ PoolOK(r.pool, Items)
      /\ Slots(pool) \subseteq Slots(r.pool)
      /\ r.slot \in Slots(r.pool)
      /\ r.pool.data[r.slot] = x
      /\ r.slot \in Slots(pool) => pool.data[r.slot] = NULL
      /\ \A j \in Slots(pool) : j # r.slot => r.pool.data[j] = pool.data[j]
  BY <1>1, InsertStores
<1>3. r.slot \in Int
  BY <1>2 DEF PoolOK, Slots
<1>4. TypeOK'
  <2>1. out' \subseteq Entries
    BY <1>0, <1>1, <1>3 DEF TypeOK, Entries
  <2> QED
    BY <1>0, <1>2, <2>1 DEF TypeOK, NoEntry, Entries
<1>5. \A e \in out : /\ e.slot \in Slots(pool) /\ e.slot # r.slot
                     /\ r.pool.data[e.slot] = e.item
  BY <1>2, PoolAssumption DEF SlotsAreExclusive, CallersHoldEntries
<1>6. SlotsAreExclusive'
  <2> SUFFICES ASSUME NEW e \in out', NEW f \in out'
               PROVE  /\ e.slot \in Slots(pool') /\ pool'.data[e.slot] = e.item
                      /\ e.slot = f.slot => e = f
    BY DEF SlotsAreExclusive
  <2>1. e.slot \in Slots(pool') /\ pool'.data[e.slot] = e.item
    BY <1>0, <1>2, <1>5
  <2>2. ASSUME e.slot = f.slot PROVE e = f
    BY <2>2, <1>0, <1>5 DEF SlotsAreExclusive
  <2> QED
    BY <2>1, <2>2
<1>7. (LookupFindsItem /\ AssertionsHold)'
  BY FreeMutexNoneLost DEF LookupFindsItem, AssertionsHold, TypeOK
<1>8. CallersHoldEntries'
  BY <1>0, <1>1, FreeMutexNoneLost DEF CallersHoldEntries, LookingUp, TypeOK
<1> QED
  BY <1>4, <1>6, <1>7, <1>8

(* A failed realloc changes nothing in the pool, in which no slot is free. *)
LEMMA InsertFailsStep ==
  ASSUME IInv, NEW t \in Threads, InsertFails(t)
  PROVE  IInv'
<1> USE DEF IInv, InsertFails
<1>1. TypeOK'
  BY DEF TypeOK, NoEntry, Entries
<1>2. SlotsAreExclusive'
  BY DEF SlotsAreExclusive
<1>3. (LookupFindsItem /\ AssertionsHold)'
  BY FreeMutexNoneLost DEF LookupFindsItem, AssertionsHold, TypeOK
<1>4. CallersHoldEntries'
  <2>1. mutex' # Nobody /\ FreeSlots(pool') = {}
    BY PoolAssumption
  <2>2. \A e \in lost' : e.slot = -1
    BY FreeMutexNoneLost
  <2> QED
    BY <2>1, <2>2 DEF CallersHoldEntries, LookingUp, TypeOK
<1> QED
  BY <1>1, <1>2, <1>3, <1>4

(* The assertions hold for an entry that is out. *)
LEMMA CallGetOfOut ==
  ASSUME IInv, NEW t \in Threads, NEW e \in out, CallGet(t, e)
  PROVE  IInv'
<1> USE DEF IInv, CallGet
<1>1. e \in Entries /\ e.slot >= 0 /\ e.slot < pool.size
  BY DEF SlotsAreExclusive, TypeOK, Slots, PoolOK, Entries
<1>2. pc' = [pc EXCEPT ![t] = "get"]
  BY <1>1
<1>3. TypeOK'
  BY <1>1, <1>2 DEF TypeOK
<1>4. SlotsAreExclusive'
  BY DEF SlotsAreExclusive
<1>5. (LookupFindsItem /\ AssertionsHold)'
  BY <1>2 DEF LookupFindsItem, AssertionsHold, TypeOK
<1>6. CallersHoldEntries'
  BY <1>2 DEF CallersHoldEntries, LookingUp, TypeOK
<1> QED
  BY <1>3, <1>4, <1>5, <1>6

(* The first one fails for the -1 of a failed insert. *)
LEMMA CallGetOfLost ==
  ASSUME IInv, NEW t \in Threads, NEW e \in lost, CallGet(t, e)
  PROVE  IInv'
<1> USE DEF IInv, CallGet
<1>1. e \in Entries /\ e.slot = -1 /\ FreeSlots(pool) = {}
  BY DEF CallersHoldEntries, TypeOK
<1>2. pc' = [pc EXCEPT ![t] = "aborted"]
  BY <1>1
<1>3. TypeOK'
  BY <1>1, <1>2 DEF TypeOK
<1>4. SlotsAreExclusive'
  BY DEF SlotsAreExclusive
<1>5. LookupFindsItem'
  BY <1>2 DEF LookupFindsItem, TypeOK
<1>6. AssertionsHold'
  <2> SUFFICES ASSUME NEW u \in Threads, pc'[u] = "aborted"
               PROVE  arg'[u] \in lost /\ arg'[u].slot = -1
    BY <1>1 DEF AssertionsHold
  <2>1. CASE u = t
    BY <1>1, <2>1 DEF TypeOK
  <2>2. CASE u # t
    BY <1>2, <2>2 DEF AssertionsHold, TypeOK
  <2> QED
    BY <2>1, <2>2
<1>7. CallersHoldEntries'
  BY <1>2 DEF CallersHoldEntries, LookingUp, TypeOK
<1> QED
  BY <1>3, <1>4, <1>5, <1>6, <1>7

LEMMA CallGetStep ==
  ASSUME IInv, NEW t \in Threads, NEW e \in out \cup lost, CallGet(t, e)
  PROVE  IInv'
BY CallGetOfOut, CallGetOfLost

(* The entry looked up is out, so its slot holds its item. *)
LEMMA GetStep ==
  ASSUME IInv, NEW t \in Threads, Get(t)
  PROVE  IInv'
<1> USE DEF IInv, Get
<1>1. arg[t] \in out /\ pool.data[arg[t].slot] = arg[t].item /\ arg[t].item \in Items
  BY DEF CallersHoldEntries, LookingUp, SlotsAreExclusive
<1>2. TypeOK'
  BY <1>1 DEF TypeOK
<1>3. SlotsAreExclusive'
  BY DEF SlotsAreExclusive
<1>4. (LookupFindsItem /\ AssertionsHold)'
  BY <1>1 DEF LookupFindsItem, AssertionsHold, TypeOK
<1>5. CallersHoldEntries'
  BY DEF CallersHoldEntries, LookingUp, TypeOK
<1> QED
  BY <1>2, <1>3, <1>4, <1>5

(* A removal clears a slot that no other entry uses. *)
LEMMA RemoveStep ==
  ASSUME IInv, NEW t \in Threads, Remove(t)
  PROVE  IInv'
<1> USE DEF IInv, Remove
<1>1. arg[t] \in out /\ arg[t].slot \in Slots(pool) /\ PoolOK(pool, Items)
  BY DEF CallersHoldEntries, LookingUp, SlotsAreExclusive, TypeOK
<1>2. /\ PoolOK(pool', Items)
      /\ Slots(pool') = Slots(pool)
      /\ \A j \in Slots(pool) : j # arg[t].slot => pool'.data[j] = pool.data[j]
  BY <1>1, StoredIsStored DEF Removed
<1>3. TypeOK'
  BY <1>2 DEF TypeOK, NoEntry, Entries
<1>4. SlotsAreExclusive'
  <2>1. \A e \in out' : e \in out /\ e.slot # arg[t].slot
    BY <1>1 DEF SlotsAreExclusive
  <2> QED
    BY <1>2, <2>1 DEF SlotsAreExclusive
<1>5. (LookupFindsItem /\ AssertionsHold)'
  BY FreeMutexNoneLost DEF LookupFindsItem, AssertionsHold, TypeOK
<1>6. CallersHoldEntries'
  BY FreeMutexNoneLost DEF CallersHoldEntries, LookingUp, TypeOK
<1> QED
  BY <1>3, <1>4, <1>5, <1>6

(* IInv is inductive. *)
THEOREM IInvHolds == Spec => []IInv
<1>1. IInv /\ [Next]_vars => IInv'
  <2> SUFFICES ASSUME IInv, [Next]_vars PROVE IInv'
    OBVIOUS
  <2>1. CASE UNCHANGED vars
    BY <2>1 DEF vars, IInv, TypeOK, SlotsAreExclusive, LookupFindsItem,
                AssertionsHold, CallersHoldEntries, LookingUp
  <2>2. CASE Next
    BY <2>2, CallInsertStep, InsertStep, InsertFailsStep, CallGetStep,
       GetStep, RemoveStep DEF Next
  <2> QED
    BY <2>1, <2>2
<1> QED
  BY <1>1, InitIInv, PTL DEF Spec

(* The types of the pool (TypeOK), whatever its callers do. *)
THEOREM TypeCorrect == Spec => []TypeOK
<1>1. IInv => TypeOK
  BY DEF IInv
<1> QED
  BY <1>1, IInvHolds, PTL

(* A slot number that insert returned identifies its item until it is      *)
(* removed (SlotsAreExclusive), whatever is inserted, removed or grown in  *)
(* between: the sequence number of a request is unique among the requests  *)
(* that are waiting for their response.                                    *)
THEOREM SlotNumbersAreUnique == Spec => []SlotsAreExclusive
<1>1. IInv => SlotsAreExclusive
  BY DEF IInv
<1> QED
  BY <1>1, IInvHolds, PTL

(* A lookup returns the item that the number was handed out for            *)
(* (LookupFindsItem), although the size is read without the mutex.         *)
THEOREM LookupsFindTheirItem == Spec => []LookupFindsItem
<1>1. IInv => LookupFindsItem
  BY DEF IInv
<1> QED
  BY <1>1, IInvHolds, PTL

(* The assertions of rpc_sessionpool_get fail on no number but the -1 of   *)
(* an insert whose realloc failed (AssertionsHold): every number of a slot *)
(* passes them, though pool->size is read without the mutex.               *)
THEOREM AssertionsFailForLostOnly == Spec => []AssertionsHold
<1>1. IInv => AssertionsHold
  BY DEF IInv
<1> QED
  BY <1>1, IInvHolds, PTL

-----------------------------------------------------------------------------
(* The pool implements the slot table. *)

(* An insertion is an insertion in the table: the garbage realloc leaves   *)
(* in the array never shows as an entry.                                   *)
LEMMA InsertIsTableInsert ==
  ASSUME IInv, NEW t \in Threads, Insert(t)
  PROVE  Table!Insert
<1> DEFINE x == arg[t].item
<1>0. PICK r \in InsertResults(pool, x) : pool' = r.pool
  BY DEF Insert
<1>1. x \in Items /\ PoolOK(pool, Items)
  BY DEF IInv, CallersHoldEntries, TypeOK, Insert
<1>2. /\ PoolOK(r.pool, Items)
      /\ Slots(pool) \subseteq Slots(r.pool)
      /\ r.slot \in Slots(r.pool)
      /\ r.pool.data[r.slot] = x
      /\ r.slot \in Slots(pool) => pool.data[r.slot] = NULL
      /\ \A j \in Slots(pool) : j # r.slot => r.pool.data[j] = pool.data[j]
      /\ \A j \in Slots(r.pool) \ Slots(pool) :
           j # r.slot => r.pool.data[j] \in {NULL, Wild}
  BY <1>1, InsertStores
<1>3. <<r.slot, x>> \in Nat \X Items
  BY <1>1, <1>2 DEF PoolOK, Slots
<1>4. \A o \in Entered : o[1] # r.slot
  BY <1>2, PoolAssumption DEF Entered
<1>5. Entered' = Entered \cup {<<r.slot, x>>}
  <2>1. ASSUME NEW i \in Slots(r.pool), r.pool.data[i] \in Items
        PROVE  <<i, r.pool.data[i]>> \in Entered \cup {<<r.slot, x>>}
    <3>1. CASE i = r.slot
      BY <1>2, <3>1
    <3>2. CASE i # r.slot
      <4>1. i \in Slots(pool) /\ r.pool.data[i] = pool.data[i]
        BY <1>2, <2>1, <3>2, PoolAssumption
      <4> QED
        BY <2>1, <4>1 DEF Entered
    <3> QED
      BY <3>1, <3>2
  <2>2. ASSUME NEW i \in Slots(pool), pool.data[i] \in Items
        PROVE  <<i, pool.data[i]>> \in Entered'
    <3>1. i # r.slot
      BY <1>2, <2>2, PoolAssumption
    <3>2. i \in Slots(pool') /\ pool'.data[i] = pool.data[i]
      BY <1>0, <1>2, <3>1
    <3> QED
      BY <2>2, <3>2 DEF Entered
  <2>3. <<r.slot, x>> \in Entered'
    BY <1>0, <1>1, <1>2 DEF Entered
  <2> QED
    BY <1>0, <2>1, <2>2, <2>3 DEF Entered
<1> QED
  BY <1>3, <1>4, <1>5 DEF Table!Insert

(* A removal vacates one slot of the table. *)
LEMMA RemoveIsTableRemove ==
  ASSUME IInv, NEW t \in Threads, Remove(t)
  PROVE  Table!Remove
<1> DEFINE s == arg[t].slot
           e == <<s, pool.data[s]>>
<1>1. /\ PoolOK(pool, Items)
      /\ s \in Slots(pool)
      /\ pool.data[s] \in Items
  BY DEF IInv, TypeOK, CallersHoldEntries, LookingUp, SlotsAreExclusive, Remove
<1>2. /\ Slots(pool') = Slots(pool)
      /\ pool'.data[s] = NULL
      /\ \A j \in Slots(pool) : j # s => pool'.data[j] = pool.data[j]
  BY <1>1, StoredIsStored DEF Removed, Remove
<1>3. e \in Entered
  BY <1>1 DEF Entered
<1>4. Entered' = Entered \ {e}
  BY <1>1, <1>2, PoolAssumption DEF Entered
<1> QED
  BY <1>3, <1>4 DEF Table!Remove

(* Every behaviour of the pool is one of the slot table                    *)
(* (ImplementsSlotTable): inserting and removing are all that happens to   *)
(* the array, and neither disturbs the entry of another caller.            *)
THEOREM PoolImplementsSlotTable == Spec => ImplementsSlotTable
<1>1. Init => Table!Init
  BY PoolAssumption DEF Init, Table!Init, Entered, NewPool, Slots
<1>2. IInv /\ [Next]_vars => [Table!Next]_Entered
  <2> SUFFICES ASSUME IInv, [Next]_vars PROVE Table!Next \/ UNCHANGED Entered
    OBVIOUS
  <2>1. CASE UNCHANGED pool
    BY <2>1 DEF Entered, Slots
  <2>2. ASSUME NEW t \in Threads, Insert(t) PROVE Table!Next
    BY <2>2, InsertIsTableInsert DEF Table!Next
  <2>3. ASSUME NEW t \in Threads, Remove(t) PROVE Table!Next
    BY <2>3, RemoveIsTableRemove DEF Table!Next
  <2> QED
    BY <2>1, <2>2, <2>3
       DEF Next, vars, CallInsert, InsertFails, CallGet, Get
<1> QED
  BY <1>1, <1>2, IInvHolds, PTL DEF Spec, Table!Spec, ImplementsSlotTable

(* A failed realloc takes the pool out of service (FailureIsFinal): every  *)
(* access to it waits for the mutex that was left locked, and no other     *)
(* insert returns -1.                                                      *)
THEOREM FailedPoolIsFinal == Spec => FailureIsFinal
<1>1. [Next]_vars => [mutex # Nobody => UNCHANGED <<pool, mutex, out, got, lost>>]_vars
  BY DEF Next, vars, CallInsert, Insert, InsertFails, CallGet, Get, Remove
<1> QED
  BY <1>1, PTL DEF Spec, FailureIsFinal
=============================================================================
