------------------------------ MODULE Registry ------------------------------
(***************************************************************************)
(* The service registry: the hash table a server looks its services up in. *)
(* One thread registers services (sample/testserver.c registers after      *)
(* rpc_server_start) while the workers search the table, without a lock.   *)
(*                                                                         *)
(* An array of buckets is known by the index of its size in primes; a      *)
(* bucket is the chain of its entries, and an entry is its service.  The   *)
(* steps are the loads of a search and the stores of an insert that a      *)
(* search can tell apart.                                                  *)
(***************************************************************************)
EXTENDS Integers, Sequences, FiniteSets, Functions

CONSTANTS
  Services,  \* what is registered
  KeyOf,     \* "method@service" of each; two services may have the same
  HashOf,    \* the hash value of each key
  Sizes,     \* primes
  Workers,   \* the threads that search
  NULL,
  Undefined  \* what is read in memory that has been freed

Keys == Range(KeyOf)

ASSUME RegistryAssumption ==
  /\ IsFiniteSet(Services)
  /\ KeyOf \in [Services -> Keys] /\ HashOf \in [Keys -> Nat]
  /\ Sizes # <<>> /\ Sizes \in Seq(Nat \ {0})
  /\ \A i \in 1 .. Len(Sizes), j \in 1 .. Len(Sizes) : i < j => Sizes[i] < Sizes[j]
  /\ NULL \notin Services /\ Undefined \notin Services /\ NULL # Undefined

Arrays == 1 .. Len(Sizes)

VARIABLES
  array,        \* the buckets of each array
  table,        \* h->table
  tablelength,  \* h->tablelength
  primeindex,   \* h->primeindex
  entrycount,   \* h->entrycount
  registrar,    \* the registering thread: pc and the service it registers
  tried,        \* the services whose registration has begun
  registered,   \* the services whose registration has ended with an entry
  lookup,       \* the search of each worker
  crashed       \* memset was given what an unset bucket held

tableVars == <<array, table, tablelength, primeindex, entrycount>>
vars == <<tableVars, registrar, tried, registered, lookup, crashed>>

IndexFor(length, k) == HashOf[k] % length

LoadLimit(length) == (length * 65 + 99) \div 100

EmptyArray(p) == [i \in 0 .. (Sizes[p] - 1) |-> <<>>]

NoLookup == [pc |-> "idle", key |-> NULL, index |-> 0, array |-> 0, entry |-> NULL,
             had |-> {}, raced |-> FALSE]

(* create_hashtable takes the first size; minsize is 16 and primes[0] 53. *)
Init ==
  /\ array = [p \in Arrays |-> EmptyArray(p)]
  /\ table = 1 /\ tablelength = Sizes[1] /\ primeindex = 1
  /\ entrycount = 0
  /\ registrar = [pc |-> "idle", service |-> NULL]
  /\ tried = {} /\ registered = {}
  /\ lookup = [w \in Workers |-> NoLookup]
  /\ crashed = FALSE

-----------------------------------------------------------------------------
(* rpc_server_regservice: hashtable_insert and hashtable_expand. *)

Goto(pc) == registrar' = [registrar EXCEPT !.pc = pc]

RegService(s) ==
  /\ registrar.pc = "idle" /\ s \notin tried
  /\ tried' = tried \cup {s}
  /\ entrycount' = entrycount + 1
  /\ registrar' = [service |-> s,
       pc |-> IF entrycount' > LoadLimit(tablelength) THEN "expand" ELSE "link"]
  /\ UNCHANGED <<array, table, tablelength, primeindex, registered, lookup, crashed>>

(* A search is raced when it and an expansion overlap. *)
Expanding == registrar.pc \in {"move", "swap", "resize"}

(* Mutant of CanGrow: one size too many. *)
CanGrowOnceMore == primeindex <= Len(Sizes)

CanGrow == primeindex < Len(Sizes)

Expand ==
  /\ registrar.pc = "expand" /\ CanGrow
  /\ primeindex' = primeindex + 1
  /\ Goto("move")
  /\ lookup' = [w \in Workers |->
       [lookup[w] EXCEPT !.raced = lookup[w].pc # "idle"]]
  /\ UNCHANGED <<array, table, tablelength, entrycount, tried, registered, crashed>>

(* The table has its largest size, or both malloc and realloc failed: the  *)
(* insert goes on with the array it has.                                   *)
ExpandFails ==
  /\ registrar.pc = "expand"
  /\ Goto("link")
  /\ UNCHANGED <<tableVars, tried, registered, lookup, crashed>>

(* malloc failed and realloc did not: memset takes the content of the      *)
(* first new bucket for its address.                                       *)
ExpandInPlace ==
  /\ registrar.pc = "expand" /\ CanGrow
  /\ crashed' = TRUE
  /\ UNCHANGED <<tableVars, registrar, tried, registered, lookup>>

Filled(p) == {i \in DOMAIN array[p] : array[p][i] # <<>>}

(* Mutant of NewIndex: the bucket is kept. *)
OldIndex(s, i) == i

NewIndex(s, i) == IndexFor(Sizes[primeindex], KeyOf[s])

(* The first entry of the first bucket that has one is moved to the front  *)
(* of its bucket in the new array.                                         *)
MoveEntry ==
  /\ registrar.pc = "move"
  /\ \E i \in Filled(table) :
       /\ \A j \in Filled(table) : i <= j
       /\ LET s == Head(array[table][i]) IN
            array' = [array EXCEPT ![table][i] = Tail(@),
                                   ![primeindex][NewIndex(s, i)] = <<s>> \o @]
  /\ UNCHANGED <<table, tablelength, primeindex, entrycount, registrar, tried,
                 registered, lookup, crashed>>

FreeTable ==
  /\ registrar.pc = "move" /\ Filled(table) = {}
  /\ Goto("swap")
  /\ UNCHANGED <<tableVars, tried, registered, lookup, crashed>>

SwapTable ==
  /\ registrar.pc = "swap"
  /\ table' = primeindex
  /\ Goto("resize")
  /\ UNCHANGED <<array, tablelength, primeindex, entrycount, tried, registered,
                 lookup, crashed>>

Resize ==
  /\ registrar.pc = "resize"
  /\ tablelength' = Sizes[primeindex]
  /\ Goto("link")
  /\ UNCHANGED <<array, table, primeindex, entrycount, tried, registered, lookup,
                 crashed>>

(* Mutant of PutInFront: the bucket is overwritten. *)
PutInstead(s, chain) == <<s>>

PutInFront(s, chain) == <<s>> \o chain

Link ==
  /\ registrar.pc = "link"
  /\ LET s == registrar.service IN
       /\ array' = [array EXCEPT
            ![table][IndexFor(tablelength, KeyOf[s])] = PutInFront(s, @)]
       /\ registered' = registered \cup {s}
  /\ Goto("idle")
  /\ UNCHANGED <<table, tablelength, primeindex, entrycount, tried, lookup, crashed>>

(* No memory for the entry; nobody looks at what hashtable_insert returns. *)
LinkFails ==
  /\ registrar.pc = "link"
  /\ entrycount' = entrycount - 1
  /\ Goto("idle")
  /\ UNCHANGED <<array, table, tablelength, primeindex, tried, registered, lookup,
                 crashed>>

Registrar ==
  \/ \E s \in Services : RegService(s)
  \/ Expand \/ ExpandFails \/ ExpandInPlace
  \/ MoveEntry \/ FreeTable \/ SwapTable \/ Resize \/ Link \/ LinkFails

-----------------------------------------------------------------------------
(* rpc_hash_table_lookup, called by cb_req_read: hashtable_search. *)

Search(w, k) ==
  /\ lookup[w].pc = "idle"
  /\ lookup' = [lookup EXCEPT ![w] =
       [NoLookup EXCEPT !.pc = "table", !.key = k,
                        !.index = IndexFor(tablelength, k), !.raced = Expanding,
                        !.had = {s \in registered : KeyOf[s] = k}]]
  /\ UNCHANGED <<tableVars, registrar, tried, registered, crashed>>

LoadTable(w) ==
  /\ lookup[w].pc = "table"
  /\ lookup' = [lookup EXCEPT ![w].array = table, ![w].pc = "bucket"]
  /\ UNCHANGED <<tableVars, registrar, tried, registered, crashed>>

Freed(p) == p < table \/ (p = table /\ registrar.pc = "swap")

LoadBucket(w) ==
  /\ lookup[w].pc = "bucket"
  /\ LET chain == array[lookup[w].array][lookup[w].index] IN
       lookup' = [lookup EXCEPT ![w].pc = "walk", ![w].entry =
         IF Freed(lookup[w].array) THEN Undefined
         ELSE IF chain = <<>> THEN NULL ELSE Head(chain)]
  /\ UNCHANGED <<tableVars, registrar, tried, registered, crashed>>

Found(w) == LET e == lookup[w].entry IN
  e \in Services => KeyOf[e] = lookup[w].key

(* Mutant of NextOf: the search does not go on. *)
SameEntry(e) == e

(* e->next: the entry after e in the chain that e is in now. *)
NextOf(e) ==
  LET pairs == UNION {UNION {{<<array[p][i][j], array[p][i][j + 1]>> :
                 j \in 1 .. (Len(array[p][i]) - 1)} :
                 i \in DOMAIN array[p]} : p \in Arrays}
      after == {q[2] : q \in {r \in pairs : r[1] = e}}
  IN IF after = {} THEN NULL ELSE CHOOSE x \in after : TRUE

Walk(w) ==
  /\ lookup[w].pc = "walk" /\ ~ Found(w)
  /\ lookup' = [lookup EXCEPT ![w].entry = NextOf(@)]
  /\ UNCHANGED <<tableVars, registrar, tried, registered, crashed>>

(* The service that was found is called, or NotFound is returned. *)
Return(w) ==
  /\ lookup[w].pc = "walk" /\ Found(w)
  /\ lookup' = [lookup EXCEPT ![w] = NoLookup]
  /\ UNCHANGED <<tableVars, registrar, tried, registered, crashed>>

Worker(w) == LoadTable(w) \/ LoadBucket(w) \/ Walk(w) \/ Return(w)

-----------------------------------------------------------------------------
Next ==
  /\ ~ crashed
  /\ \/ Registrar
     \/ \E w \in Workers : Worker(w) \/ \E k \in Keys : Search(w, k)

Spec == Init /\ [][Next]_vars

(* The threads run; nobody is obliged to register or to search. *)
Fairness ==
  /\ WF_vars(~ crashed /\ registrar.pc # "idle" /\ Registrar)
  /\ \A w \in Workers : WF_vars(~ crashed /\ Worker(w))

FairSpec == Spec /\ Fairness
-----------------------------------------------------------------------------
(* Types of the variables. *)
TypeOK ==
  /\ DOMAIN array = Arrays
  /\ \A p \in Arrays : array[p] \in [0 .. (Sizes[p] - 1) -> Seq(Services)]
  /\ table \in Arrays /\ primeindex \in Arrays
  /\ tablelength \in Range(Sizes)
  /\ entrycount \in 0 .. Cardinality(Services)
  /\ registrar \in [pc : {"idle", "expand", "move", "swap", "resize", "link"},
                    service : Services \cup {NULL}]
  /\ registered \subseteq tried /\ tried \subseteq Services
  /\ lookup \in [Workers ->
       [pc : {"idle", "table", "bucket", "walk"}, key : Keys \cup {NULL},
        index : Nat, array : 0 .. Len(Sizes), entry : Services \cup {NULL, Undefined},
        had : SUBSET Services, raced : BOOLEAN]]
  /\ crashed \in BOOLEAN

(* Where a service is: the arrays, buckets and positions. *)
Places(s) == UNION {UNION {{<<p, i, j>> : j \in {n \in DOMAIN array[p][i] :
                      array[p][i][n] = s}} : i \in DOMAIN array[p]} : p \in Arrays}

(* A registered service is in one place, also in the middle of an          *)
(* expansion, and in the bucket its key has in this array; the others are  *)
(* in none.  So hashtable_expand (hashtable.c:88-95) neither loses nor     *)
(* doubles an entry, although it relinks them one at a time.  entrycount,  *)
(* which decides about the next expansion, counts them, whatever failed on *)
(* the way: an insert that found no memory gives its count back, one whose *)
(* expansion failed keeps it (hashtable.c:142-151).                        *)
EntriesAreFiled ==
  /\ \A s \in Services :
       IF s \in registered
       THEN \E p \in {table, primeindex}, j \in 1 .. Cardinality(Services) :
              Places(s) = {<<p, IndexFor(Sizes[p], KeyOf[s]), j>>}
       ELSE Places(s) = {}
  /\ entrycount = Cardinality(registered) + (IF registrar.pc = "idle" THEN 0 ELSE 1)

(* A worker that searches for a service which was registered before gets a *)
(* service of this key, never NotFound and never what freed memory held,   *)
(* unless the table was being expanded meanwhile (rpc_server.c:40).  An    *)
(* insert that only links its entry disturbs nobody.                       *)
RegisteredIsFound ==
  \A w \in Workers :
    lookup[w].pc = "walk" /\ ~ lookup[w].raced =>
      /\ lookup[w].entry # Undefined
      /\ lookup[w].entry = NULL => lookup[w].had = {}

(* Which array the table is, and which one its length belongs to. *)
Phases ==
  /\ registrar.pc \in {"idle", "expand", "link"} =>
       table = primeindex /\ tablelength = Sizes[table]
  /\ registrar.pc \in {"move", "swap"} =>
       primeindex = table + 1 /\ tablelength = Sizes[table]
  /\ registrar.pc = "swap" => Filled(table) = {}
  /\ registrar.pc = "resize" =>
       table = primeindex /\ table > 1 /\ tablelength = Sizes[table - 1]
  /\ registrar.pc # "idle" => registrar.service \in tried \ registered

(* Where a search is.  Whatever happens it looks into an array within its  *)
(* bounds; if it is not raced it is at the entry, or before it, of every   *)
(* service it can find.                                                    *)
LookupFollows(w) ==
  LET l == lookup[w]
      chain == array[table][l.index]
  IN /\ l.pc = "table" => l.index < Sizes[table]
     /\ l.pc = "bucket" => l.array \in 1 .. table /\ l.index < Sizes[l.array]
     /\ l.pc # "idle" =>
          l.key \in Keys /\ l.had \subseteq {s \in registered : KeyOf[s] = l.key}
     /\ l.pc # "idle" /\ ~ l.raced =>
          /\ ~ Expanding /\ l.index = IndexFor(Sizes[table], l.key)
          /\ l.pc = "bucket" => l.array = table
          /\ l.pc = "walk" =>
               \/ l.entry = NULL /\ l.had = {}
               \/ \E n \in DOMAIN chain :
                    /\ chain[n] = l.entry
                    /\ \A s \in l.had : \E m \in n .. Len(chain) : chain[m] = s

IInv ==
  /\ TypeOK /\ Phases /\ EntriesAreFiled
  /\ \A w \in Workers : LookupFollows(w)

(* Even a search that an expansion overtakes, and that follows an entry    *)
(* into the chain it was moved to, comes to an end.                        *)
SearchesEnd ==
  \A w \in Workers : lookup[w].pc # "idle" ~> lookup[w].pc = "idle" \/ crashed
=============================================================================
