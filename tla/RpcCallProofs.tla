---------------------------- MODULE RpcCallProofs ----------------------------
(***************************************************************************)
(* Request structures are owned once, and a response finds the request it  *)
(* answers: for any number of calls, structures, slots and connections and *)
(* any first size of the free list, with failing allocations and with pops *)
(* whose item is refilled before it is read.                               *)
(*                                                                         *)
(* First part, as long as every pop has returned what it unlinked (~upset),*)
(* whatever services are known.  RequestsAreOwnedOnce counts how often a   *)
(* structure occurs; the invariant behind it (Ownership) says it with      *)
(* sets: the places that hold structures share no member, no place holds   *)
(* one twice, and the live structures are those in a place.  It needs one  *)
(* fact that is not about places: between its lookup and its removal the   *)
(* read thread's slot still holds what it found there.  The places are     *)
(* counted at the end.                                                     *)
(*                                                                         *)
(* Second part, under Orderly: also every call names a service that        *)
(* exists, as the response to another one bears another number             *)
(* (RpcCallMisdelivery.cfg).  A number on its way between the threads is   *)
(* that of a slot which holds the request of the message, or it is -1 and  *)
(* the request is the one whose insert failed (MessagesAreTied).  This is  *)
(* kept because a number is on its way once (NumbersAreDistinct): the      *)
(* write thread gives the number of a slot that was free, which no message *)
(* bears, or -1, and that only once; the read thread empties a slot after  *)
(* it took the only message with its number.  What the two threads hold in *)
(* between is ThreadsHoldTheirs.  As long as a request is in the pool, or  *)
(* without a slot, its call has no answer (LiveAreUnanswered).             *)
(***************************************************************************)
EXTENDS RpcCall, WellFoundedInduction, SequenceTheorems, FiniteSetTheorems, TLAPS

-----------------------------------------------------------------------------
(* What the operators on the array of the pool do, for any items and size. *)

(* A nonempty set of slots has a lowest one. *)
LEMMA LowestExists ==
  ASSUME NEW S \in SUBSET Nat, S # {}
  PROVE  \E i \in S : \A j \in S : i <= j
<1>1. PICK i \in S : \A j \in S : <<j, i>> \notin OpToRel(<, Nat)
  BY NatLessThanWellFounded, WFMin, Zenon
<1>2. \A j \in S : ~ (j < i)
  BY <1>1, Zenon DEF OpToRel
<1>3. \A j \in S : i <= j
  BY <1>2
<1> QED
  BY <1>3

(* The scan of insert finds a slot of the array that is free. *)
LEMMA FirstFreeIsFree ==
  ASSUME NEW X, NEW p, PoolOK(p, X), FreeSlots(p) # {}
  PROVE  FirstFree(p) \in Slots(p) /\ p.data[FirstFree(p)] = NULL
<1>1. FreeSlots(p) \in SUBSET Nat
  BY DEF PoolOK, FreeSlots, Slots
<1>2. FirstFree(p) \in FreeSlots(p)
  BY <1>1, LowestExists DEF FirstFree
<1> QED
  BY <1>2 DEF FreeSlots

(* Storing in a slot changes this slot and no other. *)
LEMMA StoredIsStored ==
  ASSUME NEW X, NEW p, PoolOK(p, X), NEW i \in Slots(p), NEW x \in X \cup {NULL, Wild}
  PROVE  /\ PoolOK(Stored(p, i, x), X)
         /\ Slots(Stored(p, i, x)) = Slots(p)
         /\ Stored(p, i, x).data[i] = x
         /\ \A j \in Slots(p) : j # i => Stored(p, i, x).data[j] = p.data[j]
<1>1. Stored(p, i, x) = [size |-> p.size, data |-> [p.data EXCEPT ![i] = x]]
  BY DEF PoolOK, Stored
<1> QED
  BY <1>1 DEF PoolOK, Slots

(* Doubling keeps the old slots, puts the item in the first new one, and   *)
(* leaves no item in the others.                                           *)
LEMMA DoubledIsDoubled ==
  ASSUME NEW X, NEW p, PoolOK(p, X), NEW x \in X, NEW junk \in JunkFor(p)
  PROVE  /\ PoolOK(Doubled(p, x, junk), X)
         /\ Slots(p) \subseteq Slots(Doubled(p, x, junk))
         /\ p.size \in Slots(Doubled(p, x, junk)) \ Slots(p)
         /\ Doubled(p, x, junk).data[p.size] = x
         /\ \A j \in Slots(p) : Doubled(p, x, junk).data[j] = p.data[j]
         /\ \A j \in Slots(Doubled(p, x, junk)) \ Slots(p) :
              j # p.size => Doubled(p, x, junk).data[j] \in {NULL, Wild}
BY DEF PoolOK, Slots, Doubled, JunkFor

(* What insert leaves behind, whichever way it goes: the item sits in the  *)
(* slot that is returned, which no item was in before; the other slots     *)
(* keep what they held and no other item has appeared.                     *)
LEMMA InsertStores ==
  ASSUME NEW X, NEW p, PoolOK(p, X), NEW x \in X, NEW r \in InsertResults(p, x)
  PROVE  /\ PoolOK(r.pool, X)
         /\ Slots(p) \subseteq Slots(r.pool)
         /\ r.slot \in Slots(r.pool)
         /\ r.pool.data[r.slot] = x
         /\ r.slot \in Slots(p) => p.data[r.slot] = NULL
         /\ \A j \in Slots(p) : j # r.slot => r.pool.data[j] = p.data[j]
         /\ \A j \in Slots(r.pool) \ Slots(p) :
              j # r.slot => r.pool.data[j] \in {NULL, Wild}
<1>1. CASE FreeSlots(p) # {}
  <2>1. r = [slot |-> FirstFree(p), pool |-> Stored(p, FirstFree(p), x)]
    BY <1>1 DEF InsertResults
  <2> QED
    BY <1>1, <2>1, FirstFreeIsFree, StoredIsStored
<1>2. CASE FreeSlots(p) = {}
  <2>1. PICK junk \in JunkFor(p) : r = [slot |-> p.size, pool |-> Doubled(p, x, junk)]
    BY <1>2 DEF InsertResults
  <2> QED
    BY <2>1, DoubledIsDoubled
<1> QED
  BY <1>1, <1>2

-----------------------------------------------------------------------------
(* What the operations on queues do to the members of a queue.             *)

LEMMA MembersAfterAppend ==
  ASSUME NEW S, NEW s \in Seq(S), NEW x \in S
  PROVE  /\ Append(s, x) \in Seq(S) /\ Len(Append(s, x)) = Len(s) + 1 /\ Len(s) \in Nat
         /\ Range(Append(s, x)) = Range(s) \cup {x}
         /\ IsInjective(s) /\ x \notin Range(s) => IsInjective(Append(s, x))
<1>1. /\ Append(s, x) \in Seq(S) /\ Len(Append(s, x)) = Len(s) + 1 /\ Len(s) \in Nat
      /\ DOMAIN s = 1 .. Len(s) /\ DOMAIN Append(s, x) = 1 .. (Len(s) + 1)
      /\ \A i \in 1 .. Len(s) : Append(s, x)[i] = s[i]
      /\ Append(s, x)[Len(s) + 1] = x
  OBVIOUS
<1>2. Range(Append(s, x)) = Range(s) \cup {x}
  BY <1>1 DEF Range
<1>3. IsInjective(s) /\ x \notin Range(s) => IsInjective(Append(s, x))
  BY <1>1 DEF Range, IsInjective
<1> QED
  BY <1>1, <1>2, <1>3

LEMMA MembersAfterTail ==
  ASSUME NEW S, NEW s \in Seq(S), s # <<>>
  PROVE  /\ Head(s) \in S /\ Tail(s) \in Seq(S) /\ Head(s) \in Range(s)
         /\ Len(Tail(s)) = Len(s) - 1 /\ Len(s) \in Nat \ {0}
         /\ \A i \in 1 .. Len(Tail(s)) : Tail(s)[i] = s[i + 1]
         /\ Head(s) = s[1]
         /\ IsInjective(s) => Range(Tail(s)) = Range(s) \ {Head(s)} /\ IsInjective(Tail(s))
<1>1. /\ Head(s) \in S /\ Tail(s) \in Seq(S)
      /\ Len(Tail(s)) = Len(s) - 1 /\ Len(s) \in Nat \ {0}
      /\ DOMAIN s = 1 .. Len(s) /\ DOMAIN Tail(s) = 1 .. (Len(s) - 1)
      /\ Head(s) = s[1]
      /\ \A i \in 1 .. (Len(s) - 1) : Tail(s)[i] = s[i + 1]
  OBVIOUS
<1>2. Head(s) \in Range(s)
  BY <1>1 DEF Range
<1>3. ASSUME IsInjective(s) PROVE Range(Tail(s)) = Range(s) \ {Head(s)}
  <2>1. ASSUME NEW x \in Range(Tail(s)) PROVE x \in Range(s) \ {Head(s)}
    <3>1. PICK i \in 1 .. (Len(s) - 1) : x = s[i + 1]
      BY <1>1 DEF Range
    <3>2. i + 1 \in DOMAIN s /\ 1 \in DOMAIN s /\ i + 1 # 1
      BY <1>1
    <3> QED
      BY <1>1, <1>3, <3>1, <3>2 DEF Range, IsInjective
  <2>2. ASSUME NEW x \in Range(s), x # Head(s) PROVE x \in Range(Tail(s))
    <3>1. PICK i \in 1 .. Len(s) : x = s[i]
      BY <1>1 DEF Range
    <3>2. i - 1 \in DOMAIN Tail(s) /\ Tail(s)[i - 1] = x
      BY <1>1, <2>2, <3>1
    <3> QED
      BY <3>2 DEF Range
  <2> QED
    BY <2>1, <2>2
<1>4. ASSUME IsInjective(s) PROVE IsInjective(Tail(s))
  <2> SUFFICES ASSUME NEW i \in DOMAIN Tail(s), NEW j \in DOMAIN Tail(s),
                      Tail(s)[i] = Tail(s)[j]
               PROVE  i = j
    BY DEF IsInjective
  <2>1. i + 1 \in DOMAIN s /\ j + 1 \in DOMAIN s /\ s[i + 1] = s[j + 1]
    BY <1>1
  <2> QED
    BY <1>1, <1>4, <2>1 DEF IsInjective
<1> QED
  BY <1>1, <1>2, <1>3, <1>4

LEMMA MembersAfterFront ==
  ASSUME NEW S, NEW s \in Seq(S), s # <<>>
  PROVE  /\ Last(s) \in S /\ Front(s) \in Seq(S) /\ Last(s) \in Range(s)
         /\ Len(Front(s)) = Len(s) - 1 /\ Len(s) \in Nat \ {0}
         /\ IsInjective(s) => Range(Front(s)) = Range(s) \ {Last(s)} /\ IsInjective(Front(s))
<1>1. /\ Len(s) \in Nat \ {0} /\ DOMAIN s = 1 .. Len(s)
      /\ \A i \in 1 .. Len(s) : s[i] \in S
  OBVIOUS
<1>2. /\ Front(s) \in Seq(S) /\ Len(Front(s)) = Len(s) - 1
      /\ \A i \in 1 .. (Len(s) - 1) : Front(s)[i] = s[i]
  BY <1>1, SubSeqProperties DEF Front
<1>3. DOMAIN Front(s) = 1 .. (Len(s) - 1)
  BY <1>2
<1>4. Last(s) \in S /\ Last(s) \in Range(s) /\ Last(s) = s[Len(s)]
  BY <1>1 DEF Last, Range
<1>5. ASSUME IsInjective(s) PROVE Range(Front(s)) = Range(s) \ {Last(s)}
  BY <1>1, <1>2, <1>3, <1>4, <1>5 DEF Range, IsInjective
<1>6. ASSUME IsInjective(s) PROVE IsInjective(Front(s))
  BY <1>1, <1>2, <1>3, <1>6 DEF IsInjective
<1> QED
  BY <1>1, <1>2, <1>4, <1>5, <1>6

(* A free list with other items on it. *)
LEMMA ListWith ==
  ASSUME NEW f \in [items : Seq(Reqs), size : Nat \ {0}], NEW s \in Seq(Reqs)
  PROVE  /\ [f EXCEPT !.items = s] \in [items : Seq(Reqs), size : Nat \ {0}]
         /\ [f EXCEPT !.items = s].items = s
         /\ [f EXCEPT !.items = s].size = f.size
OBVIOUS

LEMMA ListDoubled ==
  ASSUME NEW f \in [items : Seq(Reqs), size : Nat \ {0}]
  PROVE  /\ [f EXCEPT !.size = 2 * @] \in [items : Seq(Reqs), size : Nat \ {0}]
         /\ [f EXCEPT !.size = 2 * @].items = f.items
         /\ [f EXCEPT !.size = 2 * @].size = 2 * f.size
OBVIOUS

(* A structure taken comes from the free list or was not live.             *)
LEMMA TakenIsFree ==
  ASSUME TypeOK, NEW r \in Taken
  PROVE  /\ r \in Reqs
         /\ free.items # <<>> => r = Last(free.items)
         /\ free.items = <<>> => r \notin live
<1>1. CASE free.items # <<>>
  <2>1. Last(free.items) \in Reqs
    BY <1>1, MembersAfterFront DEF TypeOK, AppTypeOK
  <2> QED
    BY <1>1, <2>1 DEF Taken
<1>2. CASE free.items = <<>>
  <2>1. live # Reqs /\ r = CHOOSE q \in Reqs : q \notin live
    BY <1>2 DEF Taken
  <2>2. \E q \in Reqs : q \notin live
    BY <2>1 DEF TypeOK, AppTypeOK
  <2> QED
    BY <1>2, <2>1, <2>2
<1> QED
  BY <1>1, <1>2

-----------------------------------------------------------------------------
(* The types. *)

LEMMA InitTypeOK == Init => TypeOK
<1> SUFFICES ASSUME Init PROVE TypeOK
  OBVIOUS
<1> USE CallAssumption DEF Init
<1>1. AppTypeOK
  <2>1. <<>> \in Seq(Reqs) /\ Len(<<>>) = 0
    OBVIOUS
  <2>2. free \in [items : Seq(Reqs), size : Nat \ {0}] /\ Len(free.items) <= free.size
    BY <2>1
  <2>3. callOf \in [Reqs -> Calls \cup {NoCall}] /\ seqOf \in [Reqs -> Int]
    OBVIOUS
  <2> QED
    BY <2>2, <2>3 DEF AppTypeOK
<1>2. WriterTypeOK
  BY DEF WriterTypeOK, IdleWriter
<1>3. PoolOK(pool, Reqs)
  BY DEF PoolOK, NewPool, Slots
<1>4. NetTypeOK
  <2>1. <<>> \in Seq(Requests) /\ <<>> \in Seq(Responses)
    OBVIOUS
  <2> QED
    BY <2>1 DEF NetTypeOK
<1>5. NoResponse \in Responses /\ 0 \in Conns
  BY DEF NoResponse, Responses, Answers, Conns
<1>6. ReaderTypeOK
  BY <1>5 DEF ReaderTypeOK, IdleReader
<1>7. FrameTypeOK
  BY <1>5 DEF FrameTypeOK, NoFrame, NoAnswer, Results
<1> QED
  BY <1>1, <1>2, <1>3, <1>4, <1>6, <1>7 DEF TypeOK

(* A call takes a structure and queues it. *)
LEMMA CallAsyncType ==
  ASSUME TypeOK, NEW c \in Calls, CallAsync(c)
  PROVE  AppTypeOK' /\ WriterTypeOK' /\ PoolOK(pool, Reqs)' /\ NetTypeOK' /\ ReaderTypeOK'
<1> USE DEF TypeOK, CallAsync
<1>0. PICK r \in Taken : /\ live' = live \cup {r}
                         /\ callOf' = [callOf EXCEPT ![r] = c]
                         /\ pending' = Append(pending, r)
                         /\ item' \in ItemAfterPush(r)
  OBVIOUS
<1>1. r \in Reqs
  BY TakenIsFree
<1>2. free' \in [items : Seq(Reqs), size : Nat \ {0}] /\ Len(free'.items) <= free'.size
  <2>1. CASE free.items = <<>>
    <3>1. free' = free
      BY <2>1 DEF AppTypeOK
    <3> QED
      BY <3>1 DEF AppTypeOK
  <2>2. CASE free.items # <<>>
    <3>1. /\ Front(free.items) \in Seq(Reqs)
          /\ Len(Front(free.items)) = Len(free.items) - 1 /\ Len(free.items) \in Nat
      BY <2>2, MembersAfterFront DEF AppTypeOK
    <3>2. free' = [free EXCEPT !.items = Front(free.items)]
      BY <2>2
    <3>3. free \in [items : Seq(Reqs), size : Nat \ {0}] /\ Len(free.items) <= free.size
      BY DEF AppTypeOK
    <3> HIDE DEF TypeOK, CallAsync
    <3>4. /\ free' \in [items : Seq(Reqs), size : Nat \ {0}]
          /\ free'.items = Front(free.items) /\ free'.size = free.size
      BY <3>1, <3>2, <3>3, ListWith
    <3> QED
      BY <3>1, <3>3, <3>4
  <2> QED
    BY <2>1, <2>2
<1>3. AppTypeOK'
  BY <1>0, <1>1, <1>2 DEF AppTypeOK
<1>4. WriterTypeOK'
  BY <1>0, <1>1, MembersAfterAppend DEF WriterTypeOK, ItemAfterPush
<1>5. PoolOK(pool, Reqs)' /\ NetTypeOK' /\ ReaderTypeOK'
  BY DEF NetTypeOK, ReaderTypeOK
<1> QED
  BY <1>3, <1>4, <1>5

(* The steps of the application leave the types in place. *)
LEMMA ApplicationType ==
  ASSUME TypeOK, Application
  PROVE  TypeOK'
<1> USE DEF TypeOK
<1>1. ASSUME NEW c \in Calls \ Sync, CallAsync(c), UNCHANGED syncVars PROVE TypeOK'
  <2>1. FrameTypeOK'
    BY <1>1 DEF FrameTypeOK, CallAsync, syncVars, sideVars
  <2> QED
    BY <1>1, <2>1, CallAsyncType
<1>2. ASSUME NEW c \in Sync, CallSync(c) PROVE TypeOK'
  <2>1. c \in Calls /\ CallAsync(c)
    BY <1>2, CallAssumption DEF CallSync
  <2>2. NewFrame(c) \in [of : Sync \cup {NoCall}, got : Results, conn : Conns,
                         intact : BOOLEAN]
    <3>1. 0 \in Conns
      BY CallAssumption DEF Conns
    <3>2. NoAnswer \in Results
      BY DEF NoAnswer, Results
    <3> QED
      BY <1>2, <3>1, <3>2 DEF NewFrame, NoFrame
  <2>3. FrameTypeOK'
    BY <1>2, <2>1, <2>2 DEF FrameTypeOK, CallSync, CallAsync
  <2> QED
    BY <2>1, <2>3, CallAsyncType
<1>3. ASSUME ReturnSync \/ Timeout PROVE TypeOK'
  <2>1. AppTypeOK' /\ WriterTypeOK' /\ PoolOK(pool, Reqs)' /\ NetTypeOK' /\ ReaderTypeOK'
    BY <1>3 DEF ReturnSync, Timeout, appVars, sideVars, AppTypeOK, WriterTypeOK, NetTypeOK, ReaderTypeOK
  <2>2. [of |-> frame.of, code |-> "RPC_Timeout"] \in Results /\ frame.got \in Results
    BY CallAssumption DEF FrameTypeOK, Results
  <2>3. FrameTypeOK'
    BY <1>3, <2>2 DEF sideVars, FrameTypeOK, ReturnSync, Timeout
  <2> QED
    BY <2>1, <2>3
<1> QED
  BY <1>1, <1>2, <1>3 DEF Application

(* The steps of the write thread. *)
LEMMA WriterType ==
  ASSUME TypeOK, Writer
  PROVE  TypeOK'
<1> USE DEF TypeOK
<1>1. ASSUME WriterPop PROVE TypeOK'
  <2>1. Head(pending) \in Reqs /\ Tail(pending) \in Seq(Reqs)
    BY <1>1, MembersAfterTail DEF WriterPop, WriterTypeOK
  <2>2. WriterTypeOK'
    BY <1>1, <2>1 DEF WriterPop, WriterTypeOK
  <2> QED
    BY <1>1, <2>2 DEF WriterPop, appVars, syncVars, AppTypeOK, NetTypeOK, ReaderTypeOK,
       FrameTypeOK
<1>5. ASSUME WriterRead PROVE TypeOK'
  <2>1. WriterTypeOK'
    BY <1>5 DEF WriterRead, WriterTypeOK
  <2>2. FrameTypeOK'
    <3>1. (item # writer.req) \in BOOLEAN
      OBVIOUS
    <3> QED
      BY <1>5, <3>1 DEF WriterRead, syncVars, FrameTypeOK
  <2> QED
    BY <1>5, <2>1, <2>2 DEF WriterRead, appVars, AppTypeOK, NetTypeOK, ReaderTypeOK
<1>6. ASSUME WriterInsertFails PROVE TypeOK'
  <2>1. WriterTypeOK'
    <3>0. PICK n \in Int : n = -1
      OBVIOUS
    <3>1. /\ writer.req \in Reqs /\ writer' = [writer EXCEPT !.pc = "number", !.slot = n]
          /\ failed' = writer.req /\ UNCHANGED <<pending, item, last_conn>>
      BY <1>6, <3>0 DEF WriterInsertFails, WriterTypeOK
    <3>2. /\ writer' \in [pc : {"pop", "read", "insert", "number", "send"},
                          req : Reqs \cup {NULL}, slot : Int]
          /\ writer'.pc = "number" /\ writer'.req \in Reqs
      BY <3>1 DEF WriterTypeOK
    <3> QED
      BY <3>1, <3>2 DEF WriterTypeOK
  <2> QED
    BY <1>6, <2>1 DEF WriterInsertFails, appVars, syncVars, AppTypeOK, NetTypeOK,
       ReaderTypeOK, FrameTypeOK
<1>2. ASSUME WriterInsert PROVE TypeOK'
  <2>1. writer.req \in Reqs
    BY <1>2 DEF WriterInsert, WriterTypeOK
  <2>2. PICK r \in InsertResults(pool, writer.req) :
          pool' = r.pool /\ writer' = [writer EXCEPT !.pc = "number", !.slot = r.slot]
    BY <1>2 DEF WriterInsert
  <2>3. /\ PoolOK(r.pool, Reqs) /\ Slots(pool) \subseteq Slots(r.pool)
        /\ r.slot \in Slots(r.pool)
    BY <2>1, InsertStores
  <2>4. r.slot \in Int
    BY <2>3 DEF PoolOK, Slots
  <2>5. WriterTypeOK' /\ PoolOK(pool, Reqs)' /\ ReaderTypeOK'
    BY <1>2, <2>1, <2>2, <2>3, <2>4 DEF sideVars, WriterInsert, WriterTypeOK, ReaderTypeOK
  <2> QED
    BY <1>2, <2>5 DEF WriterInsert, appVars, syncVars, sideVars, AppTypeOK, NetTypeOK, FrameTypeOK
<1>3. ASSUME WriterNumber PROVE TypeOK'
  <2>1. AppTypeOK' /\ WriterTypeOK'
    BY <1>3 DEF WriterNumber, appVars, sideVars, AppTypeOK, WriterTypeOK
  <2> QED
    BY <1>3, <2>1 DEF WriterNumber, syncVars, sideVars, NetTypeOK, ReaderTypeOK, FrameTypeOK
<1>4. ASSUME WriterSend PROVE TypeOK'
  <2>1. NextConn \in Conns
    BY CallAssumption DEF WriterTypeOK, NextConn, Conns
  <2>2. [call |-> callOf[writer.req], seq |-> seqOf[writer.req]] \in Requests
    BY <1>4 DEF WriterSend, WriterTypeOK, AppTypeOK, Requests
  <2>3. Append(requests[NextConn],
               [call |-> callOf[writer.req], seq |-> seqOf[writer.req]]) \in Seq(Requests)
    BY <2>1, <2>2, MembersAfterAppend DEF NetTypeOK
  <2>4. NetTypeOK'
    BY <1>4, <2>1, <2>3 DEF sideVars, WriterSend, NetTypeOK
  <2>5. WriterTypeOK'
    BY <1>4, <2>1 DEF sideVars, WriterSend, WriterTypeOK, IdleWriter
  <2> QED
    BY <1>4, <2>4, <2>5 DEF WriterSend, appVars, syncVars, sideVars, AppTypeOK, ReaderTypeOK, FrameTypeOK
<1> QED
  BY <1>1, <1>2, <1>3, <1>4, <1>5, <1>6 DEF Writer

(* A connection registered. *)
LEMMA RegisterType ==
  ASSUME TypeOK, NEW k \in Conns, Register(k)
  PROVE  TypeOK'
<1>1. NetTypeOK'
  BY DEF TypeOK, Register, NetTypeOK
<1> QED
  BY <1>1 DEF TypeOK, Register, appVars, syncVars, AppTypeOK, WriterTypeOK, ReaderTypeOK,
     FrameTypeOK

(* A request served. *)
LEMMA ServeType ==
  ASSUME TypeOK, NEW k \in Conns, Serve(k)
  PROVE  TypeOK'
<1> USE DEF TypeOK
<1> DEFINE m == Head(requests[k])
           code == IF m.call \in Known THEN "RPC_OK" ELSE "RPC_NotFound"
           rsp == [seq |-> SeqFor(k, m), answer |-> [of |-> m.call, code |-> code]]
<1>1. m \in Requests /\ Tail(requests[k]) \in Seq(Requests)
  BY MembersAfterTail DEF Serve, NetTypeOK
<1>2. SeqFor(k, m) \in Int
  BY <1>1 DEF SeqFor, Requests, NetTypeOK
<1>3. rsp \in Responses
  BY <1>1, <1>2 DEF Requests, Responses, Answers
<1>4. responses[k] \o Written(rsp) \in Seq(Responses)
  BY <1>3 DEF Written, NetTypeOK
<1>5. NetTypeOK'
  BY <1>1, <1>2, <1>4 DEF sideVars, Serve, NetTypeOK
<1> QED
  BY <1>5 DEF Serve, appVars, syncVars, sideVars, AppTypeOK, WriterTypeOK, ReaderTypeOK, FrameTypeOK

(* What a read event moves. *)
LEMMA PartsOfSeq ==
  ASSUME NEW S, NEW s \in Seq(S), NEW n \in 1 .. Len(s)
  PROVE  SubSeq(s, 1, n) \in Seq(S) /\ SubSeq(s, n + 1, Len(s)) \in Seq(S)
<1>1. Len(s) \in Nat /\ \A i \in 1 .. Len(s) : s[i] \in S
  OBVIOUS
<1> QED
  BY <1>1, SubSeqProperties

(* What adding a structure to the free list leaves. *)
LEMMA AddedToList ==
  ASSUME AppTypeOK, NEW r \in Reqs, NEW f \in AddResults(r)
  PROVE  /\ f \in [items : Seq(Reqs), size : Nat \ {0}] /\ Len(f.items) <= f.size
         /\ f = free \/ f.items = Append(free.items, r)
<1> DEFINE added == [free EXCEPT !.items = Append(@, r)]
<1>1. free \in [items : Seq(Reqs), size : Nat \ {0}] /\ Len(free.items) <= free.size
  BY DEF AppTypeOK
<1>2. /\ Append(free.items, r) \in Seq(Reqs)
      /\ Len(Append(free.items, r)) = Len(free.items) + 1 /\ Len(free.items) \in Nat
  BY <1>1, MembersAfterAppend
<1>3. /\ added \in [items : Seq(Reqs), size : Nat \ {0}]
      /\ added.items = Append(free.items, r) /\ added.size = free.size
  BY <1>1, <1>2, ListWith
<1>4. CASE Len(free.items) < free.size
  <2>1. f = added
    BY <1>4 DEF AddResults
  <2> QED
    BY <1>1, <1>2, <1>3, <1>4, <2>1
<1>5. CASE Len(free.items) = free.size
  <2>1. f = [added EXCEPT !.size = 2 * @] \/ f = free
    BY <1>1, <1>2, <1>5 DEF AddResults
  <2>2. ASSUME f = [added EXCEPT !.size = 2 * @]
        PROVE  /\ f \in [items : Seq(Reqs), size : Nat \ {0}]
               /\ f.items = added.items /\ f.size = 2 * free.size
    BY <1>3, <2>2, ListDoubled
  <2> QED
    BY <1>1, <1>2, <1>3, <1>5, <2>1, <2>2
<1> QED
  BY <1>1, <1>2, <1>4, <1>5

(* The steps of the read thread. *)
LEMMA ReaderType ==
  ASSUME TypeOK, Reader
  PROVE  TypeOK'
<1> USE DEF TypeOK
<1>1. ASSUME NEW k \in Conns, ReadEvent(k) PROVE TypeOK'
  <2>1. PICK n \in 1 .. Len(responses[k]) :
          /\ rbuf' = [rbuf EXCEPT ![k] = @ \o SubSeq(responses[k], 1, n)]
          /\ responses' = [responses EXCEPT ![k] = SubSeq(@, n + 1, Len(@))]
    BY <1>1 DEF ReadEvent
  <2>2. /\ rbuf[k] \o SubSeq(responses[k], 1, n) \in Seq(Responses)
        /\ SubSeq(responses[k], n + 1, Len(responses[k])) \in Seq(Responses)
    BY PartsOfSeq DEF NetTypeOK
  <2>3. NetTypeOK'
    BY <1>1, <2>1, <2>2 DEF sideVars, ReadEvent, NetTypeOK
  <2>4. ReaderTypeOK'
    BY <1>1 DEF ReadEvent, ReaderTypeOK
  <2>5. FrameTypeOK'
    BY <1>1 DEF sideVars, ReadEvent, FrameTypeOK
  <2> QED
    BY <1>1, <2>3, <2>4, <2>5 DEF ReadEvent, appVars, sideVars, AppTypeOK, WriterTypeOK
<1>2. NoResponse \in Responses /\ 0 \in Conns
  BY CallAssumption DEF NoResponse, Responses, Answers, Conns
<1>3. ASSUME ReadDone PROVE TypeOK'
  <2>1. ReaderTypeOK'
    BY <1>2, <1>3 DEF ReadDone, ReaderTypeOK, IdleReader
  <2> QED
    BY <1>3, <2>1 DEF ReadDone, appVars, syncVars, sideVars, AppTypeOK, WriterTypeOK, NetTypeOK, FrameTypeOK
<1>4. ASSUME LookUp PROVE TypeOK'
  <2> DEFINE m == Head(rbuf[reader.conn])
             req == pool.data[m.seq]
  <2>1. reader.conn \in Conns /\ m \in Responses /\ Tail(rbuf[reader.conn]) \in Seq(Responses)
    BY <1>4, MembersAfterTail DEF LookUp, NetTypeOK, ReaderTypeOK
  <2>2. NetTypeOK'
    BY <1>4, <2>1 DEF sideVars, LookUp, NetTypeOK
  <2>3. Found(m) => m.seq \in Slots(pool) /\ req \in Reqs
    BY DEF Found
  <2>4. \/ UNCHANGED reader
        \/ reader' = IdleReader
        \/ Found(m) /\ reader' = [reader EXCEPT !.pc = "callback", !.rsp = m, !.req = req]
    BY <1>4, Zenon DEF LookUp
  <2>5. ReaderTypeOK'
    <3>1. CASE UNCHANGED reader
      BY <1>4, <3>1 DEF LookUp, ReaderTypeOK
    <3>2. CASE reader' = IdleReader
      BY <1>2, <1>4, <3>2 DEF LookUp, ReaderTypeOK, IdleReader
    <3>3. CASE Found(m) /\ reader' = [reader EXCEPT !.pc = "callback", !.rsp = m, !.req = req]
      BY <1>4, <2>1, <2>3, <3>3 DEF LookUp, ReaderTypeOK
    <3> QED
      BY <2>4, <3>1, <3>2, <3>3
  <2>6. FrameTypeOK'
    BY <1>4 DEF LookUp, FrameTypeOK, syncVars, sideVars
  <2> QED
    BY <1>4, <2>2, <2>5, <2>6 DEF LookUp, appVars, sideVars, AppTypeOK, WriterTypeOK
<1>5. ASSUME RunCallback PROVE TypeOK'
  <2> DEFINE c == callOf[reader.req]
  <2>1. reader.rsp \in Responses /\ c \in Calls \cup {NoCall}
    BY <1>5 DEF RunCallback, ReaderTypeOK, AppTypeOK
  <2>2. reader.rsp.answer \in Answers /\ reader.rsp.answer \in Results
    BY <2>1 DEF Responses, Answers, Results
  <2>3. answers' \in [Calls -> Seq(Answers)]
    <3>1. CASE c = NoCall
      BY <1>5, <3>1 DEF RunCallback, ReaderTypeOK
    <3>2. CASE c # NoCall
      <4>1. Append(answers[c], reader.rsp.answer) \in Seq(Answers)
        BY <2>1, <2>2, <3>2, MembersAfterAppend DEF ReaderTypeOK
      <4> QED
        BY <1>5, <2>1, <3>2, <4>1 DEF RunCallback, ReaderTypeOK
    <3> QED
      BY <3>1, <3>2
  <2>4. ReaderTypeOK'
    BY <1>5, <2>3 DEF RunCallback, ReaderTypeOK
  <2>5. FrameTypeOK'
    <3>1. CASE c = NoCall
      <4>1. c \notin Sync
        BY <3>1, CallAssumption
      <4>2. crashed' = TRUE /\ UNCHANGED <<frame, returned, upset>>
        BY <1>5, <3>1, <4>1 DEF RunCallback, sideVars
      <4> QED
        BY <4>2 DEF FrameTypeOK
    <3>2. CASE c # NoCall /\ c \in Sync
      <4>1. CbCall
        BY <1>5, <3>2 DEF RunCallback
      <4> QED
        BY <1>5, <2>2, <4>1 DEF sideVars, CbCall, RunCallback, FrameTypeOK, ReaderTypeOK
    <3>3. CASE c # NoCall /\ c \notin Sync
      BY <1>5, <3>3 DEF sideVars, RunCallback, FrameTypeOK
    <3> QED
      BY <3>1, <3>2, <3>3
  <2> QED
    BY <1>5, <2>4, <2>5 DEF RunCallback, appVars, sideVars, AppTypeOK, WriterTypeOK, NetTypeOK
<1>6. ASSUME RemoveSession PROVE TypeOK'
  <2>1. reader.rsp.seq \in Slots(pool)
    BY <1>6 DEF RemoveSession, ReaderTypeOK
  <2>2. PoolOK(pool, Reqs)'
    BY <1>6, <2>1, StoredIsStored DEF RemoveSession, Removed
  <2>3. ReaderTypeOK'
    BY <1>6 DEF RemoveSession, ReaderTypeOK
  <2> QED
    BY <1>6, <2>2, <2>3 DEF RemoveSession, appVars, syncVars, sideVars, AppTypeOK, WriterTypeOK,
       NetTypeOK, FrameTypeOK
<1>7. ASSUME FreeRequest PROVE TypeOK'
  <2>1. reader.req \in Reqs
    BY <1>7 DEF FreeRequest, ReaderTypeOK
  <2>2. free' \in [items : Seq(Reqs), size : Nat \ {0}] /\ Len(free'.items) <= free'.size
    BY <1>7, <2>1, AddedToList DEF FreeRequest
  <2>3. AppTypeOK'
    BY <1>7, <2>1, <2>2 DEF FreeRequest, AppTypeOK
  <2>4. ReaderTypeOK'
    BY <1>2, <1>7 DEF FreeRequest, ReaderTypeOK, AfterResponse
  <2> QED
    BY <1>7, <2>3, <2>4 DEF FreeRequest, syncVars, sideVars, WriterTypeOK, NetTypeOK, FrameTypeOK
<1> QED
  BY <1>1, <1>3, <1>4, <1>5, <1>6, <1>7 DEF Reader

(* The types of the state (TypeOK): the path never leaves the structures,  *)
(* slots and queues it works on, whatever the numbers of its messages are. *)
THEOREM TypeCorrect == Spec => []TypeOK
<1>1. TypeOK /\ [Next]_vars => TypeOK'
  <2> SUFFICES ASSUME TypeOK, [Next]_vars PROVE TypeOK'
    OBVIOUS
  <2>1. CASE UNCHANGED vars
    <3>1. AppTypeOK' /\ WriterTypeOK' /\ PoolOK(pool, Reqs)'
      BY <2>1 DEF vars, sideVars, TypeOK, AppTypeOK, WriterTypeOK
    <3>2. NetTypeOK' /\ ReaderTypeOK' /\ FrameTypeOK'
      BY <2>1 DEF vars, sideVars, TypeOK, NetTypeOK, ReaderTypeOK, FrameTypeOK
    <3> QED
      BY <3>1, <3>2 DEF TypeOK
  <2> QED
    BY <2>1, ApplicationType, WriterType, RegisterType, ServeType, ReaderType DEF Next
<1> QED
  BY <1>1, InitTypeOK, PTL DEF Spec

-----------------------------------------------------------------------------
(* Ownership. *)

LEMMA InitOwnership == Init => Ownership /\ CallsAreCarriedOnce
<1> SUFFICES ASSUME Init PROVE Ownership /\ CallsAreCarriedOnce
  OBVIOUS
<1> USE CallAssumption DEF Init
<1>1. /\ Range(pending) = {} /\ Range(free.items) = {}
      /\ IsInjective(pending) /\ IsInjective(free.items)
  BY DEF Range, IsInjective
<1>2. \A i \in Slots(pool) : pool.data[i] = NULL
  BY DEF NewPool, Slots
<1>3. InPool = {} /\ WithWriter = {} /\ WithReader = {} /\ Unslotted = {}
  BY <1>2 DEF InPool, WithWriter, WithReader, Unslotted, IdleWriter, IdleReader
<1>4. SlotsAreExclusive
  BY <1>2 DEF SlotsAreExclusive
<1> QED
  BY <1>1, <1>3, <1>4 DEF Ownership, PlacesAreDisjoint, CallsAreCarriedOnce, IdleReader

(* The places that hold live structures. *)
Places == Range(pending) \cup InPool \cup WithWriter \cup WithReader \cup Unslotted

(* The steps that move no structure. *)
LEMMA OwnershipStays ==
  ASSUME Ownership, CallsAreCarriedOnce, UNCHANGED <<called, live, free, callOf, pending, pool>>,
         WithWriter' = WithWriter, WithReader' = WithReader, Unslotted' = Unslotted,
         reader'.pc \in {"callback", "remove"} => pool.data[reader'.rsp.seq] = reader'.req
  PROVE  Ownership' /\ CallsAreCarriedOnce'
<1>1. InPool' = InPool
  BY DEF InPool, Slots
<1> QED
  BY <1>1 DEF Ownership, PlacesAreDisjoint, SlotsAreExclusive, CallsAreCarriedOnce, Slots

(* The structure a call takes was nowhere but on the free list.            *)
LEMMA CallAsyncOwnership ==
  ASSUME TypeOK, Ownership, CallsAreCarriedOnce, NEW c \in Calls, CallAsync(c)
  PROVE  Ownership' /\ CallsAreCarriedOnce'
<1> USE DEF CallAsync
<1>1. PICK r \in Taken : /\ live' = live \cup {r}
                         /\ callOf' = [callOf EXCEPT ![r] = c]
                         /\ pending' = Append(pending, r)
  OBVIOUS
<1>2. r \in Reqs /\ r \notin live /\ r \notin Range(free'.items)
      /\ Range(free'.items) \subseteq Range(free.items) /\ IsInjective(free'.items)
  <2>1. free.items \in Seq(Reqs) /\ IsInjective(free.items)
    BY DEF TypeOK, AppTypeOK, Ownership
  <2>2. CASE free.items = <<>>
    <3>1. free' = free
      BY <2>2 DEF TypeOK, AppTypeOK
    <3>2. Range(free.items) = {}
      BY <2>2 DEF Range
    <3> QED
      BY <2>1, <2>2, <3>1, <3>2, TakenIsFree
  <2>3. CASE free.items # <<>>
    <3>1. free' = [free EXCEPT !.items = Front(free.items)]
      BY <2>3
    <3>2. free \in [items : Seq(Reqs), size : Nat \ {0}]
      BY DEF TypeOK, AppTypeOK
    <3>3. free'.items = Front(free.items)
      BY <2>1, <2>3, <3>1, <3>2, ListWith, MembersAfterFront
    <3>4. r = Last(free.items) /\ r \in Reqs
      BY <2>3, TakenIsFree
    <3>5. /\ Last(free.items) \in Range(free.items)
          /\ Range(Front(free.items)) = Range(free.items) \ {Last(free.items)}
          /\ IsInjective(Front(free.items))
      BY <2>1, <2>3, MembersAfterFront
    <3> QED
      BY <3>3, <3>4, <3>5 DEF Ownership, PlacesAreDisjoint
  <2> QED
    BY <2>2, <2>3
<1>3. /\ Range(pending') = Range(pending) \cup {r}
      /\ IsInjective(pending')
  <2>1. r \notin Range(pending)
    BY <1>2 DEF Ownership
  <2> QED
    BY <1>1, <1>2, <2>1, MembersAfterAppend DEF Ownership, TypeOK, WriterTypeOK
<1>4. /\ InPool' = InPool /\ WithWriter' = WithWriter /\ WithReader' = WithReader
      /\ Unslotted' = Unslotted
  BY DEF InPool, WithWriter, WithReader, Unslotted, Slots
<1>5. Ownership'
  <2>1. PlacesAreDisjoint' /\ live' = Places'
    BY <1>1, <1>2, <1>3, <1>4 DEF Ownership, PlacesAreDisjoint, Places
  <2> QED
    BY <1>2, <1>3, <2>1 DEF Ownership, SlotsAreExclusive, Places
<1>6. CallsAreCarriedOnce'
  BY <1>1, <1>2 DEF CallsAreCarriedOnce, TypeOK, AppTypeOK
<1> QED
  BY <1>5, <1>6

LEMMA ApplicationOwnership ==
  ASSUME TypeOK, Ownership, CallsAreCarriedOnce, Application
  PROVE  Ownership' /\ CallsAreCarriedOnce'
<1>1. ASSUME ReturnSync \/ Timeout PROVE Ownership' /\ CallsAreCarriedOnce'
  BY <1>1, OwnershipStays
     DEF ReturnSync, Timeout, appVars, sideVars, WithWriter, WithReader, Unslotted, Ownership
<1>2. ASSUME NEW c \in Sync, CallSync(c) PROVE CallAsync(c) /\ c \in Calls
  BY <1>2, CallAssumption DEF CallSync
<1> QED
  BY <1>1, <1>2, CallAsyncOwnership DEF Application

(* A request goes from the queue to the write thread, and from it into a   *)
(* slot that was free.                                                     *)
LEMMA WriterOwnership ==
  ASSUME TypeOK, Ownership, CallsAreCarriedOnce, Writer, ~ upset'
  PROVE  Ownership' /\ CallsAreCarriedOnce'
<1>1. ASSUME WriterPop PROVE Ownership' /\ CallsAreCarriedOnce'
  <2> USE <1>1 DEF WriterPop
  <2>1. /\ Head(pending) \in Range(pending) /\ Head(pending) \in Reqs
        /\ Range(pending') = Range(pending) \ {Head(pending)}
        /\ IsInjective(pending')
    BY MembersAfterTail DEF Ownership, TypeOK, WriterTypeOK
  <2>2. /\ WithWriter = {} /\ WithWriter' = {Head(pending)} /\ WithReader' = WithReader
        /\ Unslotted' = Unslotted
    BY <2>1 DEF WithWriter, WithReader, Unslotted, TypeOK, WriterTypeOK
  <2>3. InPool' = InPool /\ UNCHANGED <<live, free, called, callOf, reader, pool>>
    BY DEF InPool, appVars, sideVars
  <2>4. PlacesAreDisjoint' /\ live' = Places'
    BY <2>1, <2>2, <2>3 DEF Ownership, PlacesAreDisjoint, Places
  <2>5. Ownership'
    BY <2>1, <2>3, <2>4 DEF Ownership, SlotsAreExclusive, Places
  <2> QED
    BY <2>3, <2>5 DEF CallsAreCarriedOnce
<1>4. ASSUME WriterRead PROVE Ownership' /\ CallsAreCarriedOnce'
  <2>1. item = writer.req
    BY <1>4 DEF WriterRead
  <2>2. WithWriter' = WithWriter /\ WithReader' = WithReader /\ Unslotted' = Unslotted
    BY <1>4, <2>1 DEF WriterRead, WithWriter, WithReader, Unslotted, TypeOK, WriterTypeOK
  <2> QED
    BY <1>4, <2>2, OwnershipStays DEF WriterRead, appVars, Ownership
<1>5. ASSUME WriterInsertFails PROVE Ownership' /\ CallsAreCarriedOnce'
  <2>1. /\ UNCHANGED <<called, live, free, callOf, pending, pool, reader>>
        /\ writer.pc = "insert" /\ writer.req \in Reqs /\ failed = NULL
        /\ writer'.pc = "number" /\ failed' = writer.req
    BY <1>5 DEF WriterInsertFails, appVars, TypeOK, WriterTypeOK
  <2>2. WithWriter = {writer.req} /\ WithWriter' = {} /\ WithReader' = WithReader
    BY <2>1 DEF WithWriter, WithReader
  <2>3. Unslotted = {} /\ Unslotted' = {writer.req}
    BY <2>1, CallAssumption DEF Unslotted
  <2>4. InPool' = InPool
    BY <2>1 DEF InPool
  <2>5. PlacesAreDisjoint' /\ live' = Places'
    BY <2>1, <2>2, <2>3, <2>4 DEF Ownership, PlacesAreDisjoint, Places
  <2>6. Ownership'
    BY <2>1, <2>5 DEF Ownership, SlotsAreExclusive, Places
  <2> QED
    BY <2>1, <2>6 DEF CallsAreCarriedOnce
<1>2. ASSUME WriterInsert PROVE Ownership' /\ CallsAreCarriedOnce'
  <2> USE <1>2 DEF WriterInsert
  <2> DEFINE x == writer.req
  <2>1. x \in Reqs /\ PoolOK(pool, Reqs)
    BY DEF TypeOK, WriterTypeOK
  <2>2. PICK r \in InsertResults(pool, x) :
          pool' = r.pool /\ writer' = [writer EXCEPT !.pc = "number", !.slot = r.slot]
    OBVIOUS
  <2>3. /\ PoolOK(r.pool, Reqs) /\ Slots(pool) \subseteq Slots(r.pool)
        /\ r.slot \in Slots(r.pool) /\ r.pool.data[r.slot] = x
        /\ r.slot \in Slots(pool) => pool.data[r.slot] = NULL
        /\ \A j \in Slots(pool) : j # r.slot => r.pool.data[j] = pool.data[j]
        /\ \A j \in Slots(r.pool) \ Slots(pool) : j # r.slot => r.pool.data[j] \in {NULL, Wild}
    BY <2>1, InsertStores
  <2>4. /\ WithWriter = {x} /\ WithWriter' = {} /\ WithReader' = WithReader
        /\ Unslotted' = Unslotted
    BY <2>1, <2>2 DEF WithWriter, WithReader, Unslotted, TypeOK, WriterTypeOK, sideVars
  <2>5. InPool' = InPool \cup {x}
    BY <2>1, <2>2, <2>3, CallAssumption DEF InPool
  <2>6. UNCHANGED <<live, free, called, callOf, reader, pending>>
    BY DEF appVars, sideVars
  <2>7. x \notin InPool
    BY <2>4 DEF Ownership, PlacesAreDisjoint
  <2>8. SlotsAreExclusive'
    BY <2>1, <2>2, <2>3, <2>7, CallAssumption DEF Ownership, SlotsAreExclusive, InPool
  <2>9. PlacesAreDisjoint' /\ live' = Places'
    BY <2>4, <2>5, <2>6 DEF Ownership, PlacesAreDisjoint, Places
  <2>10. reader.pc \in {"callback", "remove"} => pool'.data[reader.rsp.seq] = reader.req
    <3> SUFFICES ASSUME reader.pc \in {"callback", "remove"}
                 PROVE  pool'.data[reader.rsp.seq] = reader.req
      OBVIOUS
    <3>1. /\ reader.rsp.seq \in Slots(pool) /\ reader.req \in Reqs
          /\ pool.data[reader.rsp.seq] = reader.req
      BY DEF Ownership, TypeOK, ReaderTypeOK
    <3> QED
      BY <2>2, <2>3, <3>1, CallAssumption
  <2>11. Ownership'
    BY <2>6, <2>8, <2>9, <2>10 DEF Ownership, Places
  <2> QED
    BY <2>6, <2>11 DEF CallsAreCarriedOnce
<1>3. ASSUME WriterNumber \/ WriterSend PROVE Ownership' /\ CallsAreCarriedOnce'
  BY <1>3, OwnershipStays
     DEF WriterNumber, WriterSend, IdleWriter, appVars, sideVars, WithWriter, WithReader,
         Unslotted, Ownership, TypeOK, WriterTypeOK
<1> QED
  BY <1>1, <1>2, <1>3, <1>4, <1>5 DEF Writer

(* The read thread takes a request out of its slot and puts it on the free *)
(* list, or gives it back to malloc.                                       *)
LEMMA ReaderOwnership ==
  ASSUME TypeOK, Ownership, CallsAreCarriedOnce, Reader
  PROVE  Ownership' /\ CallsAreCarriedOnce'
<1>1. ASSUME NEW k \in Conns, ReadEvent(k) PROVE Ownership' /\ CallsAreCarriedOnce'
  BY <1>1, OwnershipStays
     DEF ReadEvent, appVars, sideVars, WithWriter, WithReader, Unslotted, TypeOK, ReaderTypeOK
<1>2. ASSUME ReadDone PROVE Ownership' /\ CallsAreCarriedOnce'
  BY <1>2, OwnershipStays DEF ReadDone, IdleReader, appVars, sideVars, WithWriter, WithReader,
       Unslotted
<1>3. ASSUME LookUp PROVE Ownership' /\ CallsAreCarriedOnce'
  <2> DEFINE m == Head(rbuf[reader.conn])
             req == pool.data[m.seq]
  <2>1. \/ UNCHANGED reader
        \/ reader' = IdleReader
        \/ reader' = [reader EXCEPT !.pc = "callback", !.rsp = m, !.req = req]
    BY <1>3, Zenon DEF LookUp
  <2>2. /\ reader.pc = "parse"
        /\ reader \in [pc : {"poll", "parse", "callback", "remove", "free"},
                       conn : Conns, rsp : Responses, req : Reqs \cup {NULL}]
    BY <1>3 DEF LookUp, TypeOK, ReaderTypeOK
  <2>3. \/ reader'.pc \in {"poll", "parse"}
        \/ reader'.pc = "callback" /\ reader'.rsp = m /\ reader'.req = req
    <3> HIDE DEF m, req
    <3>1. CASE reader' = IdleReader
      BY <3>1 DEF IdleReader
    <3>2. CASE reader' = [reader EXCEPT !.pc = "callback", !.rsp = m, !.req = req]
      BY <2>2, <3>2
    <3> QED
      BY <2>1, <2>2, <3>1, <3>2
  <2>4. WithReader = {} /\ WithReader' = {}
    BY <2>2, <2>3 DEF WithReader
  <2>5. reader'.pc \in {"callback", "remove"} => pool.data[reader'.rsp.seq] = reader'.req
    BY <2>3
  <2> QED
    BY <1>3, <2>4, <2>5, OwnershipStays DEF LookUp, appVars, sideVars, WithWriter, Unslotted
<1>4. ASSUME RunCallback PROVE Ownership' /\ CallsAreCarriedOnce'
  <2>1. /\ UNCHANGED <<called, live, free, callOf, pending, pool, writer, failed>>
        /\ reader.pc = "callback" /\ reader' = [reader EXCEPT !.pc = "remove"]
    BY <1>4 DEF RunCallback, appVars, sideVars
  <2> QED
    BY <2>1, OwnershipStays DEF WithWriter, WithReader, Unslotted, Ownership, TypeOK,
       ReaderTypeOK
<1>5. ASSUME RemoveSession PROVE Ownership' /\ CallsAreCarriedOnce'
  <2> USE <1>5 DEF RemoveSession
  <2> DEFINE x == reader.req
             n == reader.rsp.seq
  <2>1. n \in Slots(pool) /\ pool.data[n] = x /\ x \in Reqs /\ PoolOK(pool, Reqs)
    BY DEF Ownership, TypeOK, ReaderTypeOK
  <2>2. /\ Slots(pool') = Slots(pool) /\ pool'.data[n] = NULL
        /\ \A j \in Slots(pool) : j # n => pool'.data[j] = pool.data[j]
    BY <2>1, StoredIsStored DEF Removed
  <2>3. InPool' = InPool \ {x} /\ x \in InPool
    BY <2>1, <2>2, CallAssumption DEF InPool, Ownership, SlotsAreExclusive
  <2>4. SlotsAreExclusive'
    BY <2>1, <2>2, CallAssumption DEF Ownership, SlotsAreExclusive
  <2>5. /\ WithReader = {} /\ WithReader' = {x} /\ WithWriter' = WithWriter
        /\ Unslotted' = Unslotted
    BY <2>1 DEF WithReader, WithWriter, Unslotted, TypeOK, ReaderTypeOK, sideVars
  <2>6. UNCHANGED <<live, free, called, callOf, pending>> /\ reader'.pc = "free"
    BY DEF appVars, sideVars, TypeOK, ReaderTypeOK
  <2>7. PlacesAreDisjoint' /\ live' = Places'
    BY <2>3, <2>5, <2>6 DEF Ownership, PlacesAreDisjoint, Places
  <2>8. Ownership'
    BY <2>4, <2>6, <2>7 DEF Ownership, Places
  <2> QED
    BY <2>6, <2>8 DEF CallsAreCarriedOnce
<1>6. ASSUME FreeRequest PROVE Ownership' /\ CallsAreCarriedOnce'
  <2> USE <1>6 DEF FreeRequest
  <2> DEFINE x == reader.req
  <2>1. x \in Reqs /\ WithReader = {x}
    BY DEF WithReader, TypeOK, ReaderTypeOK
  <2>2. x \in live /\ x \notin Range(free.items)
    BY <2>1 DEF Ownership, PlacesAreDisjoint
  <2>3. Range(free'.items) \subseteq Range(free.items) \cup {x} /\ IsInjective(free'.items)
    <3>1. free' = free \/ free'.items = Append(free.items, x)
      BY <2>1, AddedToList DEF TypeOK
    <3>2. free.items \in Seq(Reqs) /\ IsInjective(free.items)
      BY DEF Ownership, TypeOK, AppTypeOK
    <3>3. CASE free'.items = Append(free.items, x)
      BY <2>1, <2>2, <3>2, <3>3, MembersAfterAppend
    <3> QED
      BY <3>1, <3>2, <3>3
  <2>4. reader' = AfterResponse /\ reader'.pc = "parse"
    BY DEF AfterResponse, TypeOK, ReaderTypeOK
  <2>5. /\ WithReader' = {} /\ WithWriter' = WithWriter /\ InPool' = InPool
        /\ Unslotted' = Unslotted
    BY <2>4 DEF WithReader, WithWriter, InPool, Unslotted, sideVars
  <2>6. PlacesAreDisjoint' /\ live' = Places'
    BY <2>1, <2>3, <2>5 DEF Ownership, PlacesAreDisjoint, Places
  <2>7. Ownership'
    BY <2>3, <2>4, <2>6 DEF Ownership, SlotsAreExclusive, Places
  <2> QED
    BY <2>7 DEF CallsAreCarriedOnce, TypeOK, AppTypeOK
<1> QED
  BY <1>1, <1>2, <1>3, <1>4, <1>5, <1>6 DEF Reader

(* Once a pop has returned another request than it unlinked, that stays.   *)
LEMMA UpsetStays == [Next]_vars /\ ~ upset' => ~ upset
BY DEF Next, Application, CallAsync, CallSync, ReturnSync, Timeout, Writer, WriterPop,
       WriterRead, WriterInsert, WriterInsertFails, WriterNumber, WriterSend, Register,
       Serve, Reader, ReadEvent, ReadDone, LookUp, RunCallback, RemoveSession, FreeRequest,
       vars, sideVars

LEMMA OwnershipStep ==
  ASSUME TypeOK, ~ upset => Ownership /\ CallsAreCarriedOnce, [Next]_vars, ~ upset'
  PROVE  Ownership' /\ CallsAreCarriedOnce'
<1>1. Ownership /\ CallsAreCarriedOnce
  BY UpsetStays
<1>2. ASSUME NEW k \in Conns, Register(k) \/ Serve(k) PROVE Ownership' /\ CallsAreCarriedOnce'
  BY <1>1, <1>2, OwnershipStays
     DEF Register, Serve, appVars, sideVars, WithWriter, WithReader, Unslotted, Ownership
<1>3. CASE UNCHANGED vars
  BY <1>1, <1>3, OwnershipStays
     DEF vars, sideVars, WithWriter, WithReader, Unslotted, Ownership
<1> QED
  BY <1>1, <1>2, <1>3, ApplicationOwnership, WriterOwnership, ReaderOwnership DEF Next

LEMMA OwnershipHolds == Spec => [](~ upset => Ownership /\ CallsAreCarriedOnce)
<1>1. /\ TypeOK /\ (~ upset => Ownership /\ CallsAreCarriedOnce) /\ [Next]_vars
      => (~ upset => Ownership /\ CallsAreCarriedOnce)'
  BY OwnershipStep
<1> QED
  BY <1>1, TypeCorrect, InitOwnership, PTL DEF Spec

(* The places counted by Owners are those of Ownership. *)
LEMMA PositionsInQueue ==
  ASSUME NEW S, NEW s \in Seq(S), IsInjective(s), NEW x
  PROVE  Cardinality({i \in 1 .. Len(s) : s[i] = x}) = IF x \in Range(s) THEN 1 ELSE 0
<1> DEFINE P == {i \in 1 .. Len(s) : s[i] = x}
<1>1. DOMAIN s = 1 .. Len(s)
  OBVIOUS
<1>2. CASE x \notin Range(s)
  <2>1. P = {}
    BY <1>1, <1>2 DEF Range
  <2> QED
    BY <1>2, <2>1, FS_EmptySet
<1>3. CASE x \in Range(s)
  <2>1. PICK i \in 1 .. Len(s) : s[i] = x
    BY <1>1, <1>3 DEF Range
  <2>2. P = {i}
    BY <1>1, <2>1 DEF IsInjective
  <2> QED
    BY <1>3, <2>2, FS_Singleton
<1> QED
  BY <1>2, <1>3

LEMMA PositionsInPool ==
  ASSUME SlotsAreExclusive, NEW r \in Reqs
  PROVE  Cardinality({i \in Slots(pool) : pool.data[i] = r}) = IF r \in InPool THEN 1 ELSE 0
<1> DEFINE P == {i \in Slots(pool) : pool.data[i] = r}
<1>1. CASE r \notin InPool
  <2>1. P = {}
    BY <1>1 DEF InPool
  <2> QED
    BY <1>1, <2>1, FS_EmptySet
<1>2. CASE r \in InPool
  <2>1. PICK i \in Slots(pool) : pool.data[i] = r
    BY <1>2 DEF InPool
  <2>2. P = {i}
    BY <2>1 DEF SlotsAreExclusive
  <2> QED
    BY <1>2, <2>2, FS_Singleton
<1> QED
  BY <1>1, <1>2

(* A request structure is in one place at a time (RequestsAreOwnedOnce):   *)
(* whatever responses come back, under whatever numbers, none is freed or  *)
(* handed out twice and none leaks, for any number of structures, slots,   *)
(* connections and calls, and whether or not the free list or the pool can *)
(* grow; as long as every pop so far has read its item before the item was *)
(* used again (rpc_async_queue.c:81-83).                                   *)
THEOREM StructuresHaveOneOwner == Spec => []RequestsAreOwnedOnce
<1>1. TypeOK /\ (~ upset => Ownership) => RequestsAreOwnedOnce
  <2> SUFFICES ASSUME TypeOK, Ownership, NEW r \in Reqs
               PROVE  LET listed == Cardinality({i \in 1 .. Len(free.items) : free.items[i] = r})
                      IN  IF r \in live THEN Owners(r) = 1 /\ listed = 0
                                        ELSE Owners(r) = 0 /\ listed <= 1
    BY DEF RequestsAreOwnedOnce
  <2>1. Cardinality({i \in 1 .. Len(pending) : pending[i] = r})
          = IF r \in Range(pending) THEN 1 ELSE 0
    BY PositionsInQueue DEF TypeOK, WriterTypeOK, Ownership
  <2>2. Cardinality({i \in 1 .. Len(free.items) : free.items[i] = r})
          = IF r \in Range(free.items) THEN 1 ELSE 0
    BY PositionsInQueue DEF TypeOK, AppTypeOK, Ownership
  <2>3. Cardinality({i \in Slots(pool) : pool.data[i] = r}) = IF r \in InPool THEN 1 ELSE 0
    BY PositionsInPool DEF Ownership
  <2>4. /\ r \in WithWriter <=> writer.pc \in {"read", "insert"} /\ writer.req = r
        /\ r \in WithReader <=> reader.pc = "free" /\ reader.req = r
        /\ r \in Unslotted <=> failed = r
    BY DEF WithWriter, WithReader, Unslotted
  <2>5. Owners(r) = (IF r \in Range(pending) THEN 1 ELSE 0) + (IF r \in InPool THEN 1 ELSE 0)
                    + (IF r \in WithWriter THEN 1 ELSE 0) + (IF r \in WithReader THEN 1 ELSE 0)
                    + (IF r \in Unslotted THEN 1 ELSE 0)
    BY <2>1, <2>3, <2>4, Zenon DEF Owners
  <2>6. CASE r \in live
    <3>1. r \notin Range(free.items)
      BY <2>6 DEF Ownership, PlacesAreDisjoint
    <3>2. Owners(r) = 1
      BY <2>5, <2>6 DEF Ownership, PlacesAreDisjoint
    <3> QED
      BY <2>2, <2>6, <3>1, <3>2
  <2>7. CASE r \notin live
    <3>1. Owners(r) = 0
      BY <2>5, <2>7 DEF Ownership
    <3> QED
      BY <2>2, <2>7, <3>1
  <2> QED
    BY <2>6, <2>7
<1> QED
  BY <1>1, TypeCorrect, OwnershipHolds, PTL

-----------------------------------------------------------------------------
(* The numbers on their way. *)

(* Concatenation under a name of its own, which the provers leave alone. *)
Cat(s, t) == s \o t

LEMMA CatSeq == \A a, b \in Seq(Int) : Cat(a, b) \in Seq(Int)
BY DEF Cat

LEMMA CatAssoc == \A a, b, c \in Seq(Int) : Cat(Cat(a, b), c) = Cat(a, Cat(b, c))
<1> SUFFICES ASSUME NEW a \in Seq(Int), NEW b \in Seq(Int), NEW c \in Seq(Int)
             PROVE  (a \o b) \o c = a \o (b \o c)
  BY DEF Cat
<1> QED
  BY ConcatAssociative

LEMMA CatAt ==
  \A a, b \in Seq(Int) :
    /\ Len(Cat(a, b)) = Len(a) + Len(b) /\ Len(a) \in Nat /\ Len(b) \in Nat
    /\ \A i \in 1 .. (Len(a) + Len(b)) :
         Cat(a, b)[i] = IF i <= Len(a) THEN a[i] ELSE b[i - Len(a)]
BY DEF Cat

LEMMA CatHead ==
  \A c \in Seq(Int) : c # <<>> =>
    /\ Head(c) \in Int /\ Tail(c) \in Seq(Int) /\ <<Head(c)>> \in Seq(Int)
    /\ Cat(<<Head(c)>>, Tail(c)) = c
BY DEF Cat

LEMMA CatAppend == \A b \in Seq(Int), n \in Int : Append(b, n) = Cat(b, <<n>>) /\ <<n>> \in Seq(Int)
BY DEF Cat

LEMMA HeadOfCat ==
  \A a, b \in Seq(Int) : a # <<>> =>
    Cat(a, b) # <<>> /\ Head(Cat(a, b)) = Head(a) /\ Tail(Cat(a, b)) = Cat(Tail(a), b)
BY DEF Cat

LEMMA NumsOfSeq ==
  ASSUME NEW S, NEW s \in Seq(S), \A m \in S : m.seq \in Int
  PROVE  /\ Nums(s) \in Seq(Int) /\ Len(Nums(s)) = Len(s) /\ Len(s) \in Nat
         /\ \A i \in 1 .. Len(s) : Nums(s)[i] = s[i].seq
<1>1. Len(s) \in Nat /\ \A i \in 1 .. Len(s) : s[i] \in S
  OBVIOUS
<1> QED
  BY <1>1 DEF Nums

LEMMA NumsOfAppend ==
  ASSUME NEW S, NEW s \in Seq(S), \A m \in S : m.seq \in Int, NEW x \in S
  PROVE  Nums(Append(s, x)) = Append(Nums(s), x.seq)
<1>1. /\ Append(s, x) \in Seq(S) /\ Len(Append(s, x)) = Len(s) + 1 /\ Len(s) \in Nat
      /\ \A i \in 1 .. Len(s) : Append(s, x)[i] = s[i]
      /\ Append(s, x)[Len(s) + 1] = x
  OBVIOUS
<1>2. /\ Nums(s) \in Seq(Int) /\ Len(Nums(s)) = Len(s)
      /\ \A i \in 1 .. Len(s) : Nums(s)[i] = s[i].seq
  BY NumsOfSeq
<1>3. /\ Nums(Append(s, x)) \in Seq(Int) /\ Len(Nums(Append(s, x))) = Len(s) + 1
      /\ \A i \in 1 .. (Len(s) + 1) : Nums(Append(s, x))[i] = Append(s, x)[i].seq
  BY <1>1, NumsOfSeq
<1> DEFINE l == Len(s)
           a == Append(s, x)
           u == Nums(a)
           v == Append(Nums(s), x.seq)
<1>4. /\ v \in Seq(Int) /\ Len(v) = l + 1 /\ v[l + 1] = x.seq
      /\ \A i \in 1 .. l : v[i] = Nums(s)[i]
  BY <1>1, <1>2
<1>5. /\ u \in Seq(Int) /\ Len(u) = l + 1 /\ l \in Nat /\ a[l + 1] = x
      /\ \A i \in 1 .. (l + 1) : u[i] = a[i].seq
      /\ \A i \in 1 .. l : a[i] = s[i] /\ Nums(s)[i] = s[i].seq
  BY <1>1, <1>2, <1>3
<1> HIDE DEF l, a, u, v
<1>6. \A i \in 1 .. (l + 1) : u[i] = v[i]
  <2> TAKE i \in 1 .. (l + 1)
  <2>1. i \in 1 .. l \/ i = l + 1
    BY <1>5
  <2> QED
    BY <1>4, <1>5, <2>1
<1>7. u = v
  BY <1>4, <1>5, <1>6, SeqEqual
<1> QED
  BY <1>7 DEF u, v, a

LEMMA NumsOfTail ==
  ASSUME NEW S, NEW s \in Seq(S), \A m \in S : m.seq \in Int, s # <<>>
  PROVE  Nums(s) # <<>> /\ Head(Nums(s)) = Head(s).seq /\ Nums(Tail(s)) = Tail(Nums(s))
<1>1. /\ Head(s) = s[1] /\ Tail(s) \in Seq(S) /\ Len(Tail(s)) = Len(s) - 1
      /\ Len(s) \in Nat \ {0} /\ \A i \in 1 .. Len(Tail(s)) : Tail(s)[i] = s[i + 1]
  BY MembersAfterTail
<1>2. /\ Nums(s) \in Seq(Int) /\ Len(Nums(s)) = Len(s)
      /\ \A i \in 1 .. Len(s) : Nums(s)[i] = s[i].seq
  BY NumsOfSeq
<1>3. /\ Nums(Tail(s)) \in Seq(Int) /\ Len(Nums(Tail(s))) = Len(s) - 1
      /\ \A i \in 1 .. (Len(s) - 1) : Nums(Tail(s))[i] = Tail(s)[i].seq
  BY <1>1, NumsOfSeq
<1>4. /\ Nums(s) # <<>> /\ Head(Nums(s)) = Nums(s)[1]
      /\ Tail(Nums(s)) \in Seq(Int) /\ Len(Tail(Nums(s))) = Len(s) - 1
      /\ \A i \in 1 .. (Len(s) - 1) : Tail(Nums(s))[i] = Nums(s)[i + 1]
  BY <1>1, <1>2, MembersAfterTail
<1>5. ASSUME NEW i \in 1 .. (Len(s) - 1) PROVE Nums(Tail(s))[i] = Tail(Nums(s))[i]
  <2>1. i + 1 \in 1 .. Len(s) /\ Tail(s)[i] = s[i + 1]
    BY <1>1
  <2> QED
    BY <2>1, <1>2, <1>3, <1>4
<1>6. Nums(Tail(s)) = Tail(Nums(s))
  BY <1>3, <1>4, <1>5, SeqEqual
<1>7. Head(Nums(s)) = Head(s).seq
  <2>1. 1 \in 1 .. Len(s)
    BY <1>1
  <2> QED
    BY <1>1, <1>2, <1>4, <2>1
<1> QED
  BY <1>4, <1>6, <1>7

LEMMA NumsOfConcat ==
  ASSUME NEW S, NEW s \in Seq(S), NEW t \in Seq(S), \A m \in S : m.seq \in Int
  PROVE  Nums(s \o t) = Cat(Nums(s), Nums(t))
<1>1. /\ s \o t \in Seq(S) /\ Len(s \o t) = Len(s) + Len(t)
      /\ \A i \in 1 .. Len(s) + Len(t) :
           (s \o t)[i] = IF i <= Len(s) THEN s[i] ELSE t[i - Len(s)]
  BY ConcatProperties
<1>2. /\ Nums(s) \in Seq(Int) /\ Len(Nums(s)) = Len(s) /\ Len(s) \in Nat
      /\ \A i \in 1 .. Len(s) : Nums(s)[i] = s[i].seq
      /\ Nums(t) \in Seq(Int) /\ Len(Nums(t)) = Len(t) /\ Len(t) \in Nat
      /\ \A i \in 1 .. Len(t) : Nums(t)[i] = t[i].seq
  BY NumsOfSeq
<1>3. /\ Nums(s \o t) \in Seq(Int) /\ Len(Nums(s \o t)) = Len(s) + Len(t)
      /\ \A i \in 1 .. (Len(s) + Len(t)) : Nums(s \o t)[i] = (s \o t)[i].seq
  BY <1>1, <1>2, NumsOfSeq
<1>4. /\ Cat(Nums(s), Nums(t)) \in Seq(Int)
      /\ Len(Cat(Nums(s), Nums(t))) = Len(s) + Len(t)
      /\ \A i \in 1 .. (Len(s) + Len(t)) :
           Cat(Nums(s), Nums(t))[i] = IF i <= Len(s) THEN Nums(s)[i] ELSE Nums(t)[i - Len(s)]
  <2>1. Cat(Nums(s), Nums(t)) \in Seq(Int)
    BY <1>2, CatSeq, Zenon
  <2>2. /\ Len(Cat(Nums(s), Nums(t))) = Len(Nums(s)) + Len(Nums(t))
        /\ \A i \in 1 .. (Len(Nums(s)) + Len(Nums(t))) :
             Cat(Nums(s), Nums(t))[i] = IF i <= Len(Nums(s)) THEN Nums(s)[i]
                                        ELSE Nums(t)[i - Len(Nums(s))]
    BY <1>2, CatAt, Zenon
  <2>3. Len(Nums(s)) = Len(s) /\ Len(Nums(t)) = Len(t)
    BY <1>2
  <2> QED
    BY <2>1, <2>2, <2>3, Zenon
<1>5. ASSUME NEW i \in 1 .. (Len(s) + Len(t))
      PROVE  Nums(s \o t)[i] = Cat(Nums(s), Nums(t))[i]
  <2>1. CASE i <= Len(s)
    <3>1. i \in 1 .. Len(s)
      BY <1>2, <2>1
    <3> QED
      BY <1>1, <1>2, <1>3, <1>4, <2>1, <3>1
  <2>2. CASE ~ (i <= Len(s))
    <3>1. i - Len(s) \in 1 .. Len(t)
      BY <1>2, <2>2
    <3> QED
      BY <1>1, <1>2, <1>3, <1>4, <2>2, <3>1
  <2> QED
    BY <2>1, <2>2
<1> QED
  BY <1>3, <1>4, <1>5, SeqEqual

(* All messages carry integers. *)
LEMMA NumbersAreInts ==
  ASSUME TypeOK, NEW k \in Conns
  PROVE  /\ Nums(rbuf[k]) \in Seq(Int) /\ Len(Nums(rbuf[k])) = Len(rbuf[k])
         /\ Nums(responses[k]) \in Seq(Int) /\ Len(Nums(responses[k])) = Len(responses[k])
         /\ Nums(requests[k]) \in Seq(Int) /\ Len(Nums(requests[k])) = Len(requests[k])
         /\ Numbers(k) \in Seq(Int)
         /\ \A m \in Requests \cup Responses : m.seq \in Int
<1>1. \A m \in Requests \cup Responses : m.seq \in Int
  BY DEF Requests, Responses
<1>2. /\ rbuf[k] \in Seq(Responses) /\ responses[k] \in Seq(Responses)
      /\ requests[k] \in Seq(Requests)
  BY DEF TypeOK, NetTypeOK
<1>3. /\ Nums(rbuf[k]) \in Seq(Int) /\ Len(Nums(rbuf[k])) = Len(rbuf[k])
      /\ Nums(responses[k]) \in Seq(Int) /\ Len(Nums(responses[k])) = Len(responses[k])
      /\ Nums(requests[k]) \in Seq(Int) /\ Len(Nums(requests[k])) = Len(requests[k])
  BY <1>1, <1>2, NumsOfSeq
<1> QED
  BY <1>1, <1>3 DEF Numbers

(* A request sent goes to the end of the numbers of its connection,        *)
LEMMA NumbersAfterSend ==
  ASSUME NEW a \in Seq(Int), NEW b \in Seq(Int), NEW c \in Seq(Int), NEW n \in Int
  PROVE  Cat(Cat(a, b), Append(c, n)) = Append(Cat(Cat(a, b), c), n)
<1>1. /\ <<n>> \in Seq(Int) /\ Cat(a, b) \in Seq(Int) /\ Cat(Cat(a, b), c) \in Seq(Int)
      /\ Append(c, n) = Cat(c, <<n>>)
  BY CatAppend, CatSeq, Zenon
<1>2. Append(Cat(Cat(a, b), c), n) = Cat(Cat(Cat(a, b), c), <<n>>)
  BY <1>1, CatAppend, Zenon
<1>3. Cat(Cat(Cat(a, b), c), <<n>>) = Cat(Cat(a, b), Cat(c, <<n>>))
  <2> DEFINE d == Cat(a, b)
             e == <<n>>
  <2>1. d \in Seq(Int) /\ e \in Seq(Int)
    BY <1>1
  <2> HIDE DEF d, e
  <2>2. Cat(Cat(d, c), e) = Cat(d, Cat(c, e))
    BY <2>1, CatAssoc
  <2> QED
    BY <2>2 DEF d, e
<1> QED
  BY <1>1, <1>2, <1>3, Zenon

(* a request served and a response read stay where they are,               *)
LEMMA NumbersAfterServe ==
  ASSUME NEW a \in Seq(Int), NEW b \in Seq(Int), NEW c \in Seq(Int), c # <<>>
  PROVE  Cat(Cat(a, Append(b, Head(c))), Tail(c)) = Cat(Cat(a, b), c)
<1>1. /\ <<Head(c)>> \in Seq(Int) /\ Cat(<<Head(c)>>, Tail(c)) = c /\ Tail(c) \in Seq(Int)
      /\ Append(b, Head(c)) = Cat(b, <<Head(c)>>)
  BY CatHead, CatAppend, Zenon
<1>2. Cat(Cat(b, <<Head(c)>>), Tail(c)) = Cat(b, Cat(<<Head(c)>>, Tail(c)))
  BY <1>1, CatAssoc, Zenon
<1>3. Cat(b, <<Head(c)>>) \in Seq(Int)
  BY <1>1, CatSeq, Zenon
<1>4. Cat(Cat(a, Cat(b, <<Head(c)>>)), Tail(c)) = Cat(a, Cat(Cat(b, <<Head(c)>>), Tail(c)))
  <2> DEFINE h == <<Head(c)>>
             t == Tail(c)
             x == Cat(b, h)
  <2>1. t \in Seq(Int) /\ x \in Seq(Int)
    BY <1>1, <1>3
  <2> HIDE DEF h, t, x
  <2>2. Cat(Cat(a, x), t) = Cat(a, Cat(x, t))
    BY <2>1, CatAssoc
  <2> QED
    BY <2>2 DEF h, t, x
<1>5. Cat(Cat(a, b), c) = Cat(a, Cat(b, c))
  BY CatAssoc, Zenon
<1> QED
  BY <1>1, <1>2, <1>4, <1>5, Zenon

LEMMA NumbersAfterRead ==
  ASSUME NEW a \in Seq(Int), NEW b \in Seq(Int), NEW c \in Seq(Int), NEW d \in Seq(Int)
  PROVE  Cat(Cat(Cat(a, b), c), d) = Cat(Cat(a, Cat(b, c)), d)
BY CatAssoc, Zenon

(* and a response looked up was the first.                                 *)
LEMMA NumbersAfterLookUp ==
  ASSUME NEW a \in Seq(Int), NEW b \in Seq(Int), NEW c \in Seq(Int), a # <<>>
  PROVE  /\ Cat(Cat(a, b), c) # <<>> /\ Head(Cat(Cat(a, b), c)) = Head(a)
         /\ Tail(Cat(Cat(a, b), c)) = Cat(Cat(Tail(a), b), c)
<1>1. /\ Cat(a, b) \in Seq(Int) /\ Cat(a, b) # <<>> /\ Head(Cat(a, b)) = Head(a)
      /\ Tail(Cat(a, b)) = Cat(Tail(a), b)
  BY HeadOfCat, CatSeq, Zenon
<1>2. /\ Cat(Cat(a, b), c) # <<>> /\ Head(Cat(Cat(a, b), c)) = Head(Cat(a, b))
      /\ Tail(Cat(Cat(a, b), c)) = Cat(Tail(Cat(a, b)), c)
  BY <1>1, HeadOfCat, Zenon
<1> QED
  BY <1>1, <1>2, Zenon

-----------------------------------------------------------------------------
(* The numbers of a connection are those of its messages. *)

OnTheWay(n) == \E k \in Conns : n \in Range(Numbers(k))

LEMMA NumbersOfMessages ==
  ASSUME TypeOK, NEW k \in Conns
  PROVE  Range(Numbers(k)) = Range(Nums(rbuf[k])) \cup Range(Nums(responses[k]))
                               \cup Range(Nums(requests[k]))
<1> DEFINE a == Nums(rbuf[k])
           b == Nums(responses[k])
           c == Nums(requests[k])
<1>1. a \in Seq(Int) /\ b \in Seq(Int) /\ c \in Seq(Int)
  BY NumbersAreInts
<1>2. Numbers(k) = Cat(Cat(a, b), c)
  BY DEF Numbers, Cat
<1> HIDE DEF a, b, c
<1>3. \A s, t \in Seq(Int) : Range(Cat(s, t)) = Range(s) \cup Range(t)
  BY RangeConcatenation DEF Cat
<1>4. Cat(a, b) \in Seq(Int)
  BY <1>1, CatSeq
<1>5. Range(Cat(a, b)) = Range(a) \cup Range(b)
  BY <1>1, <1>3
<1>6. Range(Cat(Cat(a, b), c)) = Range(Cat(a, b)) \cup Range(c)
  BY <1>1, <1>3, <1>4
<1> QED
  BY <1>2, <1>5, <1>6 DEF a, b, c

LEMMA MessagesAreOnTheWay ==
  ASSUME TypeOK, NEW k \in Conns
  PROVE  /\ \A i \in 1 .. Len(requests[k]) : OnTheWay(requests[k][i].seq)
         /\ \A i \in 1 .. Len(responses[k]) : OnTheWay(responses[k][i].seq)
         /\ \A i \in 1 .. Len(rbuf[k]) : OnTheWay(rbuf[k][i].seq)
<1>1. ASSUME NEW s, NEW S, s \in Seq(S), \A m \in S : m.seq \in Int, NEW i \in 1 .. Len(s)
      PROVE  s[i].seq \in Range(Nums(s))
  <2>1. i \in DOMAIN Nums(s) /\ Nums(s)[i] = s[i].seq
    BY <1>1, NumsOfSeq
  <2> QED
    BY <2>1 DEF Range
<1>2. /\ rbuf[k] \in Seq(Responses) /\ responses[k] \in Seq(Responses)
      /\ requests[k] \in Seq(Requests) /\ \A m \in Requests \cup Responses : m.seq \in Int
  BY NumbersAreInts DEF TypeOK, NetTypeOK
<1> QED
  BY <1>1, <1>2, NumbersOfMessages DEF OnTheWay

(* So a number on its way is the slot of a request, or there is a request  *)
(* without one.                                                            *)
LEMMA OnTheWayIsTied ==
  ASSUME TypeOK, MessagesAreTied, NEW n, OnTheWay(n)
  PROVE  \/ n \in Slots(pool) /\ pool.data[n] \in live
         \/ n = -1 /\ failed \in live
<1>1. PICK k \in Conns : n \in Range(Numbers(k))
  BY DEF OnTheWay
<1>2. ASSUME NEW s, NEW S, s \in Seq(S), \A m \in S : m.seq \in Int,
             n \in Range(Nums(s))
      PROVE  \E i \in 1 .. Len(s) : n = s[i].seq
  BY <1>2, NumsOfSeq DEF Range
<1>3. /\ rbuf[k] \in Seq(Responses) /\ responses[k] \in Seq(Responses)
      /\ requests[k] \in Seq(Requests) /\ \A m \in Requests \cup Responses : m.seq \in Int
  BY NumbersAreInts DEF TypeOK, NetTypeOK
<1>4. CASE n \in Range(Nums(requests[k]))
  <2>1. PICK i \in 1 .. Len(requests[k]) : n = requests[k][i].seq
    BY <1>2, <1>3, <1>4
  <2>2. Tied(n, requests[k][i].call)
    BY <2>1 DEF MessagesAreTied
  <2> QED
    BY <2>2 DEF Tied, InSlot, Adrift
<1>5. CASE n \in Range(Nums(responses[k]))
  <2>1. PICK i \in 1 .. Len(responses[k]) : n = responses[k][i].seq
    BY <1>2, <1>3, <1>5
  <2>2. Tied(n, responses[k][i].answer.of)
    BY <2>1 DEF MessagesAreTied
  <2> QED
    BY <2>2 DEF Tied, InSlot, Adrift
<1>6. CASE n \in Range(Nums(rbuf[k]))
  <2>1. PICK i \in 1 .. Len(rbuf[k]) : n = rbuf[k][i].seq
    BY <1>2, <1>3, <1>6
  <2>2. Tied(n, rbuf[k][i].answer.of)
    BY <2>1 DEF MessagesAreTied
  <2> QED
    BY <2>2 DEF Tied, InSlot, Adrift
<1> QED
  BY <1>1, <1>4, <1>5, <1>6, NumbersOfMessages

-----------------------------------------------------------------------------
(* The steps that leave the messages where they are, and the ties of what  *)
(* is on its way.                                                          *)
TiesStay == \A n : \A c : OnTheWay(n) /\ Tied(n, c) => Tied(n, c)'

LEMMA MessagesStayTied ==
  ASSUME TypeOK, MessagesAreTied, UNCHANGED <<requests, responses, rbuf>>, TiesStay
  PROVE  MessagesAreTied'
<1>1. ASSUME NEW k \in Conns, NEW i \in 1 .. Len(requests[k])
      PROVE  Tied(requests[k][i].seq, requests[k][i].call)'
  BY <1>1, MessagesAreOnTheWay DEF MessagesAreTied, TiesStay
<1>2. ASSUME NEW k \in Conns, NEW i \in 1 .. Len(responses[k])
      PROVE  Tied(responses[k][i].seq, responses[k][i].answer.of)'
  BY <1>2, MessagesAreOnTheWay DEF MessagesAreTied, TiesStay
<1>3. ASSUME NEW k \in Conns, NEW i \in 1 .. Len(rbuf[k])
      PROVE  Tied(rbuf[k][i].seq, rbuf[k][i].answer.of)'
  BY <1>3, MessagesAreOnTheWay DEF MessagesAreTied, TiesStay
<1> QED
  BY <1>1, <1>2, <1>3 DEF MessagesAreTied

(* No thread takes up a number. *)
LEMMA NumbersStayDistinct ==
  ASSUME NumbersAreDistinct, \A k \in Conns : Numbers(k)' = Numbers(k),
         writer'.pc \in {"number", "send"} =>
           writer.pc \in {"number", "send"} /\ writer'.slot = writer.slot,
         reader'.pc \in {"callback", "remove"} =>
           reader.pc \in {"callback", "remove"} /\ reader'.rsp.seq = reader.rsp.seq
  PROVE  NumbersAreDistinct'
BY DEF NumbersAreDistinct
-----------------------------------------------------------------------------
(* What keeps the messages tied, one lemma for each action. *)
Sound == TypeOK /\ Ownership /\ CallsAreCarriedOnce

Flow == MessagesAreTied /\ NumbersAreDistinct /\ ThreadsHoldTheirs /\ LiveAreUnanswered

LEMMA InitFlow == Init => Flow
<1> SUFFICES ASSUME Init PROVE Flow
  OBVIOUS
<1> USE CallAssumption DEF Init
<1>1. \A k \in Conns : /\ requests[k] = <<>> /\ responses[k] = <<>> /\ rbuf[k] = <<>>
                       /\ Numbers(k) = <<>>
  BY DEF Numbers, Nums
<1>2. MessagesAreTied
  BY <1>1 DEF MessagesAreTied
<1>3. NumbersAreDistinct
  BY <1>1 DEF NumbersAreDistinct, IdleWriter, IdleReader
<1> QED
  BY <1>2, <1>3 DEF Flow, ThreadsHoldTheirs, LiveAreUnanswered, IdleWriter, IdleReader

(* The read thread holds the request it took, in the pool or after it.     *)
LEMMA ReaderHolds ==
  ASSUME Sound, reader.pc \in {"callback", "remove", "free"}
  PROVE  /\ reader.req \in live /\ reader.req \in Reqs
         /\ reader.pc \in {"callback", "remove"} =>
              reader.rsp.seq \in Slots(pool) /\ pool.data[reader.rsp.seq] = reader.req
         /\ reader.pc = "free" => reader.req \notin InPool
BY DEF Sound, Ownership, PlacesAreDisjoint, InPool, WithReader, TypeOK, ReaderTypeOK

(* The steps that change neither a request nor a message. *)
LEMMA FlowStays ==
  ASSUME Sound, Flow,
         UNCHANGED <<called, live, callOf, seqOf, pool, requests, responses, rbuf, answers,
                     failed>>,
         writer'.pc \in {"number", "send"} => writer' = writer,
         reader' = reader \/ {reader.pc, reader'.pc} \subseteq {"poll", "parse"}
  PROVE  Flow'
<1>1. TiesStay
  BY DEF TiesStay, Tied, InSlot, Adrift, Slots
<1>2. MessagesAreTied'
  BY <1>1, MessagesStayTied DEF Sound, Flow
<1>3. NumbersAreDistinct'
  BY NumbersStayDistinct DEF Flow, Numbers
<1>4. ThreadsHoldTheirs'
  BY DEF Flow, ThreadsHoldTheirs, Slots
<1>5. LiveAreUnanswered'
  BY DEF Flow, LiveAreUnanswered
<1> QED
  BY <1>2, <1>3, <1>4, <1>5 DEF Flow

(* A call takes a structure that was not live, so it changes nobody's call.*)
LEMMA CallAsyncFlow ==
  ASSUME Sound, Flow, NEW c \in Calls, CallAsync(c)
  PROVE  Flow'
<1> USE DEF CallAsync
<1>1. PICK r \in Taken : /\ live' = live \cup {r}
                         /\ callOf' = [callOf EXCEPT ![r] = c]
  OBVIOUS
<1>2. r \in Reqs /\ r \notin live
  <2>1. CASE free.items = <<>>
    BY <2>1, TakenIsFree DEF Sound
  <2>2. CASE free.items # <<>>
    <3>1. Last(free.items) \in Range(free.items)
      BY <2>2, MembersAfterFront DEF Sound, TypeOK, AppTypeOK
    <3> QED
      BY <2>2, <3>1, TakenIsFree DEF Sound, Ownership, PlacesAreDisjoint
  <2> QED
    BY <2>1, <2>2
<1>3. \A q \in live : q \in live' /\ callOf'[q] = callOf[q]
  BY <1>1, <1>2 DEF Sound, TypeOK, AppTypeOK
<1>4. TiesStay
  BY <1>3 DEF TiesStay, Tied, InSlot, Adrift, Slots
<1>5. MessagesAreTied'
  BY <1>4, MessagesStayTied DEF Sound, Flow
<1>6. NumbersAreDistinct'
  BY NumbersStayDistinct DEF Flow, Numbers
<1>7. ThreadsHoldTheirs'
  BY <1>3, ReaderHolds DEF Flow, ThreadsHoldTheirs, Slots
<1>8. LiveAreUnanswered'
  BY <1>1, <1>2, <1>3 DEF Flow, LiveAreUnanswered, Sound, TypeOK, AppTypeOK
<1> QED
  BY <1>5, <1>6, <1>7, <1>8 DEF Flow

LEMMA ApplicationFlow ==
  ASSUME Sound, Flow, Application
  PROVE  Flow'
<1>1. ASSUME ReturnSync \/ Timeout PROVE Flow'
  BY <1>1, FlowStays DEF ReturnSync, Timeout, appVars, sideVars
<1>2. ASSUME NEW c \in Sync, CallSync(c) PROVE CallAsync(c) /\ c \in Calls
  BY <1>2, CallAssumption DEF CallSync
<1> QED
  BY <1>1, <1>2, CallAsyncFlow DEF Application

(* The slot a request is put into was free, so no message has its number.  *)
LEMMA WriterInsertFlow ==
  ASSUME Sound, Flow, WriterInsert
  PROVE  Flow'
<1> USE DEF WriterInsert
<1> DEFINE x == writer.req
<1>1. x \in Reqs /\ PoolOK(pool, Reqs)
  BY DEF Sound, TypeOK, WriterTypeOK
<1>2. PICK r \in InsertResults(pool, x) :
        pool' = r.pool /\ writer' = [writer EXCEPT !.pc = "number", !.slot = r.slot]
  BY Zenon
<1>3. /\ Slots(pool) \subseteq Slots(pool') /\ r.slot \in Slots(pool')
      /\ pool'.data[r.slot] = x
      /\ r.slot \in Slots(pool) => pool.data[r.slot] = NULL
      /\ \A j \in Slots(pool) : j # r.slot => pool'.data[j] = pool.data[j]
  BY <1>1, <1>2, InsertStores
<1>4. writer'.pc = "number" /\ writer'.slot = r.slot /\ writer'.req = x
  BY <1>2 DEF Sound, TypeOK, WriterTypeOK
<1>5. \A n \in Slots(pool) : pool.data[n] \in Reqs => n # r.slot /\ pool'.data[n] = pool.data[n]
  BY <1>3, CallAssumption
<1>6. live \subseteq Reqs
  BY DEF Sound, TypeOK, AppTypeOK
<1>7. TiesStay
  BY <1>3, <1>5, <1>6 DEF TiesStay, Tied, InSlot, Adrift, appVars, sideVars
<1>8. MessagesAreTied'
  BY <1>7, MessagesStayTied DEF Sound, Flow
<1>9. \A n : OnTheWay(n) => n # r.slot
  <2>1. failed \notin live
    BY <1>6, CallAssumption
  <2> QED
    BY <1>5, <1>6, <2>1, OnTheWayIsTied DEF Sound, Flow
<1>10. reader.pc \in {"callback", "remove"} => reader.rsp.seq # r.slot
  BY <1>5, ReaderHolds
<1>11. NumbersAreDistinct'
  <2>1. \A k \in Conns : Numbers(k)' = Numbers(k)
    BY DEF Numbers
  <2>2. \A k \in Conns : \A i \in DOMAIN Numbers(k) : Numbers(k)[i] # r.slot
    BY <1>9 DEF OnTheWay, Range
  <2> QED
    BY <1>4, <1>10, <2>1, <2>2 DEF Flow, NumbersAreDistinct
<1>12. ThreadsHoldTheirs'
  BY <1>3, <1>4 DEF Flow, ThreadsHoldTheirs, appVars, sideVars
<1>13. LiveAreUnanswered'
  BY DEF Flow, LiveAreUnanswered, appVars, sideVars
<1> QED
  BY <1>8, <1>11, <1>12, <1>13 DEF Flow

(* When the insert fails no message bears -1 yet. *)
LEMMA WriterInsertFailsFlow ==
  ASSUME Sound, Flow, WriterInsertFails
  PROVE  Flow'
<1>1. /\ UNCHANGED <<called, live, callOf, seqOf, pool, requests, responses, rbuf, answers,
                    reader>>
      /\ failed = NULL /\ failed' = writer.req
      /\ writer'.pc = "number" /\ writer'.slot = -1 /\ writer'.req = writer.req
  BY DEF WriterInsertFails, appVars, Sound, TypeOK, WriterTypeOK
<1>2. failed \notin live /\ \A n \in Slots(pool) : n # -1
  BY <1>1, CallAssumption DEF Sound, TypeOK, AppTypeOK, PoolOK, Slots
<1>3. TiesStay
  BY <1>1, <1>2 DEF TiesStay, Tied, InSlot, Adrift, Slots
<1>4. MessagesAreTied'
  BY <1>1, <1>3, MessagesStayTied DEF Sound, Flow
<1>5. \A n : OnTheWay(n) => n # -1
  BY <1>2, OnTheWayIsTied DEF Sound, Flow
<1>6. reader.pc \in {"callback", "remove"} => reader.rsp.seq # -1
  BY <1>2, ReaderHolds
<1>7. NumbersAreDistinct'
  <2>1. \A k \in Conns : Numbers(k)' = Numbers(k)
    BY <1>1 DEF Numbers
  <2>2. \A k \in Conns : \A i \in DOMAIN Numbers(k) : Numbers(k)[i] # -1
    BY <1>5 DEF OnTheWay, Range
  <2> QED
    BY <1>1, <1>6, <2>1, <2>2 DEF Flow, NumbersAreDistinct
<1>8. ThreadsHoldTheirs'
  BY <1>1 DEF Flow, ThreadsHoldTheirs
<1>9. LiveAreUnanswered'
  BY <1>1 DEF Flow, LiveAreUnanswered
<1> QED
  BY <1>4, <1>7, <1>8, <1>9 DEF Flow

(* What the write thread works on after the insert. *)
LEMMA WriterHolds ==
  ASSUME Sound, Flow, writer.pc \in {"number", "send"}
  PROVE  /\ writer.req \in Reqs /\ writer.req \in live /\ writer.slot \in Int
         /\ \/ writer.slot \in Slots(pool) /\ pool.data[writer.slot] = writer.req
            \/ writer.slot = -1 /\ failed = writer.req
BY DEF Sound, Flow, TypeOK, WriterTypeOK, ThreadsHoldTheirs, Ownership, InPool, Unslotted

(* The request numbered is in a slot of its own, or in none, and its       *)
(* number is on no message yet.                                            *)
LEMMA WriterNumberFlow ==
  ASSUME Sound, Flow, WriterNumber
  PROVE  Flow'
<1> USE DEF WriterNumber
<1> DEFINE x == writer.req
<1>1. /\ x \in Reqs /\ writer.slot \in Int
      /\ \/ writer.slot \in Slots(pool) /\ pool.data[writer.slot] = x
         \/ failed = x
  BY WriterHolds
<1>2. seqOf'[x] = writer.slot /\ \A q \in Reqs \ {x} : seqOf'[q] = seqOf[q]
  BY <1>1 DEF Sound, TypeOK, AppTypeOK
<1>3. writer'.pc = "send" /\ writer'.slot = writer.slot /\ writer'.req = x
  BY DEF Sound, TypeOK, WriterTypeOK
<1>4. \A n : OnTheWay(n) => n # writer.slot
  BY DEF OnTheWay, Range, Flow, NumbersAreDistinct
<1>5. \A n \in Slots(pool) : OnTheWay(n) /\ pool.data[n] \in live => pool.data[n] \in Reqs \ {x}
  <2>1. live \subseteq Reqs
    BY DEF Sound, TypeOK, AppTypeOK
  <2>2. failed = x => x \notin InPool
    BY <1>1 DEF Sound, Ownership, PlacesAreDisjoint, Unslotted
  <2> QED
    BY <1>1, <1>4, <2>1, <2>2 DEF Sound, Ownership, SlotsAreExclusive, InPool
<1>6. TiesStay
  BY <1>2, <1>5 DEF TiesStay, Tied, InSlot, Adrift, appVars, sideVars
<1>7. MessagesAreTied'
  BY <1>6, MessagesStayTied DEF Sound, Flow
<1>8. NumbersAreDistinct'
  BY <1>3, NumbersStayDistinct DEF Flow, Numbers
<1>9. ThreadsHoldTheirs'
  BY <1>1, <1>2, <1>3 DEF Flow, ThreadsHoldTheirs, appVars, sideVars
<1>10. LiveAreUnanswered'
  BY DEF Flow, LiveAreUnanswered, appVars, sideVars
<1> QED
  BY <1>7, <1>8, <1>9, <1>10 DEF Flow

(* The number of a request sent is that of its slot, and no longer held by *)
(* the write thread.                                                       *)
LEMMA WriterSendFlow ==
  ASSUME Sound, Flow, WriterSend
  PROVE  Flow'
<1> DEFINE x == writer.req
           n == writer.slot
           m == [call |-> callOf[x], seq |-> n]
<1>1. /\ writer.pc = "send" /\ x \in Reqs /\ x \in live /\ n \in Int /\ seqOf[x] = n
      /\ \/ n \in Slots(pool) /\ pool.data[n] = x
         \/ n = -1 /\ failed = x
  <2>1. writer.pc = "send" /\ seqOf[x] = n
    BY DEF WriterSend, Flow, ThreadsHoldTheirs
  <2> QED
    BY <2>1, WriterHolds
<1>2. PICK k0 \in Conns : last_conn' = k0
  BY CallAssumption DEF WriterSend, NextConn, Conns, Sound, TypeOK, WriterTypeOK
<1>3. requests' = [requests EXCEPT ![k0] = Append(requests[k0], m)]
  BY <1>1, <1>2 DEF WriterSend
<1>4. UNCHANGED <<called, live, callOf, seqOf, pool, responses, rbuf, answers, reader, failed>>
      /\ writer'.pc = "pop"
  BY DEF WriterSend, appVars, sideVars, IdleWriter
<1>5. m \in Requests
  BY <1>1 DEF Sound, Requests, TypeOK, AppTypeOK
<1>6. /\ requests \in [Conns -> Seq(Requests)] /\ requests[k0] \in Seq(Requests)
      /\ requests'[k0] = Append(requests[k0], m)
      /\ \A k \in Conns : k # k0 => requests'[k] = requests[k]
  BY <1>2, <1>3 DEF Sound, TypeOK, NetTypeOK
<1>7. m.seq = n /\ m.call = callOf[x]
  OBVIOUS
<1>8. Tied(n, callOf[x])
  BY <1>1, <1>5 DEF Tied, InSlot, Adrift
<1> HIDE DEF m, x, n
<1>9. \A k \in Conns : \A i \in 1 .. Len(requests'[k]) :
        Tied(requests'[k][i].seq, requests'[k][i].call)
  <2> SUFFICES ASSUME NEW k \in Conns, NEW i \in 1 .. Len(requests'[k])
               PROVE  Tied(requests'[k][i].seq, requests'[k][i].call)
    OBVIOUS
  <2>1. CASE k # k0
    BY <1>6, <2>1 DEF Flow, MessagesAreTied
  <2>2. CASE k = k0
    <3>1. /\ Len(requests'[k0]) = Len(requests[k0]) + 1 /\ Len(requests[k0]) \in Nat
          /\ \A j \in 1 .. Len(requests[k0]) : requests'[k0][j] = requests[k0][j]
          /\ requests'[k0][Len(requests[k0]) + 1] = m
      BY <1>5, <1>6
    <3>2. CASE i = Len(requests[k0]) + 1
      BY <1>7, <1>8, <2>2, <3>1, <3>2
    <3>3. CASE i # Len(requests[k0]) + 1
      <4>1. i \in 1 .. Len(requests[k0])
        BY <2>2, <3>1, <3>3
      <4> QED
        BY <1>2, <2>2, <3>1, <4>1 DEF Flow, MessagesAreTied
    <3> QED
      BY <3>2, <3>3
  <2> QED
    BY <2>1, <2>2
<1>10. MessagesAreTied'
  <2>1. \A n0, c0 : Tied(n0, c0) => Tied(n0, c0)'
    BY <1>4 DEF Tied, InSlot, Adrift, Slots
  <2> QED
    BY <1>4, <1>9, <2>1 DEF Flow, MessagesAreTied
<1>11. Numbers(k0)' = Append(Numbers(k0), n)
  <2> DEFINE a == Nums(rbuf[k0])
             b == Nums(responses[k0])
             c == Nums(requests[k0])
  <2>1. a \in Seq(Int) /\ b \in Seq(Int) /\ c \in Seq(Int) /\ Numbers(k0) = Cat(Cat(a, b), c)
    BY <1>2, NumbersAreInts DEF Sound, Numbers, Cat
  <2>2. Nums(Append(requests[k0], m)) = Append(c, n)
    BY <1>2, <1>5, <1>6, <1>7, NumsOfAppend, NumbersAreInts DEF Sound
  <2>3. Numbers(k0)' = Cat(Cat(a, b), Append(c, n))
    BY <1>4, <1>6, <2>2 DEF Numbers, Cat
  <2> HIDE DEF a, b, c
  <2>4. Cat(Cat(a, b), Append(c, n)) = Append(Cat(Cat(a, b), c), n)
    BY <1>1, <2>1, NumbersAfterSend DEF n
  <2> QED
    BY <2>1, <2>3, <2>4
<1>12. \A k \in Conns : k # k0 => Numbers(k)' = Numbers(k)
  BY <1>4, <1>6 DEF Numbers
<1>13. NumbersAreDistinct'
  <2>1. /\ \A k \in Conns : \A i \in DOMAIN Numbers(k) : Numbers(k)[i] # n
        /\ reader.pc \in {"callback", "remove"} => n # reader.rsp.seq
    BY <1>1 DEF Flow, NumbersAreDistinct, n
  <2> DEFINE s == Numbers(k0)
  <2>2. /\ s \in Seq(Int) /\ n \in Int
    BY <1>1, <1>2, NumbersAreInts DEF Sound, n
  <2> HIDE DEF s
  <2>3. /\ DOMAIN s = 1 .. Len(s) /\ Len(s) \in Nat
        /\ DOMAIN Append(s, n) = 1 .. (Len(s) + 1)
        /\ \A i \in 1 .. Len(s) : Append(s, n)[i] = s[i]
        /\ Append(s, n)[Len(s) + 1] = n
    BY <2>2
  <2>4. Numbers(k0)' = Append(s, n) /\ Numbers(k0) = s
    BY <1>11 DEF s
  <2>5. \A i \in DOMAIN Numbers(k0)' : \/ i \in DOMAIN s /\ Numbers(k0)'[i] = s[i]
                                       \/ i = Len(s) + 1 /\ Numbers(k0)'[i] = n
    BY <2>3, <2>4
  <2>6. \A k \in Conns : \A i \in DOMAIN Numbers(k)' :
          \/ i \in DOMAIN Numbers(k) /\ Numbers(k)'[i] = Numbers(k)[i]
          \/ k = k0 /\ i = Len(s) + 1 /\ Numbers(k)'[i] = n
    BY <1>12, <2>4, <2>5
  <2>7. \A k, l \in Conns : \A i \in DOMAIN Numbers(k)', j \in DOMAIN Numbers(l)' :
          Numbers(k)'[i] = Numbers(l)'[j] => k = l /\ i = j
    BY <2>1, <2>6 DEF Flow, NumbersAreDistinct
  <2>8. \A k \in Conns : \A i \in DOMAIN Numbers(k)' :
          reader.pc \in {"callback", "remove"} => Numbers(k)'[i] # reader.rsp.seq
    BY <2>1, <2>6 DEF Flow, NumbersAreDistinct
  <2> QED
    BY <1>4, <2>7, <2>8 DEF NumbersAreDistinct
<1>14. ThreadsHoldTheirs'
  BY <1>4 DEF Flow, ThreadsHoldTheirs
<1>15. LiveAreUnanswered'
  BY <1>4 DEF Flow, LiveAreUnanswered
<1> QED
  BY <1>10, <1>13, <1>14, <1>15 DEF Flow

LEMMA WriterFlow ==
  ASSUME Sound, Flow, Writer
  PROVE  Flow'
<1>1. ASSUME WriterPop \/ WriterRead PROVE Flow'
  <2>1. writer'.pc \in {"read", "insert"}
    BY <1>1 DEF WriterPop, WriterRead, Sound, TypeOK, WriterTypeOK
  <2> QED
    BY <1>1, <2>1, FlowStays DEF WriterPop, WriterRead, appVars
<1> QED
  BY <1>1, WriterInsertFlow, WriterInsertFailsFlow, WriterNumberFlow, WriterSendFlow DEF Writer

(* A request served: its call names a service the server knows, so that    *)
(* the response bears the number of the request, and takes its place.      *)
LEMMA ServeFlow ==
  ASSUME Sound, Flow, Orderly, NEW k0 \in Conns, Serve(k0)
  PROVE  Flow'
<1> DEFINE m == Head(requests[k0])
           rsp == [seq |-> m.seq, answer |-> [of |-> m.call, code |-> "RPC_OK"]]
<1>1. /\ requests[k0] \in Seq(Requests) /\ requests[k0] # <<>>
      /\ responses[k0] \in Seq(Responses)
      /\ requests \in [Conns -> Seq(Requests)] /\ responses \in [Conns -> Seq(Responses)]
  BY DEF Serve, Sound, TypeOK, NetTypeOK
<1>2. /\ m \in Requests /\ Tail(requests[k0]) \in Seq(Requests) /\ m = requests[k0][1]
      /\ Len(requests[k0]) \in Nat \ {0} /\ Len(Tail(requests[k0])) = Len(requests[k0]) - 1
      /\ \A i \in 1 .. Len(Tail(requests[k0])) : Tail(requests[k0])[i] = requests[k0][i + 1]
  BY <1>1, MembersAfterTail
<1>3. Tied(m.seq, m.call)
  <2>1. 1 \in 1 .. Len(requests[k0])
    BY <1>2
  <2> QED
    BY <1>2, <2>1 DEF Flow, MessagesAreTied
<1>4. m.call \in Known
  BY <1>3 DEF Tied, InSlot, Adrift, Sound, CallsAreCarriedOnce, Orderly
<1>5. /\ requests' = [requests EXCEPT ![k0] = Tail(requests[k0])]
      /\ responses' = [responses EXCEPT ![k0] = responses[k0] \o <<rsp>>]
  BY <1>4 DEF Serve, SeqFor, Written
<1>6. UNCHANGED <<called, live, callOf, seqOf, pool, rbuf, answers, reader, writer, failed>>
  BY DEF Serve, appVars, sideVars
<1>7. rsp \in Responses /\ rsp.seq = m.seq /\ rsp.answer.of = m.call /\ rsp.answer.code = "RPC_OK"
  BY <1>2 DEF Requests, Responses, Answers
<1> HIDE DEF m, rsp
<1>8. responses[k0] \o <<rsp>> = Append(responses[k0], rsp)
  BY <1>1, <1>7, AppendIsConcat
<1>9. /\ requests'[k0] = Tail(requests[k0]) /\ responses'[k0] = Append(responses[k0], rsp)
      /\ \A k \in Conns : k # k0 => requests'[k] = requests[k] /\ responses'[k] = responses[k]
  BY <1>1, <1>5, <1>8
<1>10. \A k \in Conns : \A i \in 1 .. Len(requests'[k]) :
         Tied(requests'[k][i].seq, requests'[k][i].call)
  <2> SUFFICES ASSUME NEW k \in Conns, NEW i \in 1 .. Len(requests'[k])
               PROVE  Tied(requests'[k][i].seq, requests'[k][i].call)
    OBVIOUS
  <2>1. CASE k # k0
    BY <1>9, <2>1 DEF Flow, MessagesAreTied
  <2>2. CASE k = k0
    <3>1. /\ i \in 1 .. Len(Tail(requests[k0]))
          /\ requests'[k0][i] = Tail(requests[k0])[i]
      BY <1>9, <2>2, Zenon
    <3>2. Tail(requests[k0])[i] = requests[k0][i + 1]
      BY <1>2, <3>1, Zenon
    <3>3. i + 1 \in 1 .. Len(requests[k0])
      BY <1>2, <3>1
    <3> QED
      BY <2>2, <3>1, <3>2, <3>3 DEF Flow, MessagesAreTied
  <2> QED
    BY <2>1, <2>2
<1>11. \A k \in Conns : \A i \in 1 .. Len(responses'[k]) :
         /\ Tied(responses'[k][i].seq, responses'[k][i].answer.of)
         /\ responses'[k][i].answer.code = "RPC_OK"
  <2> SUFFICES ASSUME NEW k \in Conns, NEW i \in 1 .. Len(responses'[k])
               PROVE  /\ Tied(responses'[k][i].seq, responses'[k][i].answer.of)
                      /\ responses'[k][i].answer.code = "RPC_OK"
    OBVIOUS
  <2>1. CASE k # k0
    BY <1>9, <2>1 DEF Flow, MessagesAreTied
  <2>2. CASE k = k0
    <3>1. /\ Len(responses'[k0]) = Len(responses[k0]) + 1 /\ Len(responses[k0]) \in Nat
          /\ \A j \in 1 .. Len(responses[k0]) : responses'[k0][j] = responses[k0][j]
          /\ responses'[k0][Len(responses[k0]) + 1] = rsp
      BY <1>1, <1>7, <1>9
    <3>2. CASE i = Len(responses[k0]) + 1
      BY <1>3, <1>7, <2>2, <3>1, <3>2
    <3>3. CASE i # Len(responses[k0]) + 1
      <4>1. i \in 1 .. Len(responses[k0])
        BY <2>2, <3>1, <3>3
      <4> QED
        BY <2>2, <3>1, <4>1 DEF Flow, MessagesAreTied
    <3> QED
      BY <3>2, <3>3
  <2> QED
    BY <2>1, <2>2
<1>12. MessagesAreTied'
  <2>1. \A n0, c0 : Tied(n0, c0) => Tied(n0, c0)'
    BY <1>6 DEF Tied, InSlot, Adrift, Slots
  <2> QED
    BY <1>6, <1>10, <1>11, <2>1 DEF Flow, MessagesAreTied
<1>13. Numbers(k0)' = Numbers(k0)
  <2> DEFINE a == Nums(rbuf[k0])
             b == Nums(responses[k0])
             c == Nums(requests[k0])
  <2>1. a \in Seq(Int) /\ b \in Seq(Int) /\ c \in Seq(Int) /\ Numbers(k0) = Cat(Cat(a, b), c)
    BY NumbersAreInts DEF Sound, Numbers, Cat
  <2>2. \A r \in Requests \cup Responses : r.seq \in Int
    BY NumbersAreInts DEF Sound
  <2>3. Nums(Append(responses[k0], rsp)) = Append(b, m.seq)
    BY <1>1, <1>7, <2>2, NumsOfAppend
  <2>4. c # <<>> /\ Head(c) = m.seq /\ Nums(Tail(requests[k0])) = Tail(c)
    BY <1>1, <2>2, NumsOfTail DEF m
  <2>5. Numbers(k0)' = Cat(Cat(a, Append(b, m.seq)), Tail(c))
    BY <1>6, <1>9, <2>3, <2>4 DEF Numbers, Cat
  <2> HIDE DEF a, b, c
  <2>6. Cat(Cat(a, Append(b, Head(c))), Tail(c)) = Cat(Cat(a, b), c)
    BY <2>1, <2>4, NumbersAfterServe
  <2> QED
    BY <2>1, <2>4, <2>5, <2>6
<1>14. \A k \in Conns : Numbers(k)' = Numbers(k)
  BY <1>6, <1>9, <1>13 DEF Numbers
<1>15. NumbersAreDistinct'
  BY <1>6, <1>14, NumbersStayDistinct DEF Flow
<1>16. ThreadsHoldTheirs' /\ LiveAreUnanswered'
  BY <1>6 DEF Flow, ThreadsHoldTheirs, LiveAreUnanswered, Slots
<1> QED
  BY <1>12, <1>15, <1>16 DEF Flow

(* A read event moves responses and changes none. *)
LEMMA ReadEventFlow ==
  ASSUME Sound, Flow, NEW k0 \in Conns, ReadEvent(k0)
  PROVE  Flow'
<1> DEFINE s == responses[k0]
<1>1. PICK n \in 1 .. Len(s) :
        /\ rbuf' = [rbuf EXCEPT ![k0] = rbuf[k0] \o SubSeq(s, 1, n)]
        /\ responses' = [responses EXCEPT ![k0] = SubSeq(s, n + 1, Len(s))]
  BY Zenon DEF ReadEvent
<1> DEFINE u == SubSeq(s, 1, n)
           v == SubSeq(s, n + 1, Len(s))
<1>2. /\ s \in Seq(Responses) /\ rbuf[k0] \in Seq(Responses)
      /\ rbuf \in [Conns -> Seq(Responses)] /\ responses \in [Conns -> Seq(Responses)]
  BY DEF Sound, TypeOK, NetTypeOK
<1>3. UNCHANGED <<called, live, callOf, seqOf, pool, requests, answers, writer, failed>>
      /\ reader.pc = "poll" /\ reader'.pc = "parse"
  BY DEF ReadEvent, appVars, sideVars, Sound, TypeOK, ReaderTypeOK
<1> HIDE DEF s
<1>4. /\ u \in Seq(Responses) /\ Len(u) = n
      /\ \A i \in 1 .. n : u[i] = s[i]
      /\ v \in Seq(Responses) /\ Len(v) = Len(s) - n /\ Len(s) \in Nat
      /\ \A i \in 1 .. (Len(s) - n) : v[i] = s[i + n]
  BY <1>2
<1> HIDE DEF u, v
<1>5. /\ rbuf'[k0] = rbuf[k0] \o u /\ responses'[k0] = v
      /\ \A k \in Conns : k # k0 => rbuf'[k] = rbuf[k] /\ responses'[k] = responses[k]
  BY <1>1, <1>2 DEF u, v
<1>6. s = u \o v
  <2>1. /\ u \o v \in Seq(Responses) /\ Len(u \o v) = Len(s)
        /\ \A i \in 1 .. Len(s) : (u \o v)[i] = IF i <= n THEN u[i] ELSE v[i - n]
    BY <1>4, ConcatProperties
  <2>2. ASSUME NEW i \in 1 .. Len(s) PROVE (u \o v)[i] = s[i]
    <3>1. CASE i <= n
      BY <1>4, <2>1, <3>1
    <3>2. CASE ~ (i <= n)
      <4>1. i - n \in 1 .. (Len(s) - n) /\ (i - n) + n = i
        BY <1>4, <3>2
      <4>2. v[i - n] = s[(i - n) + n]
        BY <1>4, <4>1
      <4> QED
        BY <2>1, <3>2, <4>1, <4>2
    <3> QED
      BY <3>1, <3>2
  <2> QED
    BY <1>2, <2>1, <2>2, SeqEqual
<1> DEFINE Good(m) == Tied(m.seq, m.answer.of) /\ m.answer.code = "RPC_OK"
<1>7. \A k \in Conns : /\ \A i \in 1 .. Len(responses[k]) : Good(responses[k][i])
                       /\ \A i \in 1 .. Len(rbuf[k]) : Good(rbuf[k][i])
  BY DEF Flow, MessagesAreTied
<1> HIDE DEF Good
<1>8. \A i \in 1 .. Len(s) : Good(s[i])
  BY <1>7 DEF s
<1>9. \A i \in 1 .. Len(v) : Good(v[i])
  <2> SUFFICES ASSUME NEW i \in 1 .. Len(v) PROVE Good(v[i])
    OBVIOUS
  <2>1. i + n \in 1 .. Len(s) /\ v[i] = s[i + n]
    BY <1>4
  <2> QED
    BY <1>8, <2>1
<1>10. \A i \in 1 .. Len(rbuf[k0] \o u) : Good((rbuf[k0] \o u)[i])
  <2> DEFINE b == rbuf[k0]
  <2>1. b \in Seq(Responses) /\ \A i \in 1 .. Len(b) : Good(b[i])
    BY <1>2, <1>7
  <2>2. \A i \in 1 .. Len(u) : Good(u[i])
    BY <1>4, <1>8
  <2> HIDE DEF b
  <2>3. b \o u \in Seq(Responses) /\ Range(b \o u) = Range(b) \cup Range(u)
    BY <1>4, <2>1, RangeConcatenation
  <2>4. ASSUME NEW i \in 1 .. Len(b \o u) PROVE Good((b \o u)[i])
    <3>1. (b \o u)[i] \in Range(b) \cup Range(u)
      BY <2>3 DEF Range
    <3> QED
      BY <1>4, <2>1, <2>2, <3>1 DEF Range
  <2> QED
    BY <2>4 DEF b
<1>11. \A k \in Conns : /\ \A i \in 1 .. Len(responses'[k]) : Good(responses'[k][i])
                        /\ \A i \in 1 .. Len(rbuf'[k]) : Good(rbuf'[k][i])
  BY <1>5, <1>7, <1>9, <1>10
<1>12. MessagesAreTied'
  <2>1. ASSUME NEW n0, NEW c0, Tied(n0, c0) PROVE Tied(n0, c0)'
    BY <1>3, <2>1 DEF Tied, InSlot, Adrift, Slots
  <2>2. ASSUME NEW m, Good(m)
        PROVE  Tied(m.seq, m.answer.of)' /\ m.answer.code = "RPC_OK"
    BY <2>1, <2>2 DEF Good
  <2>3. requests' = requests /\ MessagesAreTied
    BY <1>3 DEF Flow
  <2> QED
    BY <1>11, <2>1, <2>2, <2>3 DEF MessagesAreTied
<1>13. Numbers(k0)' = Numbers(k0)
  <2> DEFINE a == Nums(rbuf[k0])
             b == Nums(u)
             c == Nums(v)
             d == Nums(requests[k0])
  <2>1. \A r \in Requests \cup Responses : r.seq \in Int
    BY NumbersAreInts DEF Sound
  <2>2. a \in Seq(Int) /\ b \in Seq(Int) /\ c \in Seq(Int) /\ d \in Seq(Int)
    BY <1>2, <1>4, <2>1, NumbersAreInts, NumsOfSeq DEF Sound
  <2>3. Nums(rbuf[k0] \o u) = Cat(a, b) /\ Nums(s) = Cat(b, c)
    BY <1>2, <1>4, <1>6, <2>1, NumsOfConcat
  <2>4. Numbers(k0) = Cat(Cat(a, Cat(b, c)), d)
    BY <2>3 DEF Numbers, Cat, s
  <2>5. Numbers(k0)' = Cat(Cat(Cat(a, b), c), d)
    BY <1>3, <1>5, <2>3 DEF Numbers, Cat
  <2> HIDE DEF a, b, c, d
  <2>6. Cat(Cat(Cat(a, b), c), d) = Cat(Cat(a, Cat(b, c)), d)
    BY <2>2, NumbersAfterRead
  <2> QED
    BY <2>4, <2>5, <2>6
<1>14. \A k \in Conns : Numbers(k)' = Numbers(k)
  BY <1>3, <1>5, <1>13 DEF Numbers
<1>15. NumbersAreDistinct'
  BY <1>3, <1>14, NumbersStayDistinct DEF Flow
<1>16. ThreadsHoldTheirs' /\ LiveAreUnanswered'
  BY <1>3 DEF Flow, ThreadsHoldTheirs, LiveAreUnanswered, Slots
<1> QED
  BY <1>12, <1>15, <1>16 DEF Flow

(* The first response read finds its request, by the ties, and is the one  *)
(* message with this number; or its number is the -1 of the request that   *)
(* has no slot, and the client ends.                                       *)
LEMMA LookUpFinds ==
  ASSUME Sound, Flow, LookUp
  PROVE  LET m == Head(rbuf[reader.conn]) IN
         /\ m \in Responses /\ Tied(m.seq, m.answer.of) /\ m.answer.code = "RPC_OK"
         /\ \/ /\ InSlot(m.seq, m.answer.of) /\ UNCHANGED crashed
               /\ reader' = [reader EXCEPT !.pc = "callback", !.rsp = m,
                                           !.req = pool.data[m.seq]]
            \/ failed # NULL /\ UNCHANGED reader
<1> DEFINE m == Head(rbuf[reader.conn])
<1>1. /\ reader.conn \in Conns /\ rbuf[reader.conn] \in Seq(Responses)
      /\ rbuf[reader.conn] # <<>>
  BY DEF LookUp, Sound, TypeOK, ReaderTypeOK, NetTypeOK
<1>2. m \in Responses /\ m = rbuf[reader.conn][1] /\ 1 \in 1 .. Len(rbuf[reader.conn])
  BY <1>1, MembersAfterTail
<1>3. Tied(m.seq, m.answer.of) /\ m.answer.code = "RPC_OK"
  BY <1>1, <1>2 DEF Flow, MessagesAreTied
<1>4. CASE InSlot(m.seq, m.answer.of)
  <2>1. Found(m) /\ seqOf[pool.data[m.seq]] = m.seq
    BY <1>4 DEF Found, InSlot, Sound, TypeOK, AppTypeOK
  <2>2. /\ UNCHANGED crashed
        /\ reader' = [reader EXCEPT !.pc = "callback", !.rsp = m, !.req = pool.data[m.seq]]
    BY <2>1, Zenon DEF LookUp
  <2> QED
    BY <1>2, <1>3, <1>4, <2>2
<1>5. CASE Adrift(m.seq, m.answer.of)
  <2>1. failed # NULL
    BY <1>5, CallAssumption DEF Adrift, Sound, TypeOK, AppTypeOK
  <2>2. ~ Found(m)
    BY <1>5 DEF Adrift, Found, Sound, TypeOK, PoolOK, Slots
  <2>3. UNCHANGED reader
    BY <2>2, Zenon DEF LookUp
  <2> QED
    BY <1>2, <1>3, <2>1, <2>3
<1> QED
  BY <1>3, <1>4, <1>5 DEF Tied

LEMMA LookUpFlow ==
  ASSUME Sound, Flow, LookUp
  PROVE  Flow'
<1> DEFINE m == Head(rbuf[reader.conn])
           req == pool.data[m.seq]
<1>1. /\ m \in Responses /\ Tied(m.seq, m.answer.of) /\ m.answer.code = "RPC_OK"
      /\ \/ /\ InSlot(m.seq, m.answer.of)
            /\ reader' = [reader EXCEPT !.pc = "callback", !.rsp = m, !.req = req]
         \/ UNCHANGED reader
  BY LookUpFinds
<1>2. PICK k0 \in Conns : reader.conn = k0
  BY DEF Sound, TypeOK, ReaderTypeOK
<1>3. /\ rbuf[k0] \in Seq(Responses) /\ rbuf[k0] # <<>> /\ m = Head(rbuf[k0])
      /\ rbuf \in [Conns -> Seq(Responses)] /\ rbuf' = [rbuf EXCEPT ![k0] = Tail(rbuf[k0])]
  BY <1>2 DEF LookUp, Sound, TypeOK, NetTypeOK
<1>4. UNCHANGED <<called, live, callOf, seqOf, pool, requests, responses, answers, writer,
                  failed>>
      /\ reader.pc = "parse"
  BY DEF LookUp, appVars, sideVars
<1> HIDE DEF m
<1>5. \/ /\ InSlot(m.seq, m.answer.of)
         /\ reader'.pc = "callback" /\ reader'.rsp = m /\ reader'.req = req
      \/ reader'.pc = "parse"
  <2> HIDE DEF req
  <2>1. reader \in [pc : {"poll", "parse", "callback", "remove", "free"},
                    conn : Conns, rsp : Responses, req : Reqs \cup {NULL}]
    BY DEF Sound, TypeOK, ReaderTypeOK
  <2> QED
    BY <1>1, <1>4, <2>1
<1>6. /\ rbuf'[k0] = Tail(rbuf[k0]) /\ \A k \in Conns : k # k0 => rbuf'[k] = rbuf[k]
  BY <1>3
<1>7. \A k \in Conns : \A i \in 1 .. Len(rbuf'[k]) :
        Tied(rbuf'[k][i].seq, rbuf'[k][i].answer.of) /\ rbuf'[k][i].answer.code = "RPC_OK"
  <2> SUFFICES ASSUME NEW k \in Conns, NEW i \in 1 .. Len(rbuf'[k])
               PROVE  /\ Tied(rbuf'[k][i].seq, rbuf'[k][i].answer.of)
                      /\ rbuf'[k][i].answer.code = "RPC_OK"
    OBVIOUS
  <2>1. CASE k # k0
    BY <1>6, <2>1 DEF Flow, MessagesAreTied
  <2>2. CASE k = k0
    <3>1. /\ Len(Tail(rbuf[k0])) = Len(rbuf[k0]) - 1 /\ Len(rbuf[k0]) \in Nat \ {0}
          /\ \A j \in 1 .. Len(Tail(rbuf[k0])) : Tail(rbuf[k0])[j] = rbuf[k0][j + 1]
      BY <1>3, MembersAfterTail
    <3>2. i \in 1 .. Len(Tail(rbuf[k0])) /\ rbuf'[k0][i] = Tail(rbuf[k0])[i]
      BY <1>6, <2>2, Zenon
    <3>3. Tail(rbuf[k0])[i] = rbuf[k0][i + 1]
      BY <3>1, <3>2, Zenon
    <3>4. i + 1 \in 1 .. Len(rbuf[k0])
      BY <3>1, <3>2
    <3> QED
      BY <2>2, <3>2, <3>3, <3>4 DEF Flow, MessagesAreTied
  <2> QED
    BY <2>1, <2>2
<1>8. MessagesAreTied'
  <2>1. \A n0, c0 : Tied(n0, c0) => Tied(n0, c0)'
    BY <1>4 DEF Tied, InSlot, Adrift, Slots
  <2> QED
    BY <1>4, <1>7, <2>1 DEF Flow, MessagesAreTied
<1>9. /\ Numbers(k0) \in Seq(Int) /\ Numbers(k0) # <<>> /\ Head(Numbers(k0)) = m.seq
      /\ Numbers(k0)' = Tail(Numbers(k0))
  <2> DEFINE a == Nums(rbuf[k0])
             b == Nums(responses[k0])
             c == Nums(requests[k0])
  <2>1. /\ a \in Seq(Int) /\ b \in Seq(Int) /\ c \in Seq(Int)
        /\ Numbers(k0) \in Seq(Int) /\ Numbers(k0) = Cat(Cat(a, b), c)
    BY NumbersAreInts DEF Sound, Numbers, Cat
  <2>2. \A r \in Requests \cup Responses : r.seq \in Int
    BY NumbersAreInts DEF Sound
  <2>3. a # <<>> /\ Head(a) = m.seq /\ Nums(Tail(rbuf[k0])) = Tail(a)
    BY <1>3, <2>2, NumsOfTail
  <2>4. Numbers(k0)' = Cat(Cat(Tail(a), b), c)
    BY <1>4, <1>6, <2>3 DEF Numbers, Cat
  <2> HIDE DEF a, b, c
  <2> QED
    <3>1. /\ Cat(Cat(a, b), c) # <<>> /\ Head(Cat(Cat(a, b), c)) = Head(a)
          /\ Tail(Cat(Cat(a, b), c)) = Cat(Cat(Tail(a), b), c)
      BY <2>1, <2>3, NumbersAfterLookUp, Zenon
    <3> QED
      BY <2>1, <2>3, <2>4, <3>1
<1>10. \A k \in Conns : k # k0 => Numbers(k)' = Numbers(k)
  BY <1>4, <1>6 DEF Numbers
<1>11. NumbersAreDistinct'
  <2> DEFINE s == Numbers(k0)
  <2>1. s \in Seq(Int) /\ s # <<>> /\ Head(s) = m.seq /\ Numbers(k0)' = Tail(s)
    BY <1>9
  <2> HIDE DEF s
  <2>2. /\ DOMAIN s = 1 .. Len(s) /\ DOMAIN Tail(s) = 1 .. (Len(s) - 1) /\ Len(s) \in Nat \ {0}
        /\ s[1] = m.seq /\ \A i \in DOMAIN Tail(s) : Tail(s)[i] = s[i + 1]
    BY <2>1
  <2>3. \A i \in DOMAIN Numbers(k0)' : /\ i \in Int /\ i + 1 \in DOMAIN s /\ i + 1 # 1
                                       /\ Numbers(k0)'[i] = s[i + 1]
    BY <2>1, <2>2
  <2>4. 1 \in DOMAIN s
    BY <2>2
  <2>5. \A k, l \in Conns : \A i \in DOMAIN Numbers(k)', j \in DOMAIN Numbers(l)' :
          Numbers(k)'[i] = Numbers(l)'[j] => k = l /\ i = j
    <3> SUFFICES ASSUME NEW k \in Conns, NEW l \in Conns,
                        NEW i \in DOMAIN Numbers(k)', NEW j \in DOMAIN Numbers(l)',
                        Numbers(k)'[i] = Numbers(l)'[j]
                 PROVE  k = l /\ i = j
      OBVIOUS
    <3>1. CASE k = k0 /\ l = k0
      <4>1. i + 1 \in DOMAIN Numbers(k0) /\ j + 1 \in DOMAIN Numbers(k0)
            /\ Numbers(k0)[i + 1] = Numbers(k0)[j + 1] /\ i \in Int /\ j \in Int
        BY <2>3, <3>1 DEF s
      <4>2. i + 1 = j + 1
        BY <4>1 DEF Flow, NumbersAreDistinct
      <4> QED
        BY <3>1, <4>1, <4>2
    <3>2. CASE k = k0 /\ l # k0
      BY <1>10, <2>3, <3>2 DEF Flow, NumbersAreDistinct, s
    <3>3. CASE k # k0 /\ l = k0
      BY <1>10, <2>3, <3>3 DEF Flow, NumbersAreDistinct, s
    <3>4. CASE k # k0 /\ l # k0
      BY <1>10, <3>4 DEF Flow, NumbersAreDistinct
    <3> QED
      BY <3>1, <3>2, <3>3, <3>4
  <2>6. \A k \in Conns : \A i \in DOMAIN Numbers(k)' :
          /\ writer.pc \in {"number", "send"} => Numbers(k)'[i] # writer.slot
          /\ Numbers(k)'[i] # m.seq
    <3> SUFFICES ASSUME NEW k \in Conns, NEW i \in DOMAIN Numbers(k)'
                 PROVE  /\ writer.pc \in {"number", "send"} => Numbers(k)'[i] # writer.slot
                        /\ Numbers(k)'[i] # m.seq
      OBVIOUS
    <3>1. CASE k = k0
      BY <2>2, <2>3, <2>4, <3>1 DEF Flow, NumbersAreDistinct, s
    <3>2. CASE k # k0
      BY <1>10, <2>2, <2>4, <3>2 DEF Flow, NumbersAreDistinct, s
    <3> QED
      BY <3>1, <3>2
  <2>7. writer.pc \in {"number", "send"} => m.seq # writer.slot
    BY <2>2, <2>4 DEF Flow, NumbersAreDistinct, s
  <2> QED
    BY <1>4, <1>5, <2>5, <2>6, <2>7 DEF NumbersAreDistinct
<1>12. ThreadsHoldTheirs'
  <2>1. InSlot(m.seq, m.answer.of) => m.answer = [of |-> callOf[req], code |-> "RPC_OK"]
    BY <1>1 DEF InSlot, Responses, Answers
  <2> QED
    BY <1>4, <1>5, <2>1 DEF Flow, ThreadsHoldTheirs, Slots
<1>13. LiveAreUnanswered'
  BY <1>4, <1>5 DEF Flow, LiveAreUnanswered
<1> QED
  BY <1>8, <1>11, <1>12, <1>13 DEF Flow

(* The callback gives the call of its request an answer, and no other.     *)
LEMMA RunCallbackFlow ==
  ASSUME Sound, Flow, RunCallback
  PROVE  Flow'
<1> DEFINE x == reader.req
<1>1. x \in live /\ callOf[x] \in called /\ called \subseteq Calls
  BY ReaderHolds DEF RunCallback, Sound, CallsAreCarriedOnce, TypeOK, AppTypeOK
<1>2. \A c \in Calls : c # callOf[x] => answers'[c] = answers[c]
  BY DEF RunCallback, Sound, TypeOK, ReaderTypeOK
<1>3. UNCHANGED <<called, live, callOf, seqOf, pool, requests, responses, rbuf, writer, failed>>
  BY DEF RunCallback, appVars, sideVars
<1>4. reader.pc = "callback" /\ reader'.pc = "remove" /\ reader'.req = x
      /\ reader'.rsp = reader.rsp
  BY DEF RunCallback, Sound, TypeOK, ReaderTypeOK
<1>5. TiesStay
  BY <1>3 DEF TiesStay, Tied, InSlot, Adrift, Slots
<1>6. MessagesAreTied'
  BY <1>3, <1>5, MessagesStayTied DEF Sound, Flow
<1>7. NumbersAreDistinct'
  BY <1>3, <1>4, NumbersStayDistinct DEF Flow, Numbers
<1>8. ThreadsHoldTheirs'
  BY <1>3, <1>4 DEF Flow, ThreadsHoldTheirs, Slots
<1>9. LiveAreUnanswered'
  <2>1. ASSUME NEW r \in live, r # x PROVE answers'[callOf[r]] = <<>>
    <3>1. callOf[r] # callOf[x] /\ callOf[r] \in Calls /\ answers[callOf[r]] = <<>>
      BY <1>1, <1>4, <2>1 DEF Sound, CallsAreCarriedOnce, Flow, LiveAreUnanswered
    <3> QED
      BY <1>2, <3>1
  <2>2. \A c \in Calls \ called : answers'[c] = <<>>
    BY <1>1, <1>2 DEF Flow, LiveAreUnanswered
  <2> QED
    BY <1>3, <1>4, <2>1, <2>2 DEF LiveAreUnanswered
<1> QED
  BY <1>6, <1>7, <1>8, <1>9 DEF Flow

(* The slot emptied is that of a number no message bears any more.         *)
LEMMA RemoveSessionFlow ==
  ASSUME Sound, Flow, RemoveSession
  PROVE  Flow'
<1> DEFINE n == reader.rsp.seq
<1>1. n \in Slots(pool) /\ pool.data[n] = reader.req /\ PoolOK(pool, Reqs)
  BY ReaderHolds DEF RemoveSession, Sound, TypeOK
<1>2. /\ Slots(pool') = Slots(pool)
      /\ \A j \in Slots(pool) : j # n => pool'.data[j] = pool.data[j]
  BY <1>1, StoredIsStored DEF RemoveSession, Removed
<1>3. /\ UNCHANGED <<called, live, callOf, seqOf, requests, responses, rbuf, answers, writer,
                    failed>>
      /\ reader.pc = "remove" /\ reader'.pc = "free" /\ reader'.req = reader.req
  BY DEF RemoveSession, appVars, sideVars, Sound, TypeOK, ReaderTypeOK
<1>4. \A j : OnTheWay(j) => j # n
  BY <1>3 DEF OnTheWay, Range, Flow, NumbersAreDistinct
<1>5. TiesStay
  BY <1>2, <1>3, <1>4 DEF TiesStay, Tied, InSlot, Adrift
<1>6. MessagesAreTied'
  BY <1>3, <1>5, MessagesStayTied DEF Sound, Flow
<1>7. NumbersAreDistinct'
  BY <1>3, NumbersStayDistinct DEF Flow, Numbers
<1>8. ThreadsHoldTheirs'
  BY <1>2, <1>3 DEF Flow, ThreadsHoldTheirs, NumbersAreDistinct
<1>9. LiveAreUnanswered'
  BY <1>3 DEF Flow, LiveAreUnanswered
<1> QED
  BY <1>6, <1>7, <1>8, <1>9 DEF Flow

(* The structure freed has left the pool. *)
LEMMA FreeRequestFlow ==
  ASSUME Sound, Flow, FreeRequest
  PROVE  Flow'
<1> DEFINE x == reader.req
<1>1. x \in Reqs /\ x \in live /\ x \notin InPool /\ failed # x
  <2>1. x \in WithReader
    BY ReaderHolds DEF FreeRequest, WithReader
  <2> QED
    BY <2>1, ReaderHolds DEF FreeRequest, Sound, Ownership, PlacesAreDisjoint, WithReader,
       Unslotted
<1>2. /\ UNCHANGED <<called, pool, requests, responses, rbuf, answers, writer, failed>>
      /\ reader.pc = "free" /\ reader'.pc = "parse" /\ live' = live \ {x}
  BY DEF FreeRequest, AfterResponse, sideVars, Sound, TypeOK, ReaderTypeOK
<1>3. \A q \in Reqs : q # x => callOf'[q] = callOf[q] /\ seqOf'[q] = seqOf[q]
  BY DEF FreeRequest, Sound, TypeOK, AppTypeOK
<1>4. \A n \in Slots(pool) : pool.data[n] # x
  BY <1>1 DEF InPool
<1>5. live \subseteq Reqs
  BY DEF Sound, TypeOK, AppTypeOK
<1>6. TiesStay
  BY <1>1, <1>2, <1>3, <1>4, <1>5 DEF TiesStay, Tied, InSlot, Adrift
<1>7. MessagesAreTied'
  BY <1>2, <1>6, MessagesStayTied DEF Sound, Flow
<1>8. NumbersAreDistinct'
  BY <1>2, NumbersStayDistinct DEF Flow, Numbers
<1>9. ThreadsHoldTheirs'
  <2>1. writer.pc = "send" => writer.req \in Reqs /\ writer.req # x
    BY <1>1, <1>4 DEF Flow, ThreadsHoldTheirs, Sound, TypeOK, WriterTypeOK
  <2> QED
    BY <1>2, <1>3, <2>1 DEF Flow, ThreadsHoldTheirs
<1>10. LiveAreUnanswered'
  BY <1>2, <1>3, <1>5 DEF Flow, LiveAreUnanswered
<1> QED
  BY <1>7, <1>8, <1>9, <1>10 DEF Flow

LEMMA CallsStayMade ==
  ASSUME [Next]_vars
  PROVE  called \subseteq called' /\ (Orderly' => Orderly)
<1>1. called \subseteq called'
  BY DEF Next, Application, CallAsync, CallSync, ReturnSync, Timeout,
         Writer, WriterPop, WriterRead, WriterInsert, WriterInsertFails, WriterNumber,
         WriterSend, Register, Serve,
         Reader, ReadEvent, ReadDone, LookUp, RunCallback, RemoveSession, FreeRequest,
         appVars, vars
<1> QED
  BY <1>1, UpsetStays DEF Orderly

LEMMA FlowStep ==
  ASSUME ~ upset => Sound, Orderly => Flow, [Next]_vars, Orderly'
  PROVE  Flow'
<1>1. Orderly /\ Sound /\ Flow
  BY CallsStayMade DEF Orderly
<1>2. CASE UNCHANGED vars
  BY <1>1, <1>2, FlowStays DEF vars, sideVars
<1>3. ASSUME ReadDone PROVE Flow'
  <2>1. {reader.pc, reader'.pc} \subseteq {"poll", "parse"}
    BY <1>3 DEF ReadDone, IdleReader
  <2> QED
    BY <1>1, <1>3, <2>1, FlowStays DEF ReadDone, appVars, sideVars
<1>4. ASSUME Reader PROVE Flow'
  BY <1>1, <1>3, <1>4, ReadEventFlow, LookUpFlow, RunCallbackFlow, RemoveSessionFlow,
     FreeRequestFlow DEF Reader
<1>5. ASSUME NEW k \in Conns, Register(k) PROVE Flow'
  BY <1>1, <1>5, FlowStays DEF Register, appVars
<1> QED
  BY <1>1, <1>2, <1>4, <1>5, ApplicationFlow, WriterFlow, ServeFlow DEF Next

LEMMA SoundHolds == Spec => [](~ upset => Sound)
BY TypeCorrect, OwnershipHolds, PTL DEF Sound

LEMMA FlowHolds == Spec => [](Orderly => Flow)
<1>1. (~ upset => Sound) /\ (Orderly => Flow) /\ [Next]_vars => (Orderly => Flow)'
  BY FlowStep
<1> QED
  BY <1>1, InitFlow, SoundHolds, PTL DEF Spec

(* The read thread finds the request of every response, for any number of  *)
(* calls, structures, connections and slots the pool started with: as long *)
(* as the calls name services that exist and every pop has returned what   *)
(* it unlinked, the number of every message between the threads is the     *)
(* slot of the live request that holds the callback of this message's      *)
(* call, but for the -1 of the one request whose insert failed             *)
(* (MessagesFindTheirRequest).                                             *)
THEOREM EveryMessageFindsItsRequest == Spec => []MessagesFindTheirRequest
<1>1. (~ upset => Sound) /\ (Orderly => Flow) => MessagesFindTheirRequest
  <2> SUFFICES ASSUME Sound, Flow, NEW f \in InFlight
               PROVE  IF f[2] = -1 THEN failed \in live /\ callOf[failed] = f[1]
                      ELSE InSlot(f[2], f[1])
    BY DEF MessagesFindTheirRequest, InSlot, Orderly
  <2>1. ASSUME NEW S, NEW s \in Seq(S), NEW m \in Range(s) PROVE \E i \in 1 .. Len(s) : m = s[i]
    BY DEF Range
  <2>2. \A k \in Conns : /\ requests[k] \in Seq(Requests) /\ responses[k] \in Seq(Responses)
                         /\ rbuf[k] \in Seq(Responses)
    BY DEF Sound, TypeOK, NetTypeOK
  <2>3. \A n \in Slots(pool) : n # -1
    BY DEF Sound, TypeOK, PoolOK, Slots
  <2>4. CASE f \in {<<m.call, m.seq>> : m \in UNION {Range(requests[k]) : k \in Conns}}
    <3>1. PICK k \in Conns : \E m \in Range(requests[k]) : f = <<m.call, m.seq>>
      BY <2>4
    <3>2. PICK i \in 1 .. Len(requests[k]) : f = <<requests[k][i].call, requests[k][i].seq>>
      BY <2>1, <2>2, <3>1
    <3>3. f[2] = requests[k][i].seq /\ f[1] = requests[k][i].call
      BY <3>2
    <3>4. Tied(f[2], f[1])
      BY <3>3 DEF Flow, MessagesAreTied
    <3> QED
      BY <2>3, <3>4 DEF Tied, InSlot, Adrift
  <2>5. CASE f \in {<<m.answer.of, m.seq>> :
                     m \in UNION {Range(responses[k]) \cup Range(rbuf[k]) : k \in Conns}}
    <3>1. PICK k \in Conns : \E m \in Range(responses[k]) \cup Range(rbuf[k]) :
                               f = <<m.answer.of, m.seq>>
      BY <2>5
    <3>2. PICK s \in {responses[k], rbuf[k]} : \E m \in Range(s) : f = <<m.answer.of, m.seq>>
      BY <3>1
    <3>3. PICK i \in 1 .. Len(s) : f = <<s[i].answer.of, s[i].seq>>
      <4>1. s \in Seq(Responses)
        BY <2>2
      <4>2. \A m \in Range(s) : \E i \in 1 .. Len(s) : m = s[i]
        BY <2>1, <4>1
      <4> QED
        BY <3>2, <4>2, Zenon
    <3>4. f[2] = s[i].seq /\ f[1] = s[i].answer.of
      BY <3>3
    <3>5. Tied(f[2], f[1])
      BY <3>4 DEF Flow, MessagesAreTied
    <3> QED
      BY <2>3, <3>5 DEF Tied, InSlot, Adrift
  <2> QED
    BY <2>4, <2>5 DEF InFlight
<1> QED
  BY <1>1, SoundHolds, FlowHolds, PTL

-----------------------------------------------------------------------------
(* The promise to the caller. *)

LEMMA CallbackAnswers ==
  ASSUME Sound, Flow, RunCallback
  PROVE  LET c == callOf[reader.req] IN
         /\ c \in called /\ c \in Calls /\ answers[c] = <<>>
         /\ reader.rsp.answer = [of |-> c, code |-> "RPC_OK"]
         /\ answers' = [answers EXCEPT ![c] = <<[of |-> c, code |-> "RPC_OK"]>>]
<1> DEFINE c == callOf[reader.req]
           a == [of |-> c, code |-> "RPC_OK"]
<1>1. reader.pc = "callback" /\ reader.req \in live
  BY ReaderHolds DEF RunCallback
<1>2. c \in called /\ c \in Calls /\ c # NoCall
  BY <1>1, CallAssumption DEF Sound, CallsAreCarriedOnce, TypeOK, AppTypeOK
<1>3. answers[c] = <<>> /\ reader.rsp.answer = a
  BY <1>1 DEF Flow, LiveAreUnanswered, ThreadsHoldTheirs
<1>4. answers' = [answers EXCEPT ![c] = Append(answers[c], a)]
  BY <1>2, <1>3 DEF RunCallback
<1> HIDE DEF a, c
<1>5. Append(answers[c], a) = <<a>>
  BY <1>3
<1> QED
  BY <1>2, <1>3, <1>4, <1>5 DEF a, c

(* As long as the calls name services that exist, every step of the path   *)
(* is a step of CallPromise or changes nothing the caller sees: a callback *)
(* is only run for a call that was made and has no answer yet, and with    *)
(* the answer to this very call.  The promise itself is void from the pop  *)
(* on that returns another request than it unlinked.  That the answer does *)
(* come (KeepsPromise under FairSpec) is checked by TLC.                   *)
THEOREM AnswersAreThePromised ==
  Spec => Promise!Init /\ [][called \subseteq Known => [Promise!Next]_(Promise!vars)]_vars
<1>1. Init => Promise!Init
  BY DEF Init, Promise!Init
<1>2. ASSUME TypeOK, TypeOK', ~ upset => Sound, Orderly => Flow, [Next]_vars,
             called \subseteq Known
      PROVE  [Promise!Next]_(Promise!vars)
  <2>0. CASE upset'
    BY <2>0 DEF Promise!Next
  <2> SUFFICES ASSUME ~ upset' PROVE [Promise!Next]_(Promise!vars)
    BY <2>0
  <2>1. Sound /\ Flow /\ UNCHANGED upset
    <3>1. upset \in BOOLEAN /\ upset' \in BOOLEAN
      BY <1>2 DEF TypeOK, FrameTypeOK
    <3>2. ~ upset
      BY <1>2, UpsetStays
    <3> QED
      BY <1>2, <3>1, <3>2 DEF Orderly
  <2>2. ASSUME NEW c \in Calls, CallAsync(c) PROVE Promise!Next
    BY <2>2 DEF CallAsync, Promise!Next, Promise!Call
  <2>3. ASSUME NEW c \in Sync, CallSync(c) PROVE CallAsync(c) /\ c \in Calls
    BY <2>3, CallAssumption DEF CallSync
  <2>4. ASSUME RunCallback PROVE Promise!Next
    <3> DEFINE c == callOf[reader.req]
    <3>1. /\ c \in called /\ c \in Calls /\ answers[c] = <<>>
          /\ answers' = [answers EXCEPT ![c] = <<[of |-> c, code |-> "RPC_OK"]>>]
      BY <2>1, <2>4, CallbackAnswers
    <3>2. UNCHANGED called /\ c \in Known
      BY <1>2, <2>4, <3>1 DEF RunCallback, appVars
    <3> HIDE DEF c
    <3>3. Promise!Answer(c)
      BY <2>1, <3>1, <3>2 DEF Promise!Answer, Promise!RightAnswer
    <3> QED
      BY <3>1, <3>3 DEF Promise!Next
  <2>5. ASSUME \/ ReturnSync \/ Timeout \/ Writer
               \/ \E k \in Conns : Register(k) \/ Serve(k) \/ ReadEvent(k)
               \/ ReadDone \/ LookUp \/ RemoveSession \/ FreeRequest
        PROVE  UNCHANGED <<called, answers>>
    BY <2>5 DEF ReturnSync, Timeout, Writer, WriterPop, WriterRead, WriterInsert,
                WriterInsertFails, WriterNumber, WriterSend, Register, Serve, ReadEvent,
                ReadDone, LookUp, RemoveSession, FreeRequest, appVars
  <2>6. UNCHANGED vars => UNCHANGED <<called, answers>>
    BY DEF vars
  <2> QED
    BY <1>2, <2>1, <2>2, <2>3, <2>4, <2>5, <2>6 DEF Next, Application, Reader, Promise!vars
<1> QED
  BY <1>1, <1>2, TypeCorrect, SoundHolds, FlowHolds, PTL DEF Spec

-----------------------------------------------------------------------------
(* rpc_client_call: the frame of the thread that waits.  Until a call of   *)
(* the thread times out, every earlier call of it is answered, so that the *)
(* next callback can only be that of the call that waits.                  *)
FrameInv == FrameIsOwn /\ SyncReturnsOwn /\ OutputStaysIntact

LEMMA InitFrame == Init => FrameInv
<1> SUFFICES ASSUME Init PROVE FrameInv
  OBVIOUS
<1>1. \A c \in Sync : returned[c] = NoAnswer
  BY CallAssumption DEF Init
<1>2. frame.of = NoCall /\ frame.got = NoAnswer
  BY DEF Init, NoFrame
<1>3. called = {} /\ ~ crashed /\ \A c \in Calls : returned[c] = NoAnswer
  BY DEF Init
<1> QED
  BY <1>1, <1>2, <1>3 DEF FrameInv, FrameIsOwn, SyncReturnsOwn, OutputStaysIntact, NoAnswer

(* A failed insert stays one. *)
LEMMA FailedStays == [Next]_vars /\ failed # NULL => failed' # NULL
BY DEF Next, Application, CallAsync, CallSync, ReturnSync, Timeout, Writer, WriterPop,
       WriterRead, WriterInsert, WriterInsertFails, WriterNumber, WriterSend, Register,
       Serve, Reader, ReadEvent, ReadDone, LookUp, RunCallback, RemoveSession, FreeRequest,
       vars, sideVars

(* The steps that touch neither the frame nor what was returned. *)
LEMMA FrameStays ==
  ASSUME FrameInv, Orderly, UNCHANGED <<called, frame, returned, answers>>,
         failed # NULL => failed' # NULL, crashed' => crashed \/ failed' # NULL
  PROVE  FrameInv'
BY DEF FrameInv, FrameIsOwn, SyncReturnsOwn, OutputStaysIntact, TimedOut, Answered, Orderly

LEMMA CallFrame ==
  ASSUME Sound, Flow, FrameInv, Orderly,
         \/ \E c \in Calls \ Sync : CallAsync(c) /\ UNCHANGED syncVars
         \/ \E c \in Sync : CallSync(c)
  PROVE  FrameInv'
<1>1. ASSUME NEW c \in Calls \ Sync, CallAsync(c), UNCHANGED syncVars PROVE FrameInv'
  <2>1. called' = called \cup {c} /\ UNCHANGED <<frame, returned, answers, crashed, failed>>
    BY <1>1 DEF CallAsync, syncVars
  <2>2. called' \cap Sync = called \cap Sync /\ TimedOut' = TimedOut /\ ~ (called' \subseteq Sync)
    BY <1>1, <2>1 DEF TimedOut
  <2>3. FrameIsOwn'
    BY <2>1, <2>2 DEF FrameInv, FrameIsOwn, Answered
  <2>4. SyncReturnsOwn'
    BY <2>1, <2>2 DEF FrameInv, SyncReturnsOwn, Orderly
  <2>5. OutputStaysIntact'
    BY <2>2 DEF OutputStaysIntact
  <2> QED
    BY <2>3, <2>4, <2>5 DEF FrameInv
<1>2. ASSUME NEW c \in Sync, CallSync(c) PROVE FrameInv'
  <2>1. /\ called' = called \cup {c} /\ c \notin called /\ frame.of = NoCall
        /\ UNCHANGED <<returned, answers, crashed, failed>>
        /\ frame' = [NoFrame EXCEPT !.of = c]
    BY <1>2 DEF CallSync, CallAsync, NewFrame
  <2>2. frame'.of = c /\ frame'.got = NoAnswer
    BY <2>1 DEF NoFrame
  <2>3. TimedOut' = TimedOut /\ c \in Calls /\ NoCall \notin Sync
    BY <2>1, CallAssumption DEF TimedOut
  <2>4. FrameIsOwn'
    <3>1. returned[c] = NoAnswer
      BY <2>1, <2>3 DEF FrameInv, FrameIsOwn
    <3>2. TimedOut = {} => \A d \in called \cap Sync : Answered(d)
      BY <2>1, <2>3 DEF FrameInv, FrameIsOwn
    <3> QED
      BY <2>1, <2>2, <2>3, <3>1, <3>2 DEF FrameInv, FrameIsOwn, Answered
  <2>5. SyncReturnsOwn'
    BY <2>1, <2>3 DEF FrameInv, SyncReturnsOwn, Orderly
  <2>6. OutputStaysIntact'
    BY <2>2 DEF OutputStaysIntact
  <2> QED
    BY <2>4, <2>5, <2>6 DEF FrameInv
<1> QED
  BY <1>1, <1>2

(* What is returned is what was in the frame, for the call that waited. *)
LEMMA ReturnFrame ==
  ASSUME Sound, Flow, FrameInv, Orderly, ReturnSync
  PROVE  FrameInv'
<1> DEFINE f == frame.of
<1>1. /\ f \in Sync /\ f \in Calls /\ f \in called /\ f # NoCall /\ returned[f] = NoAnswer
      /\ frame.got # NoAnswer
  BY CallAssumption DEF ReturnSync, FrameInv, FrameIsOwn, Sound, TypeOK, FrameTypeOK
<1>2. /\ returned'[f] = frame.got /\ \A c \in Calls : c # f => returned'[c] = returned[c]
      /\ UNCHANGED <<called, answers, crashed, failed>>
  BY <1>1 DEF ReturnSync, appVars, sideVars, Sound, TypeOK, FrameTypeOK
<1>3. frame'.of = NoCall /\ frame'.got = frame.got /\ frame'.intact = frame.intact
  BY DEF ReturnSync, Sound, TypeOK, FrameTypeOK
<1> HIDE DEF f
<1>4. TimedOut \subseteq TimedOut'
  BY <1>1, <1>2, CallAssumption DEF TimedOut, NoAnswer
<1>5. frame.got.of \in called \cap Sync /\ (TimedOut = {} => frame.got.of = f)
  BY <1>1 DEF FrameInv, FrameIsOwn, f
<1>6. FrameIsOwn'
  BY <1>1, <1>2, <1>3, <1>4, <1>5 DEF FrameInv, FrameIsOwn, Answered
<1>7. SyncReturnsOwn'
  <2>1. ASSUME NEW c \in Sync, returned'[c].code = "RPC_OK"
        PROVE  returned'[c].of \in IF TimedOut' = {} THEN {c} ELSE called \cap Sync
    <3>1. CASE c = f
      BY <1>2, <1>4, <1>5, <3>1
    <3>2. CASE c # f
      <4>1. c \in Calls /\ returned'[c] = returned[c]
        BY <1>2, <3>2, CallAssumption
      <4>2. c \in called
        BY <2>1, <4>1 DEF FrameInv, FrameIsOwn, NoAnswer
      <4>3. returned[c].of \in IF TimedOut = {} THEN {c} ELSE called \cap Sync
        BY <2>1, <4>1 DEF FrameInv, SyncReturnsOwn
      <4> QED
        BY <1>4, <4>1, <4>2, <4>3
    <3> QED
      BY <3>1, <3>2
  <2> QED
    BY <1>2, <1>4, <2>1 DEF FrameInv, SyncReturnsOwn, Orderly
<1>8. OutputStaysIntact'
  BY <1>2, <1>3, <1>4 DEF FrameInv, OutputStaysIntact, Orderly
<1> QED
  BY <1>6, <1>7, <1>8 DEF FrameInv

LEMMA TimeoutFrame ==
  ASSUME Sound, Flow, FrameInv, Orderly, Timeout
  PROVE  FrameInv'
<1> DEFINE f == frame.of
           r == [of |-> f, code |-> "RPC_Timeout"]
<1>1. f \in Sync /\ f \in Calls /\ f \in called /\ f # NoCall /\ frame.got = NoAnswer
  BY CallAssumption DEF Timeout, FrameInv, FrameIsOwn, Sound, TypeOK, FrameTypeOK
<1>2. /\ returned'[f] = r /\ \A c \in Calls : c # f => returned'[c] = returned[c]
      /\ UNCHANGED <<called, answers, crashed, failed>>
  BY <1>1 DEF Timeout, appVars, sideVars, Sound, TypeOK, FrameTypeOK
<1>3. frame'.of = NoCall /\ frame'.got = NoAnswer
  BY <1>1 DEF Timeout, Sound, TypeOK, FrameTypeOK
<1>4. r.code = "RPC_Timeout"
  OBVIOUS
<1> HIDE DEF f, r
<1>5. TimedOut' # {}
  BY <1>1, <1>2, <1>4 DEF TimedOut
<1>6. FrameIsOwn'
  BY <1>1, <1>2, <1>3, <1>5 DEF FrameInv, FrameIsOwn
<1>7. SyncReturnsOwn'
  <2>1. ASSUME NEW c \in Sync, returned'[c].code = "RPC_OK"
        PROVE  returned'[c].of \in called \cap Sync
    <3>1. c \in Calls /\ returned'[c] = returned[c]
      BY <1>2, <1>4, <2>1, CallAssumption
    <3>2. c \in called
      BY <2>1, <3>1 DEF FrameInv, FrameIsOwn, NoAnswer
    <3>3. returned[c].of \in IF TimedOut = {} THEN {c} ELSE called \cap Sync
      BY <2>1, <3>1 DEF FrameInv, SyncReturnsOwn
    <3> QED
      BY <2>1, <3>1, <3>2, <3>3
  <2> QED
    BY <1>2, <1>5, <2>1 DEF SyncReturnsOwn
<1>8. OutputStaysIntact'
  BY <1>3 DEF OutputStaysIntact
<1> QED
  BY <1>6, <1>7, <1>8 DEF FrameInv

(* Nothing is on its way when all the calls made are answered. *)
LEMMA ReadFrame ==
  ASSUME Sound, Flow, FrameInv, Orderly, NEW k \in Conns, ReadEvent(k)
  PROVE  FrameInv'
<1>1. /\ UNCHANGED <<called, returned, answers, crashed, failed>>
      /\ frame'.of = frame.of /\ frame'.got = frame.got
  BY DEF ReadEvent, appVars, sideVars, Sound, TypeOK, FrameTypeOK
<1>2. TimedOut' = TimedOut
  BY <1>1 DEF TimedOut
<1>3. FrameIsOwn'
  BY <1>1, <1>2 DEF FrameInv, FrameIsOwn, Answered
<1>4. SyncReturnsOwn'
  BY <1>1, <1>2 DEF FrameInv, SyncReturnsOwn, Orderly
<1>5. PICK c \in called : answers[c] = <<>>
  <2>1. responses[k] \in Seq(Responses) /\ 1 .. Len(responses[k]) # {} /\ reader.pc = "poll"
    BY DEF ReadEvent, Sound, TypeOK, NetTypeOK
  <2>2. 1 \in 1 .. Len(responses[k])
    BY <2>1
  <2>3. Tied(responses[k][1].seq, responses[k][1].answer.of)
    BY <2>2 DEF Flow, MessagesAreTied
  <2>4. pool.data[responses[k][1].seq] \in live \/ failed \in live
    BY <2>3 DEF Tied, InSlot, Adrift
  <2> QED
    BY <2>1, <2>4 DEF Sound, CallsAreCarriedOnce, Flow, LiveAreUnanswered
<1>6. ~ (called \subseteq Sync /\ TimedOut = {} /\ frame.got # NoAnswer)
  BY <1>5 DEF FrameInv, FrameIsOwn, Answered
<1>7. OutputStaysIntact'
  BY <1>1, <1>2, <1>6 DEF OutputStaysIntact
<1> QED
  BY <1>3, <1>4, <1>7 DEF FrameInv

(* The callback of a call that waits finds the frame of this call. *)
LEMMA CallbackFrame ==
  ASSUME Sound, Flow, FrameInv, Orderly, RunCallback
  PROVE  FrameInv'
<1>0. PICK c \in Calls : c = callOf[reader.req]
  BY CallbackAnswers
<1> DEFINE a == [of |-> c, code |-> "RPC_OK"]
<1>1. /\ c \in called /\ c # NoCall /\ answers[c] = <<>>
      /\ reader.rsp.answer = a /\ answers' = [answers EXCEPT ![c] = <<a>>]
  BY <1>0, CallbackAnswers, CallAssumption
<1>2. /\ UNCHANGED <<called, returned, failed>>
      /\ IF c \in Sync THEN CbCall ELSE UNCHANGED <<frame, crashed>>
  BY <1>0, <1>1 DEF RunCallback, appVars, sideVars
<1>3. a.of = c
  OBVIOUS
<1> HIDE DEF a
<1>4. Answered(c)' /\ \A d \in Calls : Answered(d) => Answered(d)'
  <2>1. answers \in [Calls -> Seq(Answers)] /\ <<a>> # <<>>
    BY DEF Sound, TypeOK, ReaderTypeOK
  <2>2. answers'[c] = <<a>> /\ \A d \in Calls : d # c => answers'[d] = answers[d]
    BY <1>1, <2>1
  <2> QED
    BY <1>1, <2>1, <2>2, Zenon DEF Answered
<1>5. \A d \in Calls \ called : answers'[d] = <<>>
  BY <1>1 DEF Flow, LiveAreUnanswered
<1>6. TimedOut' = TimedOut
  BY <1>2 DEF TimedOut
<1>7. CASE c \notin Sync
  <2>1. UNCHANGED <<called, returned, frame, crashed, failed>>
    BY <1>2, <1>7
  <2>2. FrameIsOwn'
    BY <1>4, <1>6, <2>1, CallAssumption DEF FrameInv, FrameIsOwn
  <2>3. SyncReturnsOwn' /\ OutputStaysIntact'
    BY <1>6, <2>1 DEF FrameInv, SyncReturnsOwn, OutputStaysIntact, Orderly
  <2> QED
    BY <2>2, <2>3 DEF FrameInv
<1>8. CASE c \in Sync /\ frame.of = NoCall
  <2>1. TimedOut # {}
    BY <1>1, <1>8 DEF FrameInv, FrameIsOwn, Answered
  <2>2. UNCHANGED <<called, returned, frame>>
    BY <1>2, <1>8 DEF CbCall
  <2>3. FrameIsOwn'
    BY <1>6, <2>1, <2>2 DEF FrameInv, FrameIsOwn
  <2>4. SyncReturnsOwn' /\ OutputStaysIntact'
    BY <1>6, <2>1, <2>2 DEF FrameInv, SyncReturnsOwn, OutputStaysIntact, Orderly
  <2> QED
    BY <2>3, <2>4 DEF FrameInv
<1>9. CASE c \in Sync /\ frame.of # NoCall
  <2>1. /\ frame'.of = frame.of /\ frame'.got = a /\ frame'.intact = TRUE
        /\ UNCHANGED <<called, returned, crashed, failed>>
    BY <1>1, <1>2, <1>9 DEF CbCall, Sound, TypeOK, FrameTypeOK
  <2>2. TimedOut = {} => c = frame.of
    BY <1>1, <1>9 DEF FrameInv, FrameIsOwn, Answered
  <2>3. TimedOut = {} => \A d \in called \cap Sync : Answered(d)'
    <3>1. TimedOut = {} => \A d \in called \cap Sync : d # c => Answered(d)
      BY <2>2 DEF FrameInv, FrameIsOwn
    <3> QED
      BY <1>4, <3>1, CallAssumption
  <2>4. FrameIsOwn'
    BY <1>1, <1>3, <1>6, <1>9, <2>1, <2>2, <2>3 DEF FrameInv, FrameIsOwn
  <2>5. SyncReturnsOwn'
    BY <1>6, <2>1 DEF FrameInv, SyncReturnsOwn, Orderly
  <2>6. OutputStaysIntact'
    BY <2>1 DEF OutputStaysIntact
  <2> QED
    BY <2>4, <2>5, <2>6 DEF FrameInv
<1> QED
  BY <1>7, <1>8, <1>9

LEMMA FrameStep ==
  ASSUME ~ upset => Sound, Orderly => Flow /\ FrameInv, [Next]_vars, Orderly'
  PROVE  FrameInv'
<1>1. Orderly /\ Sound /\ Flow /\ FrameInv
  BY CallsStayMade DEF Orderly
<1>2. ASSUME Application PROVE FrameInv'
  BY <1>1, <1>2, CallFrame, ReturnFrame, TimeoutFrame DEF Application
<1>3. ASSUME \/ Writer \/ ReadDone \/ RemoveSession \/ FreeRequest
             \/ \E k \in Conns : Register(k) \/ Serve(k)
      PROVE  FrameInv'
  <2>1. UNCHANGED <<called, frame, returned, answers, crashed>>
    BY <1>3 DEF Writer, WriterPop, WriterRead, WriterInsert, WriterInsertFails, WriterNumber,
                WriterSend, Register, Serve, ReadDone, RemoveSession, FreeRequest, appVars,
                syncVars
  <2> QED
    BY <1>1, <2>1, FrameStays, FailedStays
<1>4. ASSUME LookUp PROVE FrameInv'
  <2>1. UNCHANGED <<called, frame, returned, answers, failed>>
    BY <1>4 DEF LookUp, appVars, syncVars, sideVars
  <2>2. crashed' => crashed \/ failed # NULL
    BY <1>1, <1>4, LookUpFinds
  <2> QED
    BY <1>1, <2>1, <2>2, FrameStays
<1>5. CASE UNCHANGED vars
  BY <1>1, <1>5, FrameStays DEF vars, sideVars
<1> QED
  BY <1>1, <1>2, <1>3, <1>4, <1>5, ReadFrame, CallbackFrame DEF Next, Reader

LEMMA FrameHolds == Spec => [](Orderly => FrameInv)
<1>1. /\ (~ upset => Sound) /\ (Orderly => Flow) /\ (Orderly => FrameInv) /\ [Next]_vars
      => (Orderly => FrameInv)'
  BY FrameStep
<1> QED
  BY <1>1, InitFrame, SoundHolds, FlowHolds, PTL DEF Spec

(* rpc_client_call returns the answer to its own call, and the callback of *)
(* a call that waits never writes on a frame that is gone, until a call of *)
(* the thread has timed out; and even then what it returns is the answer   *)
(* to an earlier call of the same thread (SyncReturnsOwn).  Before that    *)
(* nothing but the number -1 of a failed insert ends the client.           *)
THEOREM SyncCallsReturnTheirOwn == Spec => []SyncReturnsOwn
<1>1. (Orderly => FrameInv) => SyncReturnsOwn
  BY DEF FrameInv, SyncReturnsOwn
<1> QED
  BY <1>1, FrameHolds, PTL

(* With only calls that wait, and none timed out, nothing is read into the *)
(* buffer that output points to until the next call (OutputStaysIntact).   *)
THEOREM OutputIsKept == Spec => []OutputStaysIntact
<1>1. (Orderly => FrameInv) => OutputStaysIntact
  BY DEF FrameInv, OutputStaysIntact
<1> QED
  BY <1>1, FrameHolds, PTL

(* The inductive invariant of the path, which the run checks as IInv. *)
THEOREM IInvHolds == Spec => []IInv
<1>1. TypeOK /\ (~ upset => Sound) /\ (Orderly => Flow) /\ (Orderly => FrameInv) => IInv
  BY DEF Sound, Flow, FrameInv, IInv
<1> QED
  BY <1>1, TypeCorrect, SoundHolds, FlowHolds, FrameHolds, PTL
=============================================================================
