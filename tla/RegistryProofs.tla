--------------------------- MODULE RegistryProofs ---------------------------
(***************************************************************************)
(* That the registry files each service once, where a search looks for it, *)
(* and that a search no expansion overlaps finds what was registered, for  *)
(* any services, keys, hash values, sizes and workers.                     *)
(*                                                                         *)
(* The proof names the array each registered service is in (at).  Filed    *)
(* says what every chain holds in terms of at, so that a step that relinks *)
(* an entry changes at for one service, and the positions of the others,   *)
(* which change with it, are not mentioned.                                *)
(***************************************************************************)
EXTENDS Registry, FiniteSetTheorems, TLAPS

Buckets(p) == 0 .. (Sizes[p] - 1)

LEMMA SizesArePositive ==
  ASSUME NEW p \in Arrays
  PROVE  /\ Sizes[p] \in Nat \ {0} /\ p \in Nat /\ p >= 1 /\ p <= Len(Sizes)
         /\ Sizes[p] \in Range(Sizes) /\ Len(Sizes) \in Nat
<1>1. Sizes \in Seq(Nat \ {0}) /\ Len(Sizes) \in Nat
  BY RegistryAssumption
<1>2. DOMAIN Sizes = Arrays
  BY <1>1 DEF Arrays
<1> QED
  BY <1>1, <1>2 DEF Arrays, Range

LEMMA SizesGrow ==
  ASSUME NEW p \in Arrays, NEW q \in Arrays, p <= q
  PROVE  Sizes[p] <= Sizes[q]
<1>1. CASE p = q
  BY <1>1, SizesArePositive
<1>2. CASE p # q
  <2>1. p < q
    BY <1>2, SizesArePositive
  <2> QED
    BY <2>1, RegistryAssumption, SizesArePositive DEF Arrays
<1> QED
  BY <1>1, <1>2

LEMMA HashedInto ==
  ASSUME NEW p \in Arrays, NEW k \in Keys
  PROVE  IndexFor(Sizes[p], k) \in Buckets(p) /\ IndexFor(Sizes[p], k) \in Nat
<1>1. PICK n \in Nat : n = HashOf[k]
  BY RegistryAssumption
<1>2. PICK m \in Nat : m = Sizes[p] /\ m > 0
  BY SizesArePositive
<1>3. n % m \in 0 .. (m - 1)
  BY <1>2
<1> QED
  BY <1>1, <1>2, <1>3 DEF IndexFor, Buckets

LEMMA KeysAreHashed ==
  ASSUME NEW p \in Arrays, NEW s \in Services
  PROVE  KeyOf[s] \in Keys /\ IndexFor(Sizes[p], KeyOf[s]) \in Buckets(p)
<1>1. KeyOf[s] \in Keys
  BY RegistryAssumption
<1> QED
  BY <1>1, HashedInto

-----------------------------------------------------------------------------
(* Chains of entries.                                                      *)

In(s, c) == \E k \in 1 .. Len(c) : c[k] = s

Distinct(c) == \A j, k \in 1 .. Len(c) : c[j] = c[k] => j = k

LEMMA ChainTail ==
  ASSUME NEW c \in Seq(Services), c # <<>>, Distinct(c)
  PROVE  /\ Head(c) \in Services /\ In(Head(c), c)
         /\ Tail(c) \in Seq(Services) /\ Distinct(Tail(c))
         /\ \A s : In(s, Tail(c)) <=> In(s, c) /\ s # Head(c)
<1>1. PICK m \in Nat, n \in Nat : m = Len(c) /\ m = n + 1
  <2>1. Len(c) \in Nat /\ Len(c) >= 1
    OBVIOUS
  <2>2. Len(c) - 1 \in Nat /\ Len(c) = (Len(c) - 1) + 1
    BY <2>1
  <2> QED
    BY <2>1, <2>2
<1>2. Tail(c) \in Seq(Services) /\ Len(Tail(c)) = Len(c) - 1
      /\ \A k \in 1 .. (Len(c) - 1) : Tail(c)[k] = c[k + 1]
  OBVIOUS
<1>3. PICK r \in Seq(Services) :
        r = Tail(c) /\ Len(r) = n /\ \A k \in 1 .. n : r[k] = c[k + 1]
  <2>1. Len(c) - 1 = n
    BY <1>1
  <2>2. Len(Tail(c)) = n /\ \A k \in 1 .. n : Tail(c)[k] = c[k + 1]
    BY <1>2, <2>1
  <2> QED
    BY <1>2, <2>2
<1>4. \A j, k \in 1 .. m : c[j] = c[k] => j = k
  BY <1>1 DEF Distinct
<1>5. Head(c) = c[1] /\ 1 \in 1 .. m /\ c[1] \in Services
  BY <1>1
<1>6. Distinct(r)
  <2> SUFFICES ASSUME NEW j \in 1 .. n, NEW k \in 1 .. n, r[j] = r[k] PROVE j = k
    BY <1>3 DEF Distinct
  <2>1. j + 1 \in 1 .. m /\ k + 1 \in 1 .. m
    BY <1>1
  <2>2. c[j + 1] = c[k + 1]
    BY <1>3
  <2>3. j + 1 = k + 1
    BY <1>4, <2>1, <2>2
  <2> QED
    BY <2>3
<1>7. ASSUME NEW s PROVE In(s, r) <=> In(s, c) /\ s # c[1]
  <2>1. ASSUME NEW k \in 1 .. n, r[k] = s PROVE In(s, c) /\ s # c[1]
    <3>1. k + 1 \in 1 .. m /\ k + 1 # 1 /\ 1 \in 1 .. m /\ s = c[k + 1]
      BY <1>1, <1>3, <2>1
    <3> QED
      BY <1>1, <1>4, <3>1 DEF In
  <2>2. ASSUME NEW k \in 1 .. m, c[k] = s, s # c[1] PROVE In(s, r)
    <3>1. PICK j \in 1 .. n : k = j + 1
      <4>1. k # 1 /\ k - 1 \in 1 .. n /\ k = (k - 1) + 1
        BY <1>1, <2>2
      <4> QED
        BY <4>1
    <3> QED
      BY <1>3, <2>2, <3>1 DEF In
  <2> QED
    BY <1>1, <1>3, <2>1, <2>2 DEF In
<1>8. In(Head(c), c)
  BY <1>1, <1>5 DEF In
<1> QED
  BY <1>3, <1>5, <1>6, <1>7, <1>8

LEMMA FrontShifts ==
  ASSUME NEW c \in Seq(Services), NEW s \in Services
  PROVE  /\ <<s>> \o c \in Seq(Services) /\ Len(<<s>> \o c) = Len(c) + 1
         /\ (<<s>> \o c)[1] = s
         /\ \A k \in 1 .. Len(c) : (<<s>> \o c)[k + 1] = c[k]
<1>1. PICK n \in Nat : n = Len(c)
  OBVIOUS
<1>2. /\ <<s>> \in Seq(Services) /\ Len(<<s>>) = 1 /\ <<s>>[1] = s
      /\ <<s>> \o c \in Seq(Services) /\ Len(<<s>> \o c) = 1 + Len(c)
  OBVIOUS
<1>3. \A k \in 1 .. (1 + Len(c)) :
        (<<s>> \o c)[k] = IF k <= 1 THEN <<s>>[k] ELSE c[k - 1]
  OBVIOUS
<1>4. (<<s>> \o c)[1] = s
  BY <1>1, <1>2, <1>3
<1>5. ASSUME NEW k \in 1 .. Len(c) PROVE (<<s>> \o c)[k + 1] = c[k]
  <2>1. k + 1 \in 1 .. (1 + Len(c)) /\ ~ (k + 1 <= 1) /\ (k + 1) - 1 = k
    BY <1>1
  <2> QED
    BY <1>3, <2>1
<1> QED
  BY <1>1, <1>2, <1>4, <1>5

LEMMA ChainFront ==
  ASSUME NEW c \in Seq(Services), Distinct(c), NEW s \in Services, ~ In(s, c)
  PROVE  /\ <<s>> \o c \in Seq(Services) /\ Distinct(<<s>> \o c)
         /\ \A u : In(u, <<s>> \o c) <=> In(u, c) \/ u = s
         /\ Len(<<s>> \o c) = Len(c) + 1
         /\ \A k \in 1 .. Len(c) : (<<s>> \o c)[k + 1] = c[k]
<1>1. PICK n \in Nat : n = Len(c)
  OBVIOUS
<1>4. PICK r \in Seq(Services) : /\ r = <<s>> \o c /\ Len(r) = n + 1 /\ r[1] = s
                                 /\ \A k \in 1 .. n : r[k + 1] = c[k]
  BY <1>1, FrontShifts
<1>5. \A k \in 1 .. (n + 1) : k = 1 \/ \E j \in 1 .. n : k = j + 1
  <2> SUFFICES ASSUME NEW k \in 1 .. (n + 1), k # 1 PROVE \E j \in 1 .. n : k = j + 1
    OBVIOUS
  <2>1. k - 1 \in 1 .. n /\ k = (k - 1) + 1
    OBVIOUS
  <2> QED
    BY <2>1
<1>6. /\ \A j, k \in 1 .. n : c[j] = c[k] => j = k
      /\ \A k \in 1 .. n : c[k] # s
  BY <1>1 DEF Distinct, In
<1>7. Distinct(r)
  BY <1>4, <1>5, <1>6 DEF Distinct
<1>8. \A k \in 1 .. n : k + 1 \in 1 .. (n + 1)
  BY <1>1
<1>9. \A u : In(u, r) <=> In(u, c) \/ u = s
  <2>1. 1 \in 1 .. (n + 1)
    BY <1>1
  <2> QED
    BY <1>1, <1>4, <1>5, <1>8, <2>1 DEF In
<1> QED
  BY <1>1, <1>4, <1>7, <1>9

(* A chain without repetitions is not longer than there are services. *)
LEMMA ChainIsShort ==
  ASSUME NEW c \in Seq(Services), Distinct(c)
  PROVE  \A k \in 1 .. Len(c) : k \in 1 .. Cardinality(Services)
<1>1. Len(c) \in Nat /\ c \in [1 .. Len(c) -> Services]
  OBVIOUS
<1>2. IsFiniteSet(1 .. Len(c)) /\ Cardinality(1 .. Len(c)) = Len(c)
  BY <1>1, FS_Interval
<1>3. IsFiniteSet(Services) /\ Cardinality(Services) \in Nat
  BY RegistryAssumption, FS_CardinalityType
<1> SUFFICES ASSUME Cardinality(Services) < Len(c) PROVE FALSE
  BY <1>1, <1>3
<1>4. \E x, y \in 1 .. Len(c) : x # y /\ c[x] = c[y]
  BY <1>1, <1>2, <1>3, FS_PigeonHole
<1> QED
  BY <1>4 DEF Distinct

-----------------------------------------------------------------------------
(* The inductive invariant.                                                *)

(* Where a registered service is, when at names its array.                 *)
Holds(at, s, p, i) ==
  s \in registered /\ at[s] = p /\ i = IndexFor(Sizes[p], KeyOf[s])

Filed(at) ==
  /\ \A s \in registered : at[s] \in {table, primeindex}
  /\ \A p \in Arrays : \A i \in Buckets(p) :
       /\ Distinct(array[p][i])
       /\ \A s \in Services : In(s, array[p][i]) <=> Holds(at, s, p, i)

Counted ==
  entrycount = Cardinality(registered) + (IF registrar.pc = "idle" THEN 0 ELSE 1)

Shape == TypeOK /\ Phases /\ Counted

Inductive ==
  /\ Shape
  /\ \E at \in [Services -> Arrays] : Filed(at)
  /\ \A w \in Workers : LookupFollows(w)

LEMMA BucketTypes ==
  ASSUME TypeOK, NEW p \in Arrays
  PROVE  DOMAIN array[p] = Buckets(p) /\ \A i \in Buckets(p) : array[p][i] \in Seq(Services)
BY DEF TypeOK, Buckets

(* The array with one bucket changed.                                      *)
LEMMA OneBucket ==
  ASSUME TypeOK, NEW p \in Arrays, NEW i \in Buckets(p), NEW c
  PROVE  LET a == [array EXCEPT ![p][i] = c] IN
           /\ DOMAIN a = Arrays
           /\ \A q \in Arrays : DOMAIN a[q] = Buckets(q)
           /\ \A q \in Arrays : \A j \in Buckets(q) :
                a[q][j] = IF q = p /\ j = i THEN c ELSE array[q][j]
BY DEF TypeOK, Buckets

-----------------------------------------------------------------------------
(* Init. *)

LEMMA InitInductive == Init => Inductive
<1> SUFFICES ASSUME Init PROVE Inductive
  OBVIOUS
<1> USE DEF Init
<1>1. 1 \in Arrays /\ Sizes[1] \in Nat \ {0} /\ Sizes[1] \in Range(Sizes)
  <2>1. Len(Sizes) \in Nat /\ Len(Sizes) >= 1
    BY RegistryAssumption
  <2>2. 1 \in Arrays
    BY <2>1 DEF Arrays
  <2> QED
    BY <2>2, SizesArePositive
<1>2. IsFiniteSet({}) /\ Cardinality({}) = 0
  BY FS_EmptySet
<1>3. IsFiniteSet(Services) /\ Cardinality(Services) \in Nat
  BY RegistryAssumption, FS_CardinalityType
<1>4. TypeOK
  <2>1. DOMAIN array = Arrays /\ \A p \in Arrays : array[p] \in [0 .. (Sizes[p] - 1) -> Seq(Services)]
    BY DEF EmptyArray
  <2>2. entrycount \in 0 .. Cardinality(Services)
    BY <1>3
  <2>3. lookup \in [Workers ->
       [pc : {"idle", "table", "bucket", "walk"}, key : Keys \cup {NULL},
        index : Nat, array : 0 .. Len(Sizes), entry : Services \cup {NULL, Undefined},
        had : SUBSET Services, raced : BOOLEAN]]
    <3>1. 0 \in 0 .. Len(Sizes) /\ 0 \in Nat
      BY <1>1, SizesArePositive
    <3> QED
      BY <3>1 DEF NoLookup
  <2> QED
    BY <1>1, <2>1, <2>2, <2>3 DEF TypeOK
<1>5. Phases /\ Counted
  BY <1>2 DEF Phases, Counted
<1>6. PICK at \in [Services -> Arrays] : TRUE
  <2>1. [s \in Services |-> 1] \in [Services -> Arrays]
    BY <1>1
  <2> QED
    BY <2>1
<1>7. Filed(at)
  <2>1. \A p \in Arrays : \A i \in Buckets(p) : array[p][i] = <<>>
    BY DEF EmptyArray, Buckets
  <2>2. Distinct(<<>>) /\ \A s \in Services : ~ In(s, <<>>)
    BY DEF Distinct, In
  <2> QED
    BY <2>1, <2>2 DEF Filed, Holds
<1>8. \A w \in Workers : LookupFollows(w)
  BY DEF LookupFollows, NoLookup
<1> QED
  BY <1>4, <1>5, <1>7, <1>8 DEF Inductive, Shape

-----------------------------------------------------------------------------
(* Filed: what a step does to the chains.                                  *)

LEMMA FiledStays ==
  ASSUME NEW at, Filed(at), UNCHANGED <<array, table, primeindex, registered>>
  PROVE  Filed(at)'
BY DEF Filed, Holds

LEMMA ExpandFiled ==
  ASSUME NEW at, Filed(at), Phases, Expand
  PROVE  Filed(at)'
<1>1. \A s \in registered : at[s] = table
  BY DEF Filed, Phases, Expand
<1> QED
  BY <1>1 DEF Filed, Holds, Expand

LEMMA SwapFiled ==
  ASSUME NEW at \in [Services -> Arrays], Filed(at), TypeOK, Phases, SwapTable
  PROVE  Filed(at)'
<1>1. \A i \in Buckets(table) : array[table][i] = <<>>
  <2>1. table \in Arrays
    BY DEF TypeOK
  <2> QED
    BY <2>1, BucketTypes DEF Phases, SwapTable, Filled
<1>2. ASSUME NEW s \in registered PROVE at[s] = primeindex
  <2>1. s \in Services /\ table \in Arrays
    BY DEF TypeOK
  <2>2. SUFFICES ASSUME at[s] = table PROVE FALSE
    BY DEF Filed
  <2>3. PICK i \in Buckets(table) : i = IndexFor(Sizes[table], KeyOf[s])
    BY <2>1, KeysAreHashed
  <2>4. In(s, array[table][i])
    BY <2>1, <2>2, <2>3 DEF Filed, Holds
  <2> QED
    BY <1>1, <2>4 DEF In
<1>3. UNCHANGED <<array, primeindex, registered>>
  BY DEF SwapTable
<1> QED
  BY <1>2, <1>3 DEF Filed, Holds

(* What MoveEntry does to each bucket.                                     *)
LEMMA MoveBuckets ==
  ASSUME TypeOK, Phases, MoveEntry
  PROVE  \E i \in Buckets(table), s \in Services :
           /\ table \in Arrays /\ primeindex \in Arrays /\ table # primeindex
           /\ array[table][i] \in Seq(Services) /\ array[table][i] # <<>>
           /\ s = Head(array[table][i])
           /\ DOMAIN array' = Arrays /\ \A q \in Arrays : DOMAIN array'[q] = Buckets(q)
           /\ \A q \in Arrays : \A j \in Buckets(q) : array'[q][j] =
                IF q = table /\ j = i THEN Tail(array[q][j])
                ELSE IF q = primeindex /\ j = IndexFor(Sizes[primeindex], KeyOf[s])
                     THEN <<s>> \o array[q][j]
                ELSE array[q][j]
<1>1. /\ table \in Arrays /\ primeindex \in Arrays /\ table # primeindex
      /\ DOMAIN array = Arrays
  <2>1. table \in Arrays /\ primeindex \in Arrays /\ primeindex = table + 1
    BY DEF TypeOK, Phases, MoveEntry
  <2> QED
    BY <2>1, SizesArePositive DEF TypeOK
<1>2. PICK i \in Filled(table) : LET s == Head(array[table][i]) IN
        array' = [array EXCEPT ![table][i] = Tail(@),
                               ![primeindex][NewIndex(s, i)] = <<s>> \o @]
  BY DEF MoveEntry
<1>3. i \in Buckets(table) /\ array[table][i] \in Seq(Services) /\ array[table][i] # <<>>
  BY <1>1, BucketTypes DEF Filled
<1>4. PICK s \in Services : s = Head(array[table][i])
  BY <1>3
<1>5. PICK n : n = IndexFor(Sizes[primeindex], KeyOf[s]) /\ n \in Buckets(primeindex)
  BY <1>1, KeysAreHashed
<1>6. array' = [array EXCEPT ![table][i] = Tail(@), ![primeindex][n] = <<s>> \o @]
  BY <1>2, <1>4, <1>5 DEF NewIndex
<1>7. \A q \in Arrays : DOMAIN array[q] = Buckets(q)
  BY BucketTypes
<1>8. DOMAIN array' = Arrays /\ \A q \in Arrays : DOMAIN array'[q] = Buckets(q)
  BY <1>1, <1>3, <1>5, <1>6, <1>7
<1>9. ASSUME NEW q \in Arrays, NEW j \in Buckets(q)
      PROVE  array'[q][j] = IF q = table /\ j = i THEN Tail(array[q][j])
               ELSE IF q = primeindex /\ j = n THEN <<s>> \o array[q][j]
               ELSE array[q][j]
  BY <1>1, <1>3, <1>5, <1>6, <1>7
<1> QED
  BY <1>1, <1>3, <1>4, <1>5, <1>8, <1>9

LEMMA MoveFiled ==
  ASSUME NEW at \in [Services -> Arrays], Filed(at), TypeOK, Phases, MoveEntry
  PROVE  \E new \in [Services -> Arrays] : Filed(new)'
<1>1. PICK i \in Buckets(table), s \in Services :
           /\ table \in Arrays /\ primeindex \in Arrays /\ table # primeindex
           /\ array[table][i] \in Seq(Services) /\ array[table][i] # <<>>
           /\ s = Head(array[table][i])
           /\ DOMAIN array' = Arrays /\ \A q \in Arrays : DOMAIN array'[q] = Buckets(q)
           /\ \A q \in Arrays : \A j \in Buckets(q) : array'[q][j] =
                IF q = table /\ j = i THEN Tail(array[q][j])
                ELSE IF q = primeindex /\ j = IndexFor(Sizes[primeindex], KeyOf[s])
                     THEN <<s>> \o array[q][j]
                ELSE array[q][j]
  BY MoveBuckets
<1>2. UNCHANGED <<table, primeindex, registered>>
  BY DEF MoveEntry
<1>3. PICK t, p, n :
        /\ t = table /\ p = primeindex /\ t # p /\ t \in Arrays /\ p \in Arrays
        /\ n = IndexFor(Sizes[p], KeyOf[s])
  BY <1>1
<1>4. PICK new \in [Services -> Arrays] :
        \A u \in Services : new[u] = IF u = s THEN p ELSE at[u]
  <2>1. [at EXCEPT ![s] = p] \in [Services -> Arrays]
    BY <1>3
  <2>2. \A u \in Services : [at EXCEPT ![s] = p][u] = IF u = s THEN p ELSE at[u]
    OBVIOUS
  <2> QED
    BY <2>1, <2>2
<1>5. Holds(at, s, t, i)
  <2>1. Distinct(array[t][i])
    BY <1>1, <1>3 DEF Filed
  <2>2. In(s, array[t][i])
    BY <1>1, <1>3, <2>1, ChainTail
  <2> QED
    BY <1>3, <2>2 DEF Filed
<1>6. registered \subseteq Services
  BY DEF TypeOK
<1>7. \A u \in registered' : new[u] \in {table', primeindex'}
  BY <1>2, <1>3, <1>4, <1>6 DEF Filed
<1>8. ASSUME NEW q \in Arrays, NEW j \in Buckets(q)
      PROVE  /\ Distinct(array'[q][j])
             /\ \A u \in Services : In(u, array'[q][j]) <=> Holds(new, u, q, j)'
  <2>1. /\ Distinct(array[q][j]) /\ array[q][j] \in Seq(Services)
        /\ \A u \in Services : In(u, array[q][j]) <=> Holds(at, u, q, j)
    BY BucketTypes DEF Filed
  <2>2. \A u \in Services : Holds(new, u, q, j)' <=>
          u \in registered /\ (IF u = s THEN p ELSE at[u]) = q
          /\ j = IndexFor(Sizes[q], KeyOf[u])
    BY <1>2, <1>4 DEF Holds
  <2>3. CASE q = t /\ j = i
    <3>1. array'[q][j] = Tail(array[q][j]) /\ s = Head(array[q][j]) /\ array[q][j] # <<>>
      BY <1>1, <1>3, <2>3
    <3>2. Distinct(Tail(array[q][j]))
          /\ \A u : In(u, Tail(array[q][j])) <=> In(u, array[q][j]) /\ u # s
      BY <2>1, <3>1, ChainTail
    <3>3. \A u \in Services : u # s /\ Holds(at, u, q, j) <=> Holds(new, u, q, j)'
      BY <1>3, <2>2, <2>3 DEF Holds
    <3> QED
      BY <2>1, <3>1, <3>2, <3>3
  <2>4. CASE q = p /\ j = n
    <3>1. array'[q][j] = <<s>> \o array[q][j]
      BY <1>1, <1>3, <2>4
    <3>2. ~ In(s, array[q][j])
      BY <1>3, <1>5, <2>1, <2>4 DEF Holds
    <3>3. Distinct(<<s>> \o array[q][j])
          /\ \A u : In(u, <<s>> \o array[q][j]) <=> In(u, array[q][j]) \/ u = s
      BY <2>1, <3>2, ChainFront
    <3>4. \A u \in Services : u = s \/ Holds(at, u, q, j) <=> Holds(new, u, q, j)'
      BY <1>3, <1>5, <2>2, <2>4 DEF Holds
    <3> QED
      BY <2>1, <3>1, <3>3, <3>4
  <2>5. CASE ~ (q = t /\ j = i) /\ ~ (q = p /\ j = n)
    <3>1. array'[q][j] = array[q][j]
      BY <1>1, <1>3, <2>5
    <3>2. \A u \in Services : Holds(at, u, q, j) <=> Holds(new, u, q, j)'
      BY <1>3, <1>5, <2>2, <2>5 DEF Holds
    <3> QED
      BY <2>1, <3>1, <3>2
  <2> QED
    BY <2>3, <2>4, <2>5
<1> QED
  BY <1>4, <1>7, <1>8 DEF Filed

(* What Link does to each bucket.                                          *)
LEMMA LinkBuckets ==
  ASSUME TypeOK, Phases, Link
  PROVE  /\ table \in Arrays /\ registrar.service \in Services \ registered
         /\ DOMAIN array' = Arrays /\ \A q \in Arrays : DOMAIN array'[q] = Buckets(q)
         /\ \A q \in Arrays : \A j \in Buckets(q) : array'[q][j] =
              IF q = table /\ j = IndexFor(Sizes[table], KeyOf[registrar.service])
              THEN <<registrar.service>> \o array[q][j] ELSE array[q][j]
<1>1. table \in Arrays /\ tablelength = Sizes[table]
      /\ registrar.service \in Services \ registered
  BY DEF TypeOK, Phases, Link
<1>2. PICK s \in Services : s = registrar.service
  BY <1>1
<1>3. PICK n : n = IndexFor(Sizes[table], KeyOf[s]) /\ n \in Buckets(table)
  BY <1>1, KeysAreHashed
<1>4. array' = [array EXCEPT ![table][n] = <<s>> \o array[table][n]]
  <2>1. array' = [array EXCEPT ![table][n] = <<s>> \o @]
    BY <1>1, <1>2, <1>3 DEF Link, PutInFront
  <2> QED
    BY <2>1
<1>5. \A q \in Arrays : \A j \in Buckets(q) :
        array'[q][j] = IF q = table /\ j = n THEN <<s>> \o array[table][n] ELSE array[q][j]
  BY <1>1, <1>3, <1>4, OneBucket
<1>6. DOMAIN array' = Arrays /\ \A q \in Arrays : DOMAIN array'[q] = Buckets(q)
  BY <1>1, <1>3, <1>4, OneBucket
<1> QED
  BY <1>1, <1>2, <1>3, <1>5, <1>6

LEMMA LinkFiled ==
  ASSUME NEW at \in [Services -> Arrays], Filed(at), TypeOK, Phases, Link
  PROVE  \E new \in [Services -> Arrays] : Filed(new)'
<1>1. PICK s, t, n :
        /\ s = registrar.service /\ t = table /\ t = primeindex /\ t \in Arrays
        /\ s \in Services /\ s \notin registered /\ n = IndexFor(Sizes[t], KeyOf[s])
  BY LinkBuckets DEF Phases, Link
<1>2. \A q \in Arrays : \A j \in Buckets(q) :
        array'[q][j] = IF q = t /\ j = n THEN <<s>> \o array[q][j] ELSE array[q][j]
  BY <1>1, LinkBuckets
<1>3. UNCHANGED <<table, primeindex>> /\ registered' = registered \cup {s}
  BY <1>1 DEF Link
<1>4. PICK new \in [Services -> Arrays] :
        \A u \in Services : new[u] = IF u = s THEN t ELSE at[u]
  <2>1. [at EXCEPT ![s] = t] \in [Services -> Arrays]
    BY <1>1
  <2>2. \A u \in Services : [at EXCEPT ![s] = t][u] = IF u = s THEN t ELSE at[u]
    OBVIOUS
  <2> QED
    BY <2>1, <2>2
<1>5. \A u \in registered' : new[u] \in {table', primeindex'}
  <2>1. registered \subseteq Services
    BY DEF TypeOK
  <2> QED
    BY <1>1, <1>3, <1>4, <2>1 DEF Filed
<1>6. ASSUME NEW q \in Arrays, NEW j \in Buckets(q)
      PROVE  /\ Distinct(array'[q][j])
             /\ \A u \in Services : In(u, array'[q][j]) <=> Holds(new, u, q, j)'
  <2>1. /\ Distinct(array[q][j]) /\ array[q][j] \in Seq(Services)
        /\ \A u \in Services : In(u, array[q][j]) <=> Holds(at, u, q, j)
    BY BucketTypes DEF Filed
  <2>2. ~ In(s, array[q][j])
    BY <1>1, <2>1 DEF Holds
  <2>3. \A u \in Services : Holds(new, u, q, j)' <=>
          Holds(at, u, q, j) \/ (u = s /\ q = t /\ j = n)
    BY <1>1, <1>3, <1>4 DEF Holds
  <2>4. CASE q = t /\ j = n
    <3>1. array'[q][j] = <<s>> \o array[q][j]
      BY <1>2, <2>4
    <3>2. Distinct(<<s>> \o array[q][j])
          /\ \A u : In(u, <<s>> \o array[q][j]) <=> In(u, array[q][j]) \/ u = s
      BY <1>1, <2>1, <2>2, ChainFront
    <3> QED
      BY <2>1, <2>3, <2>4, <3>1, <3>2
  <2>5. CASE ~ (q = t /\ j = n)
    <3>1. array'[q][j] = array[q][j]
      BY <1>2, <2>5
    <3> QED
      BY <2>1, <2>3, <2>5, <3>1
  <2> QED
    BY <2>4, <2>5
<1> QED
  BY <1>4, <1>5, <1>6 DEF Filed

-----------------------------------------------------------------------------
(* Shape: the types, the phases of an expansion and the count.             *)

ArraysTyped ==
  DOMAIN array = Arrays /\ \A p \in Arrays : array[p] \in [Buckets(p) -> Seq(Services)]

Searches ==
  [pc : {"idle", "table", "bucket", "walk"}, key : Keys \cup {NULL},
   index : Nat, array : 0 .. Len(Sizes), entry : Services \cup {NULL, Undefined},
   had : SUBSET Services, raced : BOOLEAN]

(* TypeOK without the arrays and the searches.                             *)
RestTyped ==
  /\ table \in Arrays /\ primeindex \in Arrays /\ tablelength \in Range(Sizes)
  /\ entrycount \in 0 .. Cardinality(Services)
  /\ registrar \in [pc : {"idle", "expand", "move", "swap", "resize", "link"},
                    service : Services \cup {NULL}]
  /\ registered \subseteq tried /\ tried \subseteq Services /\ crashed \in BOOLEAN

LEMMA TypeParts == TypeOK <=> ArraysTyped /\ RestTyped /\ lookup \in [Workers -> Searches]
BY DEF TypeOK, ArraysTyped, RestTyped, Searches, Buckets

(* The same facts in the next state.                                       *)
LEMMA NextTypeParts ==
  ASSUME ArraysTyped', RestTyped', (lookup \in [Workers -> Searches])'
  PROVE  TypeOK'
BY DEF TypeOK, ArraysTyped, RestTyped, Searches, Buckets

LEMMA Counts ==
  ASSUME TypeOK
  PROVE  /\ IsFiniteSet(Services) /\ IsFiniteSet(registered)
         /\ Cardinality(Services) \in Nat /\ Cardinality(registered) \in Nat
         /\ Cardinality(registered) <= Cardinality(Services)
         /\ \A s \in Services \ registered :
              /\ Cardinality(registered \cup {s}) = Cardinality(registered) + 1
              /\ Cardinality(registered) + 1 <= Cardinality(Services)
<1>1. IsFiniteSet(Services) /\ Cardinality(Services) \in Nat
  BY RegistryAssumption, FS_CardinalityType
<1>2. registered \subseteq Services
  BY DEF TypeOK
<1>3. IsFiniteSet(registered) /\ Cardinality(registered) \in Nat
      /\ Cardinality(registered) <= Cardinality(Services)
  BY <1>1, <1>2, FS_Subset, FS_CardinalityType
<1>4. ASSUME NEW s \in Services \ registered
      PROVE  /\ Cardinality(registered \cup {s}) = Cardinality(registered) + 1
             /\ Cardinality(registered) + 1 <= Cardinality(Services)
  <2>1. Cardinality(registered \cup {s}) = Cardinality(registered) + 1
    BY <1>3, FS_AddElement
  <2>2. registered \cup {s} \subseteq Services
    BY <1>2
  <2>3. Cardinality(registered \cup {s}) <= Cardinality(Services)
    BY <1>1, <2>2, FS_Subset
  <2> QED
    BY <2>1, <2>3
<1> QED
  BY <1>1, <1>3, <1>4

LEMMA MoveTyped ==
  ASSUME TypeOK, Phases, MoveEntry
  PROVE  ArraysTyped'
<1>1. PICK i \in Buckets(table), s \in Services :
        /\ table \in Arrays /\ primeindex \in Arrays /\ table # primeindex
        /\ array[table][i] \in Seq(Services) /\ array[table][i] # <<>>
        /\ s = Head(array[table][i])
        /\ DOMAIN array' = Arrays
        /\ \A q \in Arrays : DOMAIN array'[q] = Buckets(q)
        /\ \A q \in Arrays : \A j \in Buckets(q) : array'[q][j] =
                IF q = table /\ j = i THEN Tail(array[q][j])
                ELSE IF q = primeindex /\ j = IndexFor(Sizes[primeindex], KeyOf[s])
                     THEN <<s>> \o array[q][j]
                ELSE array[q][j]
  BY MoveBuckets
<1>2. \A q \in Arrays : \A j \in Buckets(q) : array'[q][j] \in Seq(Services)
  <2> SUFFICES ASSUME NEW q \in Arrays, NEW j \in Buckets(q)
               PROVE  array'[q][j] \in Seq(Services)
    OBVIOUS
  <2>1. PICK c \in Seq(Services) : c = array[q][j]
    BY BucketTypes
  <2>2. <<s>> \o c \in Seq(Services) /\ (c # <<>> => Tail(c) \in Seq(Services))
    OBVIOUS
  <2> QED
    BY <1>1, <2>1, <2>2
<1>3. \A q \in Arrays : array'[q] = [j \in Buckets(q) |-> array'[q][j]]
  <2>1. \A q \in Arrays : array[q] = [j \in Buckets(q) |-> array[q][j]]
    BY DEF TypeOK, Buckets
  <2>2. PICK t, k, p, n, b :
          array' = [array EXCEPT ![t][k] = Tail(@), ![p][n] = b \o @]
    <3>1. PICK l \in Filled(table) : LET u == Head(array[table][l]) IN
            array' = [array EXCEPT ![table][l] = Tail(@),
                                   ![primeindex][NewIndex(u, l)] = <<u>> \o @]
      BY DEF MoveEntry
    <3>2. PICK t, k, p, u : t = table /\ k = l /\ p = primeindex /\ u = Head(array[t][k])
      OBVIOUS
    <3>3. PICK n, b : n = NewIndex(u, k) /\ b = <<u>>
      OBVIOUS
    <3>4. array' = [array EXCEPT ![t][k] = Tail(@), ![p][n] = b \o @]
      BY <3>1, <3>2, <3>3
    <3> QED
      BY <3>4
  <2>3. \A q \in DOMAIN array : \/ array'[q] = array[q]
            \/ array'[q] = [array[q] EXCEPT ![k] = Tail(@)]
            \/ array'[q] = [array[q] EXCEPT ![n] = b \o @]
            \/ array'[q] = [[array[q] EXCEPT ![k] = Tail(@)] EXCEPT ![n] = b \o @]
    BY <2>2
  <2> QED
    BY <1>1, <2>1, <2>3 DEF TypeOK
<1> QED
  BY <1>1, <1>2, <1>3 DEF ArraysTyped

LEMMA LinkTyped ==
  ASSUME TypeOK, Phases, Link
  PROVE  ArraysTyped'
<1>1. \A q \in Arrays : \A j \in Buckets(q) : array'[q][j] \in Seq(Services)
  <2> SUFFICES ASSUME NEW q \in Arrays, NEW j \in Buckets(q)
               PROVE  array'[q][j] \in Seq(Services)
    OBVIOUS
  <2>1. PICK c \in Seq(Services) : c = array[q][j]
    BY BucketTypes
  <2>2. PICK s \in Services : s = registrar.service
    BY LinkBuckets
  <2>3. <<s>> \o c \in Seq(Services)
    OBVIOUS
  <2> QED
    BY <2>1, <2>2, <2>3, LinkBuckets
<1>2. \A q \in Arrays : array'[q] = [j \in Buckets(q) |-> array'[q][j]]
  <2>1. \A q \in Arrays : array[q] = [j \in Buckets(q) |-> array[q][j]]
    BY DEF TypeOK, Buckets
  <2>2. PICK t, k, d : array' = [array EXCEPT ![t][k] = d]
    BY DEF Link
  <2>3. \A q \in DOMAIN array : \/ array'[q] = array[q]
                                \/ array'[q] = [array[q] EXCEPT ![k] = d]
    BY <2>2
  <2> QED
    BY <2>1, <2>3, LinkBuckets DEF TypeOK
<1> QED
  BY <1>1, <1>2, LinkBuckets DEF ArraysTyped

(* The steps of the registering thread.                                    *)

Rest == RestTyped /\ Phases /\ Counted

LEMMA RegServiceRest ==
  ASSUME Shape, NEW s \in Services, RegService(s)
  PROVE  Rest'
<1>0. RestTyped /\ Phases /\ Counted /\ registrar.pc = "idle" /\ s \notin tried
  BY TypeParts DEF Shape, RegService
<1> USE DEF RegService, Shape
<1>1. RestTyped /\ table = primeindex /\ tablelength = Sizes[table]
      /\ entrycount = Cardinality(registered) /\ s \in Services \ registered
      /\ tried' = tried \cup {s}
  BY <1>0, Counts DEF RestTyped, Phases, Counted
<1>2. PICK n \in Nat, m \in Nat : /\ n = Cardinality(registered) /\ m = Cardinality(Services)
                                  /\ n + 1 <= m /\ entrycount' = n + 1
  BY <1>1, Counts
<1>3. entrycount' \in 0 .. Cardinality(Services)
  BY <1>2
<1>4. registrar'.service = s /\ registrar'.pc \in {"expand", "link"}
      /\ registrar' \in [pc : {"idle", "expand", "move", "swap", "resize", "link"},
                         service : Services \cup {NULL}]
  OBVIOUS
<1>5. UNCHANGED <<table, primeindex, tablelength, registered, crashed>>
  OBVIOUS
<1>6. RestTyped'
  BY <1>1, <1>3, <1>4, <1>5 DEF RestTyped
<1>7. Phases'
  BY <1>1, <1>4, <1>5 DEF Phases
<1>8. Counted'
  BY <1>2, <1>4, <1>5 DEF Counted
<1> QED
  BY <1>6, <1>7, <1>8 DEF Rest

LEMMA ExpansionRest ==
  ASSUME Shape, Expand \/ ExpandFails \/ ExpandInPlace
  PROVE  Rest'
<1>1. RestTyped /\ Phases /\ Counted
  BY TypeParts DEF Shape
<1>2. CASE Expand
  <2> USE <1>2 DEF Expand, Goto
  <2>1. /\ registrar'.pc = "move" /\ registrar'.service = registrar.service
        /\ registrar' \in [pc : {"idle", "expand", "move", "swap", "resize", "link"},
                           service : Services \cup {NULL}]
    BY <1>1 DEF RestTyped
  <2>2. primeindex' = table + 1 /\ primeindex' \in Arrays /\ table = primeindex
    <3>1. primeindex \in Arrays /\ primeindex < Len(Sizes) /\ table = primeindex
      BY <1>1 DEF RestTyped, Phases, CanGrow
    <3>2. primeindex \in Nat /\ primeindex >= 1 /\ Len(Sizes) \in Nat
      BY <3>1, SizesArePositive
    <3>3. primeindex + 1 \in 1 .. Len(Sizes)
      BY <3>1, <3>2
    <3> QED
      BY <3>1, <3>3 DEF Arrays
  <2>3. UNCHANGED <<table, tablelength, entrycount, tried, registered, crashed>>
    OBVIOUS
  <2>4. RestTyped'
    BY <1>1, <2>1, <2>2, <2>3 DEF RestTyped
  <2>5. Phases'
    BY <1>1, <2>1, <2>2, <2>3 DEF Phases
  <2>6. Counted'
    BY <1>1, <2>1, <2>3 DEF Counted
  <2> QED
    BY <2>4, <2>5, <2>6 DEF Rest
<1>3. CASE ExpandFails
  <2> USE <1>3 DEF ExpandFails, Goto, tableVars
  <2>1. /\ registrar'.pc = "link" /\ registrar'.service = registrar.service
        /\ registrar' \in [pc : {"idle", "expand", "move", "swap", "resize", "link"},
                           service : Services \cup {NULL}]
    BY <1>1 DEF RestTyped
  <2>2. UNCHANGED <<table, primeindex, tablelength, entrycount, tried, registered, crashed>>
    OBVIOUS
  <2>3. RestTyped'
    BY <1>1, <2>1, <2>2 DEF RestTyped
  <2>4. Phases'
    BY <1>1, <2>1, <2>2 DEF Phases
  <2>5. Counted'
    BY <1>1, <2>1, <2>2 DEF Counted
  <2> QED
    BY <2>3, <2>4, <2>5 DEF Rest
<1>4. CASE ExpandInPlace
  <2>1. UNCHANGED <<array, table, primeindex, tablelength, entrycount, registrar, tried, registered>>
        /\ crashed' \in BOOLEAN
    BY <1>4 DEF ExpandInPlace, tableVars
  <2> QED
    BY <1>1, <2>1 DEF Rest, RestTyped, Phases, Counted, Filled
<1> QED
  BY <1>2, <1>3, <1>4

LEMMA TransferRest ==
  ASSUME Shape, MoveEntry \/ FreeTable \/ SwapTable \/ Resize
  PROVE  Rest'
<1>1. RestTyped /\ Phases /\ Counted
  BY TypeParts DEF Shape
<1>2. CASE MoveEntry
  <2>1. UNCHANGED <<table, primeindex, tablelength, entrycount, registrar, tried,
                    registered, crashed>> /\ registrar.pc = "move"
    BY <1>2 DEF MoveEntry
  <2> QED
    BY <1>1, <2>1 DEF Rest, RestTyped, Phases, Counted
<1>3. CASE FreeTable
  <2> USE <1>3 DEF FreeTable, Goto, tableVars
  <2>1. /\ registrar'.pc = "swap" /\ registrar'.service = registrar.service
        /\ registrar' \in [pc : {"idle", "expand", "move", "swap", "resize", "link"},
                           service : Services \cup {NULL}]
    BY <1>1 DEF RestTyped
  <2>2. UNCHANGED <<table, primeindex, tablelength, entrycount, tried, registered, crashed>>
        /\ Filled(table)' = {}
    BY DEF Filled
  <2>3. RestTyped'
    BY <1>1, <2>1, <2>2 DEF RestTyped
  <2>4. Phases'
    BY <1>1, <2>1, <2>2 DEF Phases
  <2>5. Counted'
    BY <1>1, <2>1, <2>2 DEF Counted
  <2> QED
    BY <2>3, <2>4, <2>5 DEF Rest
<1>4. CASE SwapTable
  <2> USE <1>4 DEF SwapTable, Goto
  <2>1. /\ registrar'.pc = "resize" /\ registrar'.service = registrar.service
        /\ registrar' \in [pc : {"idle", "expand", "move", "swap", "resize", "link"},
                           service : Services \cup {NULL}]
    BY <1>1 DEF RestTyped
  <2>2. UNCHANGED <<primeindex, tablelength, entrycount, tried, registered, crashed>>
        /\ table' = primeindex
    OBVIOUS
  <2>3. table' > 1 /\ tablelength = Sizes[table' - 1] /\ table' \in Arrays
    <3>1. table \in Arrays /\ primeindex \in Arrays /\ primeindex = table + 1
          /\ tablelength = Sizes[table]
      BY <1>1 DEF RestTyped, Phases
    <3>2. table \in Nat /\ table >= 1
      BY <3>1, SizesArePositive
    <3>3. table + 1 > 1 /\ (table + 1) - 1 = table
      BY <3>2
    <3> QED
      BY <2>2, <3>1, <3>3
  <2>4. RestTyped'
    BY <1>1, <2>1, <2>2, <2>3 DEF RestTyped
  <2>5. Phases'
    BY <1>1, <2>1, <2>2, <2>3 DEF Phases
  <2>6. Counted'
    BY <1>1, <2>1, <2>2 DEF Counted
  <2> QED
    BY <2>4, <2>5, <2>6 DEF Rest
<1>5. CASE Resize
  <2> USE <1>5 DEF Resize, Goto
  <2>1. /\ registrar'.pc = "link" /\ registrar'.service = registrar.service
        /\ registrar' \in [pc : {"idle", "expand", "move", "swap", "resize", "link"},
                           service : Services \cup {NULL}]
    BY <1>1 DEF RestTyped
  <2>2. UNCHANGED <<table, primeindex, entrycount, tried, registered, crashed>>
        /\ tablelength' = Sizes[primeindex] /\ tablelength' \in Range(Sizes)
    BY <1>1, SizesArePositive DEF RestTyped
  <2>3. RestTyped'
    BY <1>1, <2>1, <2>2 DEF RestTyped
  <2>4. Phases'
    BY <1>1, <2>1, <2>2 DEF Phases
  <2>5. Counted'
    BY <1>1, <2>1, <2>2 DEF Counted
  <2> QED
    BY <2>3, <2>4, <2>5 DEF Rest
<1> QED
  BY <1>2, <1>3, <1>4, <1>5

LEMMA LinkRest ==
  ASSUME Shape, Link \/ LinkFails
  PROVE  Rest'
<1>1. RestTyped /\ Phases /\ Counted
  BY TypeParts DEF Shape
<1>2. /\ registrar.pc = "link" /\ registrar'.pc = "idle"
      /\ registrar' \in [pc : {"idle", "expand", "move", "swap", "resize", "link"},
                         service : Services \cup {NULL}]
  BY <1>1 DEF Link, LinkFails, Goto, RestTyped
<1>3. /\ UNCHANGED <<table, primeindex, tablelength, tried, crashed>>
      /\ table = primeindex /\ tablelength = Sizes[table]
  BY <1>1, <1>2 DEF Link, LinkFails, Phases
<1>4. PICK n \in Nat, m \in Nat :
        /\ n = Cardinality(registered) /\ m = Cardinality(Services)
        /\ n <= m /\ entrycount = n + 1 /\ entrycount \in 0 .. m
  BY <1>1, <1>2, Counts DEF Counted, RestTyped, Shape
<1>5. CASE Link
  <2>1. PICK s \in Services : s \in tried \ registered /\ registered' = registered \cup {s}
    BY <1>1, <1>2, <1>5 DEF Link, Phases, RestTyped
  <2>2. Cardinality(registered \cup {s}) = n + 1
    BY <1>4, <2>1, Counts DEF Shape
  <2>3. entrycount' = n + 1
    BY <1>4, <1>5 DEF Link
  <2>4. RestTyped'
    BY <1>1, <1>2, <1>3, <1>4, <2>1, <2>3 DEF RestTyped
  <2>5. Phases'
    BY <1>2, <1>3 DEF Phases
  <2>6. Counted'
    BY <1>2, <2>1, <2>2, <2>3 DEF Counted
  <2> QED
    BY <2>4, <2>5, <2>6 DEF Rest
<1>6. CASE LinkFails
  <2>1. entrycount' = n /\ registered' = registered
    BY <1>4, <1>6 DEF LinkFails
  <2>2. entrycount' \in 0 .. m
    BY <1>4, <2>1
  <2>3. RestTyped'
    BY <1>1, <1>2, <1>3, <1>4, <2>1, <2>2 DEF RestTyped
  <2>4. Phases'
    BY <1>2, <1>3 DEF Phases
  <2>5. Counted'
    BY <1>2, <1>4, <2>1 DEF Counted
  <2> QED
    BY <2>3, <2>4, <2>5 DEF Rest
<1> QED
  BY <1>5, <1>6

-----------------------------------------------------------------------------
(* The searches.                                                           *)

(* LookupFollows of a search, which a step of the registrar leaves alone.  *)
Follows(l) ==
  LET chain == array[table][l.index]
  IN /\ l.pc = "table" => l.index < Sizes[table]
     /\ l.pc = "bucket" => l.array \in 1 .. table /\ l.index < Sizes[l.array]
     /\ l.pc # "idle" =>
          l.key \in Keys /\ l.had \subseteq {s \in registered : KeyOf[s] = l.key}
     /\ l.pc # "idle" /\ ~ l.raced =>
          /\ ~ Expanding /\ l.index = IndexFor(Sizes[table], l.key)
          /\ l.pc = "bucket" => l.array = table
          /\ l.pc = "walk" =>
               \/ l.entry = NULL /\ l.had = {}
               \/ \E n \in DOMAIN chain :
                    /\ chain[n] = l.entry
                    /\ \A s \in l.had : \E m \in n .. Len(chain) : chain[m] = s

LEMMA FollowsIs == \A w \in Workers : LookupFollows(w) <=> Follows(lookup[w])
BY DEF LookupFollows, Follows

LEMMA FollowsIsNext ==
  ASSUME NEW w \in Workers, NEW l, l = lookup'[w], Follows(l)'
  PROVE  LookupFollows(w)'
BY DEF LookupFollows, Follows

(* What a registrar step may do to a search without leading it astray.     *)
LEMMA QuietStep ==
  ASSUME NEW l, Follows(l), UNCHANGED <<array, table, registered>>, Expanding' => Expanding
  PROVE  Follows(l)'
BY DEF Follows

LEMMA BoundsStay ==
  ASSUME NEW l \in Searches, Follows(l), l.pc = "idle" \/ l.raced,
         NEW t \in Arrays, NEW u \in Arrays, t = table, u = table', t <= u,
         registered \subseteq registered'
  PROVE  Follows(l)'
<1>1. l.index \in Nat /\ Sizes[t] <= Sizes[u] /\ Sizes[t] \in Nat /\ Sizes[u] \in Nat
  BY SizesGrow, SizesArePositive DEF Searches
<1>2. l.pc = "table" => l.index < Sizes[u]
  BY <1>1 DEF Follows
<1>3. l.pc = "bucket" => l.array \in 1 .. u /\ l.index < Sizes[l.array]
  <2>1. t \in Nat /\ u \in Nat
    BY SizesArePositive
  <2>2. 1 .. t \subseteq 1 .. u
    BY <2>1
  <2> QED
    BY <2>2 DEF Follows
<1> QED
  BY <1>2, <1>3 DEF Follows

LEMMA LinkFollows ==
  ASSUME NEW l \in Searches, Follows(l), TypeOK, Phases, Link
  PROVE  Follows(l)'
<1>1. table' = table /\ registered \subseteq registered' /\ ~ Expanding'
  BY DEF Link, Expanding, Goto
<1>2. PICK t : t = table /\ t \in Arrays
  BY DEF TypeOK
<1>3. CASE l.pc = "idle" \/ l.raced
  BY <1>1, <1>3 DEF Follows
<1>4. CASE l.pc \in {"table", "bucket"} /\ ~ l.raced
  BY <1>1, <1>4 DEF Follows
<1>5. CASE l.pc = "walk" /\ ~ l.raced
  <2>1. l.key \in Keys /\ l.index = IndexFor(Sizes[t], l.key)
    BY <1>2, <1>5 DEF Follows
  <2>2. l.index \in Buckets(t)
    BY <1>2, <2>1, HashedInto
  <2>3. PICK c \in Seq(Services), k \in Nat : c = array[t][l.index] /\ k = Len(c)
    BY <1>2, <2>2, BucketTypes
  <2>4. PICK d : d = array'[t][l.index]
    OBVIOUS
  <2>5. CASE l.entry = NULL /\ l.had = {}
    BY <1>1, <1>5, <2>5 DEF Follows
  <2>6. CASE ~ (l.entry = NULL /\ l.had = {})
    <3>1. PICK n \in 1 .. k : c[n] = l.entry
                              /\ \A s \in l.had : \E m \in n .. k : c[m] = s
      BY <1>2, <1>5, <2>3, <2>6 DEF Follows
    <3>2. \E b \in DOMAIN d : /\ d[b] = l.entry
             /\ \A s \in l.had : \E m \in b .. Len(d) : d[m] = s
      <4>1. PICK s \in Services : s = registrar.service
        BY LinkBuckets
      <4>2. d = c \/ d = <<s>> \o c
        BY <1>2, <2>2, <2>3, <2>4, <4>1, LinkBuckets
      <4>3. CASE d = c
        BY <2>3, <3>1, <4>3
      <4>4. CASE d = <<s>> \o c
        <5>1. d \in Seq(Services) /\ Len(d) = k + 1 /\ \A j \in 1 .. k : d[j + 1] = c[j]
          BY <2>3, <4>4, FrontShifts
        <5>2. n + 1 \in DOMAIN d /\ d[n + 1] = l.entry
          BY <3>1, <5>1
        <5>3. ASSUME NEW x \in l.had PROVE \E m \in (n + 1) .. Len(d) : d[m] = x
          <6>1. PICK m \in n .. k : c[m] = x
            BY <3>1
          <6>2. m + 1 \in (n + 1) .. Len(d) /\ d[m + 1] = x
            BY <5>1, <6>1
          <6> QED
            BY <6>2
        <5> QED
          BY <5>2, <5>3
      <4> QED
        BY <4>2, <4>3, <4>4
    <3> QED
      BY <1>1, <1>2, <1>5, <2>1, <2>4, <3>2 DEF Follows
  <2> QED
    BY <2>5, <2>6
<1>6. l.pc \in {"idle", "table", "bucket", "walk"} /\ l.raced \in BOOLEAN
  BY DEF Searches
<1> QED
  BY <1>3, <1>4, <1>5, <1>6

(* x is linked behind e.                                                   *)
After(e, x) ==
  \E p \in Arrays : \E i \in Buckets(p) : \E j \in 1 .. (Len(array[p][i]) - 1) :
    array[p][i][j] = e /\ array[p][i][j + 1] = x

LEMMA NextOfIs ==
  ASSUME TypeOK, NEW e
  PROVE  \/ NextOf(e) = NULL /\ \A x : ~ After(e, x)
         \/ After(e, NextOf(e))
<1> DEFINE link(p, i, j) == <<array[p][i][j], array[p][i][j + 1]>>
           bucketPairs(p, i) == {link(p, i, j) : j \in 1 .. (Len(array[p][i]) - 1)}
           arrayPairs(p) == UNION {bucketPairs(p, i) : i \in DOMAIN array[p]}
           pairs == UNION {arrayPairs(p) : p \in Arrays}
           after == {q[2] : q \in {r \in pairs : r[1] = e}}
<1>1. NextOf(e) = IF after = {} THEN NULL ELSE CHOOSE x \in after : TRUE
  BY DEF NextOf
<1>2. \A p, i, j : link(p, i, j)[1] = array[p][i][j] /\ link(p, i, j)[2] = array[p][i][j + 1]
  OBVIOUS
<1>3. \A q : q \in pairs <=> \E p \in Arrays : \E i \in Buckets(p) :
         \E j \in 1 .. (Len(array[p][i]) - 1) : q = link(p, i, j)
  <2> HIDE DEF link
  <2>1. \A p, i, q : q \in bucketPairs(p, i) <=>
          \E j \in 1 .. (Len(array[p][i]) - 1) : q = link(p, i, j)
    OBVIOUS
  <2> HIDE DEF bucketPairs
  <2>2. \A p, q : q \in arrayPairs(p) <=> \E i \in DOMAIN array[p] : q \in bucketPairs(p, i)
    OBVIOUS
  <2>3. \A p \in Arrays : \A q : q \in arrayPairs(p) <=> \E i \in Buckets(p) : q \in bucketPairs(p, i)
    BY <2>2, BucketTypes
  <2> HIDE DEF arrayPairs
  <2>4. \A q : q \in pairs <=> \E p \in Arrays : q \in arrayPairs(p)
    OBVIOUS
  <2> QED
    BY <2>1, <2>3, <2>4
<1> HIDE DEF link, pairs
<1>4. \A x : x \in after <=> After(e, x)
  <2>1. \A x : x \in after <=> \E q \in pairs : q[1] = e /\ x = q[2]
    OBVIOUS
  <2> HIDE DEF after
  <2>2. ASSUME NEW x \in after PROVE After(e, x)
    <3>1. PICK q \in pairs : q[1] = e /\ x = q[2]
      BY <2>1
    <3>2. PICK p \in Arrays : \E i \in Buckets(p) :
            \E j \in 1 .. (Len(array[p][i]) - 1) : q = link(p, i, j)
      BY <1>3
    <3>3. PICK i \in Buckets(p) : \E j \in 1 .. (Len(array[p][i]) - 1) : q = link(p, i, j)
      BY <3>2
    <3>4. PICK j \in 1 .. (Len(array[p][i]) - 1) : q = link(p, i, j)
      BY <3>3
    <3>5. array[p][i][j] = e /\ array[p][i][j + 1] = x
      BY <1>2, <3>1, <3>4
    <3> QED
      BY <3>5 DEF After
  <2>3. ASSUME NEW x, After(e, x) PROVE x \in after
    <3>1. PICK p \in Arrays : \E i \in Buckets(p) : \E j \in 1 .. (Len(array[p][i]) - 1) :
            array[p][i][j] = e /\ array[p][i][j + 1] = x
      BY <2>3 DEF After
    <3>2. PICK i \in Buckets(p) : \E j \in 1 .. (Len(array[p][i]) - 1) :
            array[p][i][j] = e /\ array[p][i][j + 1] = x
      BY <3>1
    <3>3. PICK j \in 1 .. (Len(array[p][i]) - 1) :
            array[p][i][j] = e /\ array[p][i][j + 1] = x
      BY <3>2
    <3>4. PICK q : q = link(p, i, j)
      OBVIOUS
    <3>5. q \in pairs
      BY <1>3, <3>4
    <3>6. q[1] = e /\ q[2] = x
      BY <1>2, <3>3, <3>4
    <3> QED
      BY <2>1, <3>5, <3>6
  <2> QED
    BY <2>2, <2>3
<1> HIDE DEF after
<1>5. CASE after = {}
  BY <1>1, <1>4, <1>5
<1>6. CASE after # {}
  <2>1. NextOf(e) \in after
    BY <1>1, <1>6
  <2> QED
    BY <1>4, <2>1
<1> QED
  BY <1>5, <1>6

LEMMA NextOfTyped ==
  ASSUME TypeOK, NEW e
  PROVE  NextOf(e) \in Services \cup {NULL}
<1>1. CASE After(e, NextOf(e))
  <2>0. PICK p \in Arrays : \E i \in Buckets(p) : \E j \in 1 .. (Len(array[p][i]) - 1) :
          array[p][i][j + 1] = NextOf(e)
    BY <1>1 DEF After
  <2>1. PICK i \in Buckets(p) : \E j \in 1 .. (Len(array[p][i]) - 1) :
          array[p][i][j + 1] = NextOf(e)
    BY <2>0
  <2>2. PICK c \in Seq(Services) : c = array[p][i]
    BY BucketTypes
  <2>3. PICK j \in 1 .. (Len(c) - 1) : c[j + 1] = NextOf(e)
    BY <2>1, <2>2
  <2>4. j + 1 \in 1 .. Len(c)
    OBVIOUS
  <2> QED
    BY <2>3, <2>4
<1> QED
  BY <1>1, NextOfIs

(* In a table that is not being expanded, a service has one successor.     *)
LEMMA NextOfInChain ==
  ASSUME TypeOK, NEW at, Filed(at), NEW p \in Arrays, NEW i \in Buckets(p),
         NEW c, c = array[p][i], NEW n \in 1 .. Len(c)
  PROVE  /\ n < Len(c) => NextOf(c[n]) = c[n + 1]
         /\ n = Len(c) => NextOf(c[n]) = NULL
<1>1. c \in Seq(Services) /\ Len(c) \in Nat /\ c[n] \in Services
  BY BucketTypes
<1>2. ASSUME NEW q \in Arrays, NEW k \in Buckets(q), NEW j \in 1 .. (Len(array[q][k]) - 1),
             array[q][k][j] = c[n]
      PROVE  array[q][k] = c /\ j = n
  <2>1. j \in 1 .. Len(array[q][k])
    <3>1. Len(array[q][k]) \in Nat
      BY BucketTypes
    <3> QED
      BY <3>1
  <2>2. In(c[n], array[q][k]) /\ In(c[n], array[p][i])
    BY <1>2, <2>1 DEF In
  <2>3. q = p /\ k = i
    BY <1>1, <2>2 DEF Filed, Holds
  <2>4. Distinct(c)
    BY DEF Filed
  <2> QED
    BY <1>2, <2>1, <2>3, <2>4 DEF Distinct
<1>3. ASSUME NEW x, After(c[n], x) PROVE n < Len(c) /\ x = c[n + 1]
  <2>0. PICK q \in Arrays : \E k \in Buckets(q) : \E j \in 1 .. (Len(array[q][k]) - 1) :
          array[q][k][j] = c[n] /\ array[q][k][j + 1] = x
    BY <1>3 DEF After
  <2>1. PICK k \in Buckets(q) : \E j \in 1 .. (Len(array[q][k]) - 1) :
          array[q][k][j] = c[n] /\ array[q][k][j + 1] = x
    BY <2>0
  <2>2. PICK j \in 1 .. (Len(array[q][k]) - 1) :
          array[q][k][j] = c[n] /\ array[q][k][j + 1] = x
    BY <2>1
  <2>3. array[q][k] = c /\ j = n
    BY <1>2, <2>2
  <2> QED
    BY <1>1, <2>2, <2>3
<1>4. ASSUME n < Len(c) PROVE After(c[n], c[n + 1])
  <2>1. n \in 1 .. (Len(c) - 1)
    BY <1>1, <1>4
  <2> QED
    BY <2>1 DEF After
<1> QED
  BY <1>1, <1>3, <1>4, NextOfIs

(* The steps of a search: each gives the search of its worker a new value. *)
Advances(w, new) ==
  /\ new \in Searches /\ Follows(new)
  /\ lookup' = [lookup EXCEPT ![w] = new]
  /\ UNCHANGED <<tableVars, registrar, tried, registered, crashed>>

LEMMA SearchTyped ==
  ASSUME TypeOK, NEW w \in Workers
  PROVE  lookup[w] \in Searches
BY DEF TypeOK, Searches

LEMMA SearchAdvances ==
  ASSUME Shape, NEW w \in Workers, NEW k \in Keys, Search(w, k)
  PROVE  \E new : Advances(w, new)
<1> DEFINE new == [NoLookup EXCEPT !.pc = "table", !.key = k,
                        !.index = IndexFor(tablelength, k), !.raced = Expanding,
                        !.had = {s \in registered : KeyOf[s] = k}]
<1>1. /\ new.pc = "table" /\ new.key = k /\ new.index = IndexFor(tablelength, k)
      /\ new.raced = Expanding /\ new.had = {s \in registered : KeyOf[s] = k}
  BY DEF NoLookup
<1>2. RestTyped /\ Phases
  BY TypeParts DEF Shape
<1>3. PICK p, t : /\ t = table /\ p \in Arrays /\ t \in Arrays /\ p <= t
                  /\ tablelength = Sizes[p] /\ (~ Expanding => p = t)
  <2>1. table \in Arrays /\ table \in Nat /\ Len(Sizes) \in Nat /\ table <= Len(Sizes)
    BY <1>2, SizesArePositive DEF RestTyped
  <2>2. CASE tablelength = Sizes[table]
    BY <2>1, <2>2
  <2>3. CASE table > 1 /\ tablelength = Sizes[table - 1] /\ Expanding
    <3>1. table - 1 \in Arrays /\ table - 1 <= table
      BY <2>1, <2>3 DEF Arrays
    <3> QED
      BY <2>1, <2>3, <3>1
  <2> QED
    BY <1>2, <2>2, <2>3 DEF RestTyped, Phases, Expanding
<1>4. IndexFor(tablelength, k) \in Nat /\ IndexFor(tablelength, k) < Sizes[t]
  <2>1. PICK x \in Nat : x = IndexFor(Sizes[p], k) /\ x \in 0 .. (Sizes[p] - 1)
    BY <1>3, HashedInto DEF Buckets
  <2>2. Sizes[p] <= Sizes[t] /\ Sizes[p] \in Nat /\ Sizes[t] \in Nat
    BY <1>3, SizesGrow, SizesArePositive
  <2> QED
    BY <1>3, <2>1, <2>2
<1>5. registered \subseteq Services
  BY <1>2 DEF RestTyped
<1>6. new \in Searches
  <2>1. Expanding \in BOOLEAN
    BY DEF Expanding
  <2>2. 0 \in 0 .. Len(Sizes)
    BY <1>3, SizesArePositive
  <2> QED
    BY <1>4, <1>5, <2>1, <2>2 DEF Searches, NoLookup
<1>7. Advances(w, new)
  <2> HIDE DEF new
  <2>1. Follows(new)
    BY <1>1, <1>3, <1>4 DEF Follows
  <2>2. lookup' = [lookup EXCEPT ![w] = new]
    BY DEF Search, new
  <2> QED
    BY <1>6, <2>1, <2>2 DEF Advances, Search
<1> QED
  BY <1>7

LEMMA LoadTableAdvances ==
  ASSUME Shape, NEW w \in Workers, LookupFollows(w), LoadTable(w)
  PROVE  \E new : Advances(w, new)
<1>1. PICK l \in Searches : l = lookup[w] /\ Follows(l) /\ l.pc = "table"
  BY SearchTyped, FollowsIs DEF Shape, LoadTable
<1>2. PICK t : t = table /\ t \in Arrays /\ t \in Nat /\ t >= 1 /\ t <= Len(Sizes) /\ Len(Sizes) \in Nat
  BY SizesArePositive DEF Shape, TypeOK
<1>3. PICK new : new = [[l EXCEPT !.array = t] EXCEPT !.pc = "bucket"]
  OBVIOUS
<1>4. new \in Searches
  <2>1. t \in 0 .. Len(Sizes)
    BY <1>2
  <2> QED
    BY <1>3, <2>1 DEF Searches
<1>5. new.pc = "bucket" /\ new.array = t /\ new.key = l.key /\ new.index = l.index
      /\ new.had = l.had /\ new.raced = l.raced
  BY <1>3 DEF Searches
<1>6. Follows(new)
  BY <1>1, <1>2, <1>5 DEF Follows
<1>7. lookup' = [lookup EXCEPT ![w] = new]
  BY <1>1, <1>2, <1>3 DEF LoadTable, Shape, TypeOK
<1> QED
  BY <1>4, <1>6, <1>7 DEF Advances, LoadTable

LEMMA LoadBucketAdvances ==
  ASSUME Shape, NEW at \in [Services -> Arrays], Filed(at),
         NEW w \in Workers, LookupFollows(w), LoadBucket(w)
  PROVE  \E new : Advances(w, new)
<1>1. PICK l \in Searches : l = lookup[w] /\ Follows(l) /\ l.pc = "bucket"
  BY SearchTyped, FollowsIs DEF Shape, LoadBucket
<1>2. PICK t : t = table /\ t \in Arrays /\ t \in Nat /\ Len(Sizes) \in Nat /\ t <= Len(Sizes)
  BY SizesArePositive DEF Shape, TypeOK
<1>3. /\ l.array \in Arrays /\ l.index \in Buckets(l.array)
  <2>1. l.array \in 1 .. t /\ l.index < Sizes[l.array] /\ l.index \in Nat
    BY <1>1, <1>2 DEF Follows, Searches
  <2>2. l.array \in Arrays
    BY <1>2, <2>1 DEF Arrays
  <2>3. Sizes[l.array] \in Nat
    BY <2>2, SizesArePositive
  <2> QED
    BY <2>1, <2>2, <2>3 DEF Buckets
<1>4. PICK c \in Seq(Services) : c = array[l.array][l.index]
  BY <1>3, BucketTypes DEF Shape
<1>5. PICK e : e = IF Freed(l.array) THEN Undefined
                   ELSE IF c = <<>> THEN NULL ELSE Head(c)
  OBVIOUS
<1>6. e \in Services \cup {NULL, Undefined}
  <2>1. c # <<>> => Head(c) \in Services
    OBVIOUS
  <2> QED
    BY <1>5, <2>1
<1>7. PICK new : new = [[l EXCEPT !.pc = "walk"] EXCEPT !.entry = e]
  OBVIOUS
<1>8. new \in Searches
  BY <1>6, <1>7 DEF Searches
<1>9. new.pc = "walk" /\ new.entry = e /\ new.key = l.key /\ new.index = l.index
      /\ new.had = l.had /\ new.raced = l.raced
  BY <1>7 DEF Searches
<1>10. ASSUME ~ l.raced
       PROVE  \/ e = NULL /\ l.had = {}
              \/ \E n \in DOMAIN c : /\ c[n] = e
                                     /\ \A s \in l.had : \E m \in n .. Len(c) : c[m] = s
  <2>1. /\ ~ Expanding /\ l.index = IndexFor(Sizes[t], l.key) /\ l.array = t
        /\ l.had \subseteq {s \in registered : KeyOf[s] = l.key}
    BY <1>1, <1>2, <1>10 DEF Follows
  <2>2. ~ Freed(l.array)
    BY <1>2, <2>1 DEF Freed, Expanding
  <2>3. primeindex = t
    BY <1>2, <2>1 DEF Shape, Phases, Expanding, TypeOK
  <2>4. ASSUME NEW s \in l.had PROVE \E m \in 1 .. Len(c) : c[m] = s
    <3>1. s \in registered /\ s \in Services /\ KeyOf[s] = l.key
      BY <2>1 DEF Shape, TypeOK
    <3>2. at[s] = t
      BY <1>2, <2>3, <3>1 DEF Filed
    <3>3. In(s, c)
      BY <1>3, <1>4, <2>1, <3>1, <3>2 DEF Filed, Holds
    <3> QED
      BY <3>3 DEF In
  <2>5. CASE c = <<>>
    BY <1>5, <2>2, <2>4, <2>5
  <2>6. CASE c # <<>>
    <3>1. 1 \in DOMAIN c /\ c[1] = Head(c)
      BY <2>6
    <3> QED
      BY <1>5, <2>2, <2>4, <2>6, <3>1
  <2> QED
    BY <2>5, <2>6
<1>11. Follows(new)
  <2>1. ~ l.raced => l.array = table
    BY <1>1 DEF Follows
  <2> QED
    BY <1>1, <1>4, <1>9, <1>10, <2>1 DEF Follows
<1>12. lookup' = [lookup EXCEPT ![w] = new]
  BY <1>1, <1>4, <1>5, <1>7 DEF LoadBucket, Shape, TypeOK
<1> QED
  BY <1>8, <1>11, <1>12 DEF Advances, LoadBucket

LEMMA WalkAdvances ==
  ASSUME Shape, NEW at \in [Services -> Arrays], Filed(at),
         NEW w \in Workers, LookupFollows(w), Walk(w)
  PROVE  \E new : Advances(w, new)
<1>1. PICK l \in Searches : l = lookup[w] /\ Follows(l) /\ l.pc = "walk"
  BY SearchTyped, FollowsIs DEF Shape, Walk
<1>2. PICK e \in Services : e = l.entry /\ KeyOf[e] # l.key
  BY <1>1 DEF Walk, Found
<1>3. PICK t : t = table /\ t \in Arrays
  BY DEF Shape, TypeOK
<1>4. PICK x \in Services \cup {NULL} : x = NextOf(e)
  BY NextOfTyped DEF Shape
<1>5. PICK new : new = [l EXCEPT !.entry = x]
  OBVIOUS
<1>6. new \in Searches
  BY <1>5 DEF Searches
<1>7. new.pc = "walk" /\ new.entry = x /\ new.key = l.key /\ new.index = l.index
      /\ new.had = l.had /\ new.raced = l.raced
  BY <1>1, <1>5 DEF Searches
<1>8. PICK c : c = array[t][l.index]
  OBVIOUS
<1>9. ASSUME ~ l.raced
      PROVE  \/ x = NULL /\ l.had = {}
             \/ \E n \in DOMAIN c : /\ c[n] = x
                                    /\ \A s \in l.had : \E m \in n .. Len(c) : c[m] = s
  <2>1. /\ l.index = IndexFor(Sizes[t], l.key) /\ l.key \in Keys
        /\ l.had \subseteq {s \in registered : KeyOf[s] = l.key}
    BY <1>1, <1>3, <1>9 DEF Follows
  <2>2. l.index \in Buckets(t)
    BY <1>3, <2>1, HashedInto
  <2>3. c \in Seq(Services)
    BY <1>3, <1>8, <2>2, BucketTypes DEF Shape
  <2>4. e # NULL
    BY RegistryAssumption
  <2>5. PICK n \in 1 .. Len(c) : c[n] = e
          /\ \A s \in l.had : \E m \in n .. Len(c) : c[m] = s
    BY <1>1, <1>2, <1>3, <1>8, <1>9, <2>3, <2>4 DEF Follows
  <2>6. PICK k \in Nat : k = Len(c)
    BY <2>3
  <2>7. \A s \in l.had : s # e
    BY <1>2, <2>1
  <2>8. ASSUME NEW s \in l.had PROVE n < k /\ \E m \in (n + 1) .. Len(c) : c[m] = s
    <3>1. PICK m \in n .. k : c[m] = s
      BY <2>5, <2>6
    <3>2. m # n
      BY <2>5, <2>7, <3>1
    <3>3. m \in (n + 1) .. k /\ n < k
      BY <2>6, <3>1, <3>2
    <3> QED
      BY <2>6, <3>1, <3>3
  <2>9. CASE n < k
    <3>1. x = c[n + 1]
      BY <1>3, <1>4, <1>8, <2>2, <2>5, <2>6, <2>9, NextOfInChain DEF Shape
    <3>2. n + 1 \in DOMAIN c
      BY <2>3, <2>6, <2>9
    <3> QED
      BY <2>8, <3>1, <3>2
  <2>10. CASE ~ n < k
    <3>1. n = Len(c)
      BY <2>6, <2>10
    <3>2. x = NULL
      BY <1>3, <1>4, <1>8, <2>2, <2>5, <3>1, NextOfInChain DEF Shape
    <3> QED
      BY <2>8, <2>10, <3>2
  <2> QED
    BY <2>9, <2>10
<1>10. Follows(new)
  BY <1>1, <1>3, <1>7, <1>8, <1>9 DEF Follows
<1>11. lookup' = [lookup EXCEPT ![w] = new]
  BY <1>1, <1>2, <1>4, <1>5 DEF Walk, Shape, TypeOK
<1> QED
  BY <1>6, <1>10, <1>11 DEF Advances, Walk

LEMMA ReturnAdvances ==
  ASSUME NEW w \in Workers, Return(w)
  PROVE  Advances(w, NoLookup)
<1>1. NoLookup \in Searches
  <2>1. Len(Sizes) \in Nat
    BY RegistryAssumption
  <2>2. 0 \in Nat /\ 0 \in 0 .. Len(Sizes)
    BY <2>1
  <2> QED
    BY <2>2 DEF NoLookup, Searches
<1>2. Follows(NoLookup)
  BY DEF Follows, NoLookup
<1> QED
  BY <1>1, <1>2 DEF Advances, Return

-----------------------------------------------------------------------------
(* The invariant is inductive. *)

LEMMA AdvanceKeeps ==
  ASSUME Inductive, NEW w \in Workers, NEW new, Advances(w, new)
  PROVE  Inductive'
<1>1. UNCHANGED <<array, table, tablelength, primeindex, entrycount, registrar, tried,
                  registered, crashed>>
      /\ lookup' = [lookup EXCEPT ![w] = new] /\ new \in Searches /\ Follows(new)
  BY DEF Advances, tableVars
<1>2. ArraysTyped /\ RestTyped /\ lookup \in [Workers -> Searches] /\ Phases /\ Counted
  BY TypeParts DEF Inductive, Shape
<1>3. ArraysTyped' /\ RestTyped' /\ Phases' /\ Counted'
  BY <1>1, <1>2 DEF ArraysTyped, RestTyped, Phases, Counted, Filled
<1>4. (lookup \in [Workers -> Searches])'
  <2>1. lookup' \in [Workers -> Searches]
    BY <1>1, <1>2
  <2> QED
    BY <2>1 DEF Searches
<1>5. \E at \in [Services -> Arrays] : Filed(at)'
  BY <1>1, FiledStays DEF Inductive
<1>6. ASSUME NEW v \in Workers PROVE LookupFollows(v)'
  <2>1. PICK l : l = lookup'[v] /\ Follows(l)
    BY <1>1, <1>2, FollowsIs DEF Inductive
  <2>2. Expanding' => Expanding
    BY <1>1 DEF Expanding
  <2>3. Follows(l)'
    BY <1>1, <2>1, <2>2, QuietStep
  <2> QED
    BY <2>1, <2>3, FollowsIsNext
<1> QED
  BY <1>3, <1>4, <1>5, <1>6, NextTypeParts DEF Inductive, Shape

LEMMA WorkerKeeps ==
  ASSUME Inductive, NEW w \in Workers, Worker(w) \/ \E k \in Keys : Search(w, k)
  PROVE  Inductive'
<1>1. PICK at \in [Services -> Arrays] : Filed(at)
  BY DEF Inductive
<1>2. Shape /\ LookupFollows(w)
  BY DEF Inductive
<1>3. \E new : Advances(w, new)
  BY <1>1, <1>2, SearchAdvances, LoadTableAdvances, LoadBucketAdvances, WalkAdvances,
     ReturnAdvances DEF Worker
<1> QED
  BY <1>3, AdvanceKeeps

(* The steps that leave the chains and the table alone.                    *)
QuietRegistrar ==
  \/ \E s \in Services : RegService(s)
  \/ ExpandFails \/ ExpandInPlace \/ FreeTable \/ Resize \/ LinkFails

LEMMA RegistrarKeeps ==
  ASSUME Inductive, Registrar
  PROVE  Inductive'
<1>1. PICK at \in [Services -> Arrays] : Filed(at)
  BY DEF Inductive
<1>2. Shape /\ TypeOK /\ Phases /\ ArraysTyped /\ lookup \in [Workers -> Searches]
  BY TypeParts DEF Inductive, Shape
<1>3. Rest'
  BY <1>2, RegServiceRest, ExpansionRest, TransferRest, LinkRest DEF Registrar
<1>4. ArraysTyped'
  <2>1. CASE UNCHANGED array
    BY <1>2, <2>1 DEF ArraysTyped
  <2>2. CASE MoveEntry \/ Link
    BY <1>2, <2>2, MoveTyped, LinkTyped
  <2> QED
    BY <2>1, <2>2 DEF Registrar, RegService, Expand, ExpandFails, ExpandInPlace, FreeTable,
       SwapTable, Resize, LinkFails, tableVars
<1>5. \E new \in [Services -> Arrays] : Filed(new)'
  <2>1. CASE Expand \/ SwapTable
    BY <1>1, <1>2, <2>1, ExpandFiled, SwapFiled
  <2>2. CASE MoveEntry \/ Link
    BY <1>1, <1>2, <2>2, MoveFiled, LinkFiled
  <2>3. CASE UNCHANGED <<array, table, primeindex, registered>>
    BY <1>1, <2>3, FiledStays
  <2> QED
    BY <2>1, <2>2, <2>3 DEF Registrar, RegService, ExpandFails, ExpandInPlace, FreeTable,
       Resize, LinkFails, tableVars
<1>6. \A w \in Workers : lookup'[w] \in Searches /\ LookupFollows(w)'
  <2> SUFFICES ASSUME NEW w \in Workers PROVE lookup'[w] \in Searches /\ LookupFollows(w)'
    OBVIOUS
  <2>1. PICK l \in Searches : l = lookup[w] /\ Follows(l)
    BY <1>2, SearchTyped, FollowsIs DEF Inductive
  <2>2. CASE Expand
    <3>1. PICK m : m = lookup'[w]
      OBVIOUS
    <3>2. m = [l EXCEPT !.raced = l.pc # "idle"]
      BY <2>1, <2>2, <3>1 DEF Expand
    <3>3. m \in Searches /\ (m.pc = "idle" \/ m.raced) /\ m.pc = l.pc /\ m.key = l.key
          /\ m.index = l.index /\ m.array = l.array /\ m.had = l.had
      BY <3>2 DEF Searches
    <3>4. UNCHANGED <<array, table, registered>>
      BY <2>2 DEF Expand
    <3>5. Follows(m)'
      BY <2>1, <3>3, <3>4 DEF Follows
    <3> QED
      BY <3>1, <3>3, <3>5, FollowsIsNext
  <2>3. CASE ~ Expand
    <3>1. l = lookup'[w]
      BY <2>1, <2>3 DEF Registrar, RegService, ExpandFails, ExpandInPlace, MoveEntry,
         FreeTable, SwapTable, Resize, Link, LinkFails
    <3>2. CASE Link
      BY <1>2, <2>1, <3>1, <3>2, LinkFollows, FollowsIsNext
    <3>3. CASE MoveEntry \/ SwapTable
      <4>1. Expanding /\ registered' = registered
        BY <3>3 DEF MoveEntry, SwapTable, Expanding
      <4>2. l.pc = "idle" \/ l.raced
        BY <2>1, <4>1 DEF Follows
      <4>3. PICK t, u : t = table /\ u = table' /\ t \in Arrays /\ u \in Arrays /\ t <= u
        <5>1. table \in Arrays /\ primeindex \in Arrays /\ primeindex = table + 1
          BY <1>2, <3>3 DEF TypeOK, Phases, MoveEntry, SwapTable
        <5>2. table \in Nat /\ table <= table + 1 /\ table <= table
          BY <5>1, SizesArePositive
        <5> QED
          BY <3>3, <5>1, <5>2 DEF MoveEntry, SwapTable
      <4>4. Follows(l)'
        BY <2>1, <4>1, <4>2, <4>3, BoundsStay
      <4> QED
        BY <3>1, <4>4, FollowsIsNext
    <3>4. CASE UNCHANGED <<array, table, registered>> /\ (Expanding' => Expanding)
      BY <2>1, <3>1, <3>4, QuietStep, FollowsIsNext
    <3>5. QuietRegistrar \/ Link \/ MoveEntry \/ SwapTable
      BY <2>3 DEF Registrar, QuietRegistrar
    <3>6. ASSUME QuietRegistrar
          PROVE  UNCHANGED <<array, table, registered>> /\ (Expanding' => Expanding)
      <4>1. UNCHANGED <<array, table, registered>>
        BY <3>6 DEF QuietRegistrar, RegService, ExpandFails, ExpandInPlace, FreeTable, Resize,
           LinkFails, tableVars
      <4>2. registrar \in [pc : {"idle", "expand", "move", "swap", "resize", "link"},
                          service : Services \cup {NULL}]
        BY <1>2 DEF TypeOK
      <4>3. CASE \E s \in Services : RegService(s)
        BY <4>1, <4>3 DEF RegService, Expanding
      <4>4. CASE ExpandFails \/ FreeTable \/ Resize \/ LinkFails
        BY <4>1, <4>2, <4>4 DEF ExpandFails, FreeTable, Resize, LinkFails, Goto, Expanding
      <4>5. CASE ExpandInPlace
        BY <4>1, <4>5 DEF ExpandInPlace, Expanding
      <4> QED
        BY <3>6, <4>1, <4>3, <4>4, <4>5 DEF QuietRegistrar
    <3> QED
      BY <3>2, <3>3, <3>4, <3>5, <3>6
  <2> QED
    BY <2>2, <2>3
<1>7. (lookup \in [Workers -> Searches])'
  <2>1. \E f : lookup' = [w \in Workers |-> f[w]]
    <3>1. lookup = [w \in Workers |-> lookup[w]]
      BY <1>2
    <3> QED
      BY <3>1 DEF Registrar, RegService, Expand, ExpandFails, ExpandInPlace, MoveEntry,
         FreeTable, SwapTable, Resize, Link, LinkFails
  <2>2. lookup' = [w \in Workers |-> lookup'[w]]
    BY <2>1
  <2>3. lookup' \in [Workers -> Searches]
    BY <1>6, <2>2
  <2> QED
    BY <2>3 DEF Searches
<1> QED
  BY <1>3, <1>4, <1>5, <1>6, <1>7, NextTypeParts DEF Inductive, Shape, Rest

LEMMA NextKeeps == Inductive /\ [Next]_vars => Inductive'
<1> SUFFICES ASSUME Inductive, [Next]_vars PROVE Inductive'
  OBVIOUS
<1>1. CASE Registrar
  BY <1>1, RegistrarKeeps
<1>2. ASSUME NEW w \in Workers, Worker(w) \/ \E k \in Keys : Search(w, k)
      PROVE  Inductive'
  BY <1>2, WorkerKeeps
<1>3. CASE UNCHANGED vars
  <2>1. UNCHANGED <<array, table, tablelength, primeindex, entrycount, registrar, tried,
                    registered, lookup, crashed>>
    BY <1>3 DEF vars, tableVars
  <2>2. Shape'
    BY <2>1 DEF Inductive, Shape, TypeOK, Phases, Counted, Filled
  <2>3. \E at \in [Services -> Arrays] : Filed(at)'
    BY <2>1, FiledStays DEF Inductive
  <2>4. ASSUME NEW w \in Workers PROVE LookupFollows(w)'
    <3>1. PICK l : l = lookup[w] /\ l = lookup'[w] /\ Follows(l)
      BY <2>1, FollowsIs DEF Inductive
    <3>2. Follows(l)'
      BY <2>1, <3>1, QuietStep DEF Expanding
    <3> QED
      BY <3>1, <3>2, FollowsIsNext
  <2> QED
    BY <2>2, <2>3, <2>4 DEF Inductive
<1> QED
  BY <1>1, <1>2, <1>3 DEF Next

THEOREM InductiveHolds == Spec => []Inductive
BY InitInductive, NextKeeps, PTL DEF Spec

-----------------------------------------------------------------------------
(* What follows from it. *)

(* A service is in one place, which at names, or in none.                  *)
LEMMA PlacesAre ==
  ASSUME TypeOK, NEW s
  PROVE  \A x : x \in Places(s) <=>
           \E p \in Arrays : \E i \in Buckets(p) : \E j \in DOMAIN array[p][i] :
             array[p][i][j] = s /\ x = <<p, i, j>>
<1> DEFINE bucketPlaces(p, i) == {<<p, i, j>> : j \in {n \in DOMAIN array[p][i] :
                                                        array[p][i][n] = s}}
           arrayPlaces(p) == UNION {bucketPlaces(p, i) : i \in DOMAIN array[p]}
           places == UNION {arrayPlaces(p) : p \in Arrays}
<1>1. Places(s) = places
  BY DEF Places
<1>2. \A p, i, x : x \in bucketPlaces(p, i) <=>
        \E j \in DOMAIN array[p][i] : array[p][i][j] = s /\ x = <<p, i, j>>
  OBVIOUS
<1> HIDE DEF bucketPlaces
<1>3. \A p \in Arrays : \A x : x \in arrayPlaces(p) <=>
        \E i \in Buckets(p) : x \in bucketPlaces(p, i)
  BY BucketTypes
<1> HIDE DEF arrayPlaces
<1>4. \A x : x \in places <=> \E p \in Arrays : x \in arrayPlaces(p)
  OBVIOUS
<1> HIDE DEF places
<1>5. \A x : x \in Places(s) <=> \E p \in Arrays : \E i \in Buckets(p) : x \in bucketPlaces(p, i)
  BY <1>1, <1>3, <1>4
<1> QED
  BY <1>2, <1>5

LEMMA FiledOnce ==
  ASSUME TypeOK, NEW at \in [Services -> Arrays], Filed(at), NEW s \in Services
  PROVE  IF s \in registered
         THEN \E p \in {table, primeindex}, j \in 1 .. Cardinality(Services) :
                Places(s) = {<<p, IndexFor(Sizes[p], KeyOf[s]), j>>}
         ELSE Places(s) = {}
<1>1. ASSUME NEW p \in Arrays, NEW i \in Buckets(p), NEW j \in DOMAIN array[p][i],
             array[p][i][j] = s
      PROVE  Holds(at, s, p, i)
  <2>1. array[p][i] \in Seq(Services)
    BY BucketTypes
  <2>2. In(s, array[p][i])
    BY <1>1, <2>1 DEF In
  <2> QED
    BY <2>2 DEF Filed
<1>2. CASE s \notin registered
  <2>1. \A x : x \notin Places(s)
    <3> SUFFICES ASSUME NEW x \in Places(s) PROVE FALSE
      OBVIOUS
    <3>1. PICK p \in Arrays : \E i \in Buckets(p) : \E j \in DOMAIN array[p][i] :
            array[p][i][j] = s
      BY PlacesAre
    <3>2. PICK i \in Buckets(p) : \E j \in DOMAIN array[p][i] : array[p][i][j] = s
      BY <3>1
    <3> QED
      BY <1>1, <1>2, <3>2 DEF Holds
  <2> QED
    BY <1>2, <2>1
<1>3. CASE s \in registered
  <2>1. PICK p \in Arrays, i \in Nat : /\ p \in {table, primeindex} /\ at[s] = p
                               /\ i = IndexFor(Sizes[p], KeyOf[s]) /\ i \in Buckets(p)
    BY <1>3, KeysAreHashed DEF Filed, Buckets
  <2>2. PICK c \in Seq(Services) : c = array[p][i] /\ Distinct(c) /\ In(s, c)
    BY <1>3, <2>1, BucketTypes DEF Filed, Holds
  <2>3. PICK j \in 1 .. Len(c) : c[j] = s
    BY <2>2 DEF In
  <2>4. j \in 1 .. Cardinality(Services)
    BY <2>2, ChainIsShort
  <2>5. <<p, i, j>> \in Places(s)
    <3>1. j \in DOMAIN array[p][i] /\ array[p][i][j] = s
      BY <2>2, <2>3
    <3> QED
      BY <2>1, <3>1, PlacesAre
  <2>6. ASSUME NEW x \in Places(s) PROVE x = <<p, i, j>>
    <3>1. PICK q \in Arrays : \E k \in Buckets(q) : \E m \in DOMAIN array[q][k] :
            array[q][k][m] = s /\ x = <<q, k, m>>
      BY PlacesAre
    <3>2. PICK k \in Buckets(q) : \E m \in DOMAIN array[q][k] :
            array[q][k][m] = s /\ x = <<q, k, m>>
      BY <3>1
    <3>3. PICK m \in DOMAIN array[q][k] : array[q][k][m] = s /\ x = <<q, k, m>>
      BY <3>2
    <3>4. q = p /\ k = i
      BY <1>1, <2>1, <3>3 DEF Holds
    <3>5. m = j
      BY <2>2, <2>3, <3>3, <3>4 DEF Distinct
    <3> QED
      BY <3>3, <3>4, <3>5
  <2>7. Places(s) = {<<p, i, j>>}
    BY <2>5, <2>6
  <2> QED
    BY <1>3, <2>1, <2>4, <2>7
<1> QED
  BY <1>2, <1>3

LEMMA InductiveImpliesIInv == Inductive => IInv
<1> SUFFICES ASSUME Inductive PROVE IInv
  OBVIOUS
<1>1. PICK at \in [Services -> Arrays] : Filed(at)
  BY DEF Inductive
<1>2. TypeOK /\ Phases /\ Counted /\ \A w \in Workers : LookupFollows(w)
  BY DEF Inductive, Shape
<1>3. EntriesAreFiled
  BY <1>1, <1>2, FiledOnce DEF EntriesAreFiled, Counted
<1> QED
  BY <1>2, <1>3 DEF IInv

LEMMA FollowedIsFound ==
  ASSUME TypeOK, \A w \in Workers : LookupFollows(w)
  PROVE  RegisteredIsFound
<1> SUFFICES ASSUME NEW w \in Workers, lookup[w].pc = "walk", ~ lookup[w].raced
             PROVE  /\ lookup[w].entry # Undefined
                    /\ lookup[w].entry = NULL => lookup[w].had = {}
  BY DEF RegisteredIsFound
<1>1. PICK l \in Searches : l = lookup[w] /\ Follows(l) /\ l.pc = "walk" /\ ~ l.raced
  BY SearchTyped, FollowsIs
<1>2. PICK t : t = table /\ t \in Arrays
  BY DEF TypeOK
<1>3. l.index \in Buckets(t)
  BY <1>1, <1>2, HashedInto DEF Follows
<1>4. PICK c \in Seq(Services) : c = array[t][l.index]
  BY <1>2, <1>3, BucketTypes
<1>5. \/ l.entry = NULL /\ l.had = {}
      \/ \E n \in DOMAIN c : c[n] = l.entry
  BY <1>1, <1>2, <1>4 DEF Follows
<1>6. \A n \in DOMAIN c : c[n] \in Services
  OBVIOUS
<1> QED
  BY <1>1, <1>5, <1>6, RegistryAssumption

(* The invariant that the run registry checks.                             *)
THEOREM IInvHolds == Spec => []IInv
BY InductiveHolds, InductiveImpliesIInv, PTL

(* A registered service is in exactly one bucket of one of the two arrays, *)
(* at every moment of an expansion, in the bucket a search of that array   *)
(* looks into, and entrycount counts the services (hashtable_expand,       *)
(* hashtable_insert).                                                      *)
THEOREM EntriesStayFiled == Spec => []EntriesAreFiled
<1>1. IInv => EntriesAreFiled
  BY DEF IInv
<1> QED
  BY <1>1, IInvHolds, PTL

(* A search that no expansion overlaps never reads freed memory, and finds *)
(* a service of its key if one was registered when it began                *)
(* (hashtable_search), whatever is inserted meanwhile.                     *)
THEOREM RegisteredAreFound == Spec => []RegisteredIsFound
<1>1. IInv => RegisteredIsFound
  BY FollowedIsFound DEF IInv
<1> QED
  BY <1>1, IInvHolds, PTL
=============================================================================
