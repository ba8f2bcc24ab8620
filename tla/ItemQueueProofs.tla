-------------------------- MODULE ItemQueueProofs --------------------------
(***************************************************************************)
(* That the items of the queues stay apart and that the queues are first   *)
(* in, first out, for any queues, threads, values and chunks.              *)
(*                                                                         *)
(* The proof names the lists behind the pointers (ls) and the place of     *)
(* each item (w); Placed says that they agree with the links and with what *)
(* the threads hold.  Every operation on a list moves one item, or a new   *)
(* chunk, from one place to another.  That Chain, which follows the links, *)
(* finds the lists is an induction over their length (ListIsChain), from   *)
(* the well-foundedness of the natural numbers.                            *)
(***************************************************************************)
EXTENDS ItemQueue, FiniteSetTheorems, WellFoundedInduction, TLAPS

Less == {ss \in Nat \X Nat : ss[1] < ss[2]}

(* Induction over the natural numbers, for a set of them. *)
LEMMA SetInduction ==
  ASSUME NEW S \in SUBSET Nat, 0 \in S, \A n \in Nat : n \in S => n + 1 \in S
  PROVE  S = Nat
<1> DEFINE T == Nat \ S
<1>1. IsWellFoundedOn(Less, Nat)
  BY NatLessThanWellFounded DEF OpToRel, Less
<1>2. \A x, y \in Nat : x < y => <<x, y>> \in Less
  BY DEF Less
<1> SUFFICES ASSUME T # {} PROVE FALSE
  OBVIOUS
<1>3. \E x \in T : \A y \in T : ~ (<<y, x>> \in Less)
  <2>1. T \subseteq Nat
    OBVIOUS
  <2> HIDE DEF T
  <2> QED
    BY <1>1, <2>1, WFMin
<1>4. PICK x \in T : \A y \in T : ~ (<<y, x>> \in Less)
  BY <1>3
<1>5. x # 0 /\ x - 1 \in Nat /\ x - 1 < x /\ x \in Nat
  OBVIOUS
<1>6. x - 1 \in S
  BY <1>2, <1>4, <1>5
<1>7. (x - 1) + 1 = x
  BY <1>5
<1> QED
  BY <1>5, <1>6, <1>7

NItems == ChunkLen * MaxChunks

LEMMA Sizes ==
  /\ ChunkLen \in Nat /\ ChunkLen >= 2 /\ MaxChunks \in Nat /\ NItems \in Nat
  /\ Items = 1 .. NItems /\ NULL \notin Items /\ NULL \notin Queues
  /\ NULL \notin Values /\ Cardinality(Items) = NItems /\ IsFiniteSet(Items)
<1>1. /\ ChunkLen \in Nat /\ ChunkLen >= 2 /\ MaxChunks \in Nat
      /\ NULL \notin Values \cup Queues \cup Int
  BY QueueAssumption
<1>2. NItems \in Nat
  BY <1>1 DEF NItems
<1>3. Items = 1 .. NItems
  BY DEF Items, NItems
<1>4. Cardinality(1 .. NItems) = NItems /\ IsFiniteSet(1 .. NItems)
  BY <1>2, FS_Interval
<1> QED
  BY <1>1, <1>2, <1>3, <1>4

-----------------------------------------------------------------------------
(* Lists of items.                                                         *)

(* s is the list that starts at h, with the links nx. *)
Linked(nx, s, h) ==
  /\ h = IF s = <<>> THEN NULL ELSE s[1]
  /\ \A k \in 1 .. Len(s) : nx[s[k]] = IF k = Len(s) THEN NULL ELSE s[k + 1]

Distinct(s) == \A j, k \in 1 .. Len(s) : s[j] = s[k] => j = k

In(i, s) == \E k \in 1 .. Len(s) : s[k] = i

(* The recursion of Walk is well defined. *)
Step(g, n) ==
  [j \in Link |-> IF n = 0 \/ j = NULL THEN <<>> ELSE <<j>> \o g[n - 1][next[j]]]

LEMMA WalkExists ==
  ASSUME NEW m \in Nat PROVE \E g : g = [n \in 0 .. m |-> Step(g, n)]
<1> DEFINE S == {k \in Nat : \E g : g = [n \in 0 .. k |-> Step(g, n)]}
<1>1. 0 \in S
  <2> DEFINE g == [n \in 0 .. 0 |-> [j \in Link |-> <<>>]]
  <2>1. \A n \in 0 .. 0 : Step(g, n) = [j \in Link |-> <<>>]
    BY DEF Step
  <2>2. g = [n \in 0 .. 0 |-> Step(g, n)]
    BY <2>1
  <2> QED
    BY <2>2
<1>2. ASSUME NEW k \in Nat, k \in S PROVE k + 1 \in S
  <2>1. PICK g : g = [n \in 0 .. k |-> Step(g, n)]
    BY <1>2
  <2> DEFINE f == [n \in 0 .. (k + 1) |-> Step(g, n)]
  <2>2. ASSUME NEW n \in 0 .. (k + 1) PROVE Step(f, n) = Step(g, n)
    <3>1. CASE n = 0
      BY <3>1 DEF Step
    <3>2. CASE n # 0
      <4>1. n - 1 \in 0 .. k /\ n - 1 \in 0 .. (k + 1)
        BY <3>2
      <4>2. f[n - 1] = Step(g, n - 1) /\ g[n - 1] = Step(g, n - 1)
        BY <2>1, <4>1
      <4> HIDE DEF f
      <4> QED
        BY <4>2 DEF Step
    <3> QED
      BY <3>1, <3>2
  <2>3. f = [n \in 0 .. (k + 1) |-> Step(f, n)]
    BY <2>2
  <2>4. \E h : h = [n \in 0 .. (k + 1) |-> Step(h, n)]
    <3> HIDE DEF f
    <3> QED
      BY <2>3
  <2> QED
    BY <2>4
<1>3. S = Nat
  <2>1. S \in SUBSET Nat
    OBVIOUS
  <2> HIDE DEF S
  <2> QED
    BY <1>1, <1>2, <2>1, SetInduction
<1> QED
  BY <1>3

LEMMA WalkIs ==
  ASSUME NEW n \in 0 .. NItems
  PROVE  Walk[n] = Step(Walk, n)
<1> DEFINE walk == CHOOSE g : g = [k \in 0 .. NItems |-> Step(g, k)]
<1>1. Walk = walk
  BY DEF Walk, Step, NItems
<1>2. walk = [k \in 0 .. NItems |-> Step(walk, k)]
  BY WalkExists, Sizes
<1> QED
  BY <1>1, <1>2

(* The rest of a list is a list. *)
LEMMA TailLinked ==
  ASSUME NEW nx, NEW s \in Seq(Items), NEW h, Linked(nx, s, h), s # <<>>
  PROVE  /\ h = s[1] /\ h \in Items /\ Tail(s) \in Seq(Items)
         /\ Len(Tail(s)) = Len(s) - 1 /\ Len(s) \in Nat /\ Len(s) >= 1
         /\ \A k \in 1 .. (Len(s) - 1) : Tail(s)[k] = s[k + 1]
         /\ Linked(nx, Tail(s), nx[h])
<1>1. PICK m \in Nat, n \in Nat : m = Len(s) /\ m = n + 1
  <2>1. Len(s) \in Nat /\ Len(s) >= 1
    OBVIOUS
  <2>2. Len(s) - 1 \in Nat /\ Len(s) = (Len(s) - 1) + 1
    BY <2>1
  <2> QED
    BY <2>1, <2>2
<1>2. s \in [1 .. m -> Items]
  <2>1. s \in [1 .. Len(s) -> Items]
    OBVIOUS
  <2> QED
    BY <1>1, <2>1
<1>3. Tail(s) \in Seq(Items) /\ Len(Tail(s)) = Len(s) - 1
      /\ \A k \in 1 .. (Len(s) - 1) : Tail(s)[k] = s[k + 1]
  OBVIOUS
<1> DEFINE r == Tail(s)
<1>4. r \in Seq(Items) /\ Len(r) = n /\ \A k \in 1 .. n : r[k] = s[k + 1]
  BY <1>1, <1>3
<1>5. /\ h = IF s = <<>> THEN NULL ELSE s[1]
      /\ \A k \in 1 .. m : nx[s[k]] = IF k = m THEN NULL ELSE s[k + 1]
  BY <1>1 DEF Linked
<1> HIDE DEF r
<1>6. h = s[1] /\ h \in Items
  BY <1>1, <1>2, <1>5
<1>7. nx[h] = IF r = <<>> THEN NULL ELSE r[1]
  <2>1. nx[s[1]] = IF 1 = m THEN NULL ELSE s[1 + 1]
    BY <1>1, <1>5
  <2>2. CASE n = 0
    <3>1. r = <<>>
      BY <1>4, <2>2
    <3> QED
      BY <1>1, <1>6, <2>1, <2>2, <3>1
  <2>3. CASE n # 0
    <3>1. r # <<>> /\ r[1] = s[1 + 1]
      BY <1>4, <2>3
    <3> QED
      BY <1>1, <1>6, <2>1, <2>3, <3>1
  <2> QED
    BY <2>2, <2>3
<1>8. ASSUME NEW k \in 1 .. n
      PROVE  nx[r[k]] = IF k = n THEN NULL ELSE r[k + 1]
  <2>1. k + 1 \in 1 .. m /\ (k = n <=> k + 1 = m) /\ (k # n => k + 1 \in 1 .. n)
    BY <1>1
  <2> QED
    BY <1>4, <1>5, <2>1
<1>9. Linked(nx, r, nx[h])
  BY <1>4, <1>7, <1>8 DEF Linked
<1>10. Len(s) \in Nat /\ Len(s) >= 1
  BY <1>1
<1> QED
  BY <1>3, <1>6, <1>9, <1>10 DEF r

(* A list without repetitions is not longer than there are items. *)
LEMMA DistinctIsShort ==
  ASSUME NEW s \in Seq(Items), Distinct(s) PROVE Len(s) \in 0 .. NItems
<1>1. Len(s) \in Nat /\ s \in [1 .. Len(s) -> Items]
  OBVIOUS
<1>2. IsFiniteSet(1 .. Len(s)) /\ Cardinality(1 .. Len(s)) = Len(s)
  BY <1>1, FS_Interval
<1> SUFFICES ASSUME NItems < Len(s) PROVE FALSE
  BY <1>1, Sizes
<1>3. \E x, y \in 1 .. Len(s) : x # y /\ s[x] = s[y]
  BY <1>1, <1>2, Sizes, FS_PigeonHole
<1> QED
  BY <1>3 DEF Distinct

(* Walk finds a list in as many steps as it is long. *)
LEMMA WalkFinds ==
  ASSUME NEW s \in Seq(Items), NEW h, Linked(next, s, h), Distinct(s)
  PROVE  Chain(h) = s
<1> DEFINE Found(n) ==
      \A g : \A r \in Seq(Items) :
         Linked(next, r, g) /\ Len(r) <= n => Walk[n][g] = r
           S == {n \in Nat : n <= NItems => Found(n)}
<1>1. \A r \in Seq(Items) : r = <<>> \/ (Len(r) \in Nat /\ Len(r) >= 1 /\ r # <<>>)
  OBVIOUS
<1>2. \A g : NULL \in Link /\ (g \in Items => g \in Link /\ g # NULL)
  BY Sizes DEF Link
<1>3. 0 \in S
  <2> SUFFICES ASSUME NEW r \in Seq(Items), NEW g, Linked(next, r, g), Len(r) <= 0
               PROVE  Walk[0][g] = r
    OBVIOUS
  <2>1. r = <<>>
    BY <1>1
  <2>2. g = NULL
    BY <2>1 DEF Linked
  <2>3. Walk[0] = Step(Walk, 0)
    BY WalkIs, Sizes
  <2> QED
    BY <1>2, <2>1, <2>2, <2>3 DEF Step
<1>4. ASSUME NEW n \in Nat, n \in S PROVE n + 1 \in S
  <2> SUFFICES ASSUME n + 1 <= NItems,
                      NEW r \in Seq(Items), NEW g, Linked(next, r, g), Len(r) <= n + 1
               PROVE  Walk[n + 1][g] = r
    OBVIOUS
  <2>1. n + 1 \in 0 .. NItems /\ n <= NItems /\ (n + 1) - 1 = n /\ n + 1 # 0
    BY Sizes
  <2>2. Walk[n + 1] = Step(Walk, n + 1)
    BY <2>1, WalkIs
  <2>3. CASE r = <<>>
    <3>1. g = NULL
      BY <2>3 DEF Linked
    <3> QED
      BY <1>2, <2>2, <2>3, <3>1 DEF Step
  <2>4. CASE r # <<>>
    <3>1. /\ g = r[1] /\ g \in Items /\ Tail(r) \in Seq(Items)
          /\ Len(Tail(r)) = Len(r) - 1 /\ Len(r) \in Nat
          /\ Linked(next, Tail(r), next[g])
      BY <2>4, TailLinked
    <3>2. Len(Tail(r)) <= n
      BY <3>1
    <3>3. Walk[n][next[g]] = Tail(r)
      BY <1>4, <2>1, <3>1, <3>2
    <3>4. Walk[n + 1][g] = <<g>> \o Walk[n][next[g]]
      BY <1>2, <2>1, <2>2, <3>1 DEF Step
    <3>5. <<r[1]>> \o Tail(r) = r
      BY <2>4
    <3> QED
      BY <3>1, <3>3, <3>4, <3>5
  <2> QED
    BY <2>3, <2>4
<1>5. S = Nat
  <2>1. S \in SUBSET Nat
    OBVIOUS
  <2> HIDE DEF S
  <2> QED
    BY <1>3, <1>4, <2>1, SetInduction
<1>6. Found(NItems)
  BY <1>5, Sizes
<1>7. Walk[NItems][h] = s
  BY <1>6, DistinctIsShort, Sizes
<1> QED
  BY <1>7 DEF Chain, NItems

(* What is taken from the front of a list. *)
LEMMA TailHolds ==
  ASSUME NEW s \in Seq(Items), s # <<>>, Distinct(s)
  PROVE  /\ Distinct(Tail(s))
         /\ \A i : In(i, Tail(s)) <=> In(i, s) /\ i # s[1]
         /\ LastOf(Tail(s)) = IF Tail(s) = <<>> THEN NULL ELSE LastOf(s)
<1>1. PICK m \in Nat, n \in Nat : m = Len(s) /\ m = n + 1
  <2>1. Len(s) \in Nat /\ Len(s) >= 1
    OBVIOUS
  <2>2. Len(s) - 1 \in Nat /\ Len(s) = (Len(s) - 1) + 1
    BY <2>1
  <2> QED
    BY <2>1, <2>2
<1>2. Tail(s) \in Seq(Items) /\ Len(Tail(s)) = Len(s) - 1
      /\ \A k \in 1 .. (Len(s) - 1) : Tail(s)[k] = s[k + 1]
  OBVIOUS
<1> DEFINE r == Tail(s)
<1>3. r \in Seq(Items) /\ Len(r) = n /\ \A k \in 1 .. n : r[k] = s[k + 1]
  BY <1>1, <1>2
<1>4. \A j, k \in 1 .. m : s[j] = s[k] => j = k
  BY <1>1 DEF Distinct
<1> HIDE DEF r
<1>5. Distinct(r)
  <2> SUFFICES ASSUME NEW j \in 1 .. n, NEW k \in 1 .. n, r[j] = r[k] PROVE j = k
    BY <1>3 DEF Distinct
  <2>1. j + 1 \in 1 .. m /\ k + 1 \in 1 .. m
    BY <1>1
  <2>2. s[j + 1] = s[k + 1]
    BY <1>3
  <2>3. j + 1 = k + 1
    BY <1>4, <2>1, <2>2
  <2> QED
    BY <2>3
<1>6. ASSUME NEW i PROVE In(i, r) <=> In(i, s) /\ i # s[1]
  <2>1. ASSUME NEW k \in 1 .. n, r[k] = i PROVE In(i, s) /\ i # s[1]
    <3>1. k + 1 \in 1 .. m /\ k + 1 # 1 /\ 1 \in 1 .. m /\ i = s[k + 1]
      BY <1>1, <1>3, <2>1
    <3> QED
      BY <1>1, <1>4, <3>1 DEF In
  <2>2. ASSUME NEW k \in 1 .. m, s[k] = i, i # s[1] PROVE In(i, r)
    <3>1. PICK j \in 1 .. n : k = j + 1
      <4>1. k # 1 /\ k - 1 \in 1 .. n /\ k = (k - 1) + 1
        BY <1>1, <2>2
      <4> QED
        BY <4>1
    <3> QED
      BY <1>3, <2>2, <3>1 DEF In
  <2> QED
    BY <1>1, <1>3, <2>1, <2>2 DEF In
<1>7. LastOf(r) = IF r = <<>> THEN NULL ELSE LastOf(s)
  <2>1. CASE n = 0
    BY <1>3, <2>1 DEF LastOf
  <2>2. CASE n # 0
    <3>1. r # <<>> /\ n \in 1 .. n /\ r[n] = s[m]
      BY <1>1, <1>3, <2>2
    <3> QED
      BY <1>1, <1>3, <3>1 DEF LastOf
  <2> QED
    BY <2>1, <2>2
<1> QED
  BY <1>5, <1>6, <1>7 DEF r

(* A list is still one when the links of its items are as they were. *)
LEMMA FrameLinked ==
  ASSUME NEW nx, NEW my, NEW s, NEW h, Linked(nx, s, h),
         \A i : In(i, s) => my[i] = nx[i]
  PROVE  Linked(my, s, h)
BY DEF Linked, In

(* An item is put behind a list. *)
PutBehind(nx, my, s, i) ==
  /\ my[i] = NULL
  /\ s # <<>> => my[LastOf(s)] = i
  /\ \A j : In(j, s) /\ j # LastOf(s) => my[j] = nx[j]

LEMMA AppendLinked ==
  ASSUME NEW nx, NEW my, NEW s \in Seq(Items), NEW h, Linked(nx, s, h), Distinct(s),
         NEW i \in Items, ~ In(i, s), PutBehind(nx, my, s, i),
         NEW g, g = IF s = <<>> THEN i ELSE h
  PROVE  /\ Append(s, i) \in Seq(Items) /\ Distinct(Append(s, i))
         /\ Linked(my, Append(s, i), g)
         /\ \A j : In(j, Append(s, i)) <=> In(j, s) \/ j = i
         /\ LastOf(Append(s, i)) = i
<1> USE DEF PutBehind
<1>1. PICK n \in Nat : n = Len(s)
  OBVIOUS
<1>2. /\ Append(s, i) \in Seq(Items) /\ Len(Append(s, i)) = Len(s) + 1
      /\ Append(s, i)[Len(s) + 1] = i
      /\ \A k \in 1 .. Len(s) : Append(s, i)[k] = s[k]
  OBVIOUS
<1> DEFINE r == Append(s, i)
<1>3. /\ r \in Seq(Items) /\ Len(r) = n + 1 /\ r[n + 1] = i
      /\ \A k \in 1 .. n : r[k] = s[k]
  BY <1>1, <1>2
<1>4. /\ h = IF s = <<>> THEN NULL ELSE s[1]
      /\ \A k \in 1 .. n : nx[s[k]] = IF k = n THEN NULL ELSE s[k + 1]
      /\ \A j, k \in 1 .. n : s[j] = s[k] => j = k
      /\ \A k \in 1 .. n : s[k] # i
  BY <1>1 DEF Linked, Distinct, In
<1>5. s = <<>> <=> n = 0
  BY <1>1
<1> HIDE DEF r
<1>6. \A k \in 1 .. (n + 1) : k \in 1 .. n \/ k = n + 1
  BY <1>1
<1>7. Distinct(r)
  BY <1>3, <1>4, <1>6 DEF Distinct
<1>8. \A j : In(j, r) <=> In(j, s) \/ j = i
  <2>1. n + 1 \in 1 .. (n + 1) /\ \A k \in 1 .. n : k \in 1 .. (n + 1)
    BY <1>1
  <2> QED
    BY <1>1, <1>3, <1>6, <2>1 DEF In
<1>9. LastOf(r) = i
  <2>1. r # <<>>
    BY <1>1, <1>3
  <2> QED
    BY <1>3, <2>1 DEF LastOf
<1>10. g = r[1]
  <2>1. n # 0 => 1 \in 1 .. n
    BY <1>1
  <2> QED
    BY <1>3, <1>4, <1>5, <2>1
<1>11. ASSUME NEW k \in 1 .. (n + 1)
       PROVE  my[r[k]] = IF k = n + 1 THEN NULL ELSE r[k + 1]
  <2>1. CASE k = n + 1
    BY <1>3, <2>1
  <2>2. CASE k = n /\ k \in 1 .. n
    <3>1. s # <<>> /\ LastOf(s) = s[n] /\ k # n + 1
      BY <1>1, <1>5, <2>2 DEF LastOf
    <3> QED
      BY <1>3, <2>2, <3>1
  <2>3. CASE k \in 1 .. n /\ k # n
    <3>1. k + 1 \in 1 .. n /\ n \in 1 .. n /\ k # n + 1
      BY <1>1, <2>3
    <3>2. s[k] # s[n] /\ LastOf(s) = s[n]
      BY <1>1, <1>4, <1>5, <2>3, <3>1 DEF LastOf
    <3>3. my[s[k]] = nx[s[k]]
      BY <1>1, <2>3, <3>2 DEF In
    <3> QED
      BY <1>3, <1>4, <2>3, <3>1, <3>3
  <2> QED
    BY <1>6, <2>1, <2>2, <2>3
<1>12. r # <<>>
  BY <1>1, <1>3
<1>13. Linked(my, r, g)
  BY <1>3, <1>10, <1>11, <1>12 DEF Linked
<1> QED
  BY <1>3, <1>7, <1>8, <1>9, <1>13 DEF r

(* Items that follow each other, put in front of a list. *)
Chunk(i, m) == [k \in 1 .. m |-> i + k - 1]

InFront(nx, s, h, i, m) ==
  \A j \in i .. (i + m - 1) :
    /\ j \in Items /\ ~ In(j, s)
    /\ nx[j] = IF j = i + m - 1 THEN h ELSE j + 1

LEMMA ChunkLinked ==
  ASSUME NEW nx, NEW s \in Seq(Items), NEW h, Linked(nx, s, h), Distinct(s),
         NEW i \in Nat, NEW m \in Nat, m >= 1, InFront(nx, s, h, i, m)
  PROVE  /\ Chunk(i, m) \o s \in Seq(Items) /\ Distinct(Chunk(i, m) \o s)
         /\ Linked(nx, Chunk(i, m) \o s, i)
         /\ \A j : In(j, Chunk(i, m) \o s) <=> In(j, s) \/ j \in i .. (i + m - 1)
<1> USE DEF InFront
<1>1. PICK n \in Nat : n = Len(s)
  OBVIOUS
<1>2. \A k \in 1 .. m : i + k - 1 \in i .. (i + m - 1)
  OBVIOUS
<1>3. Chunk(i, m) \in Seq(Items) /\ Len(Chunk(i, m)) = m
  BY <1>2 DEF Chunk
<1>4. PICK c \in Seq(Items) :
        c = Chunk(i, m) /\ Len(c) = m /\ \A k \in 1 .. m : c[k] = i + k - 1
  BY <1>3 DEF Chunk
<1>5. /\ c \o s \in Seq(Items) /\ Len(c \o s) = Len(c) + Len(s)
      /\ \A k \in 1 .. Len(c) : (c \o s)[k] = c[k]
      /\ \A k \in 1 .. Len(s) : (c \o s)[Len(c) + k] = s[k]
  OBVIOUS
<1>6. PICK r \in Seq(Items) :
        /\ r = c \o s /\ Len(r) = m + n
        /\ \A k \in 1 .. m : r[k] = i + k - 1
        /\ \A k \in 1 .. n : r[m + k] = s[k]
  <2>1. Len(c \o s) = m + n
    BY <1>1, <1>4, <1>5
  <2>2. \A k \in 1 .. m : (c \o s)[k] = i + k - 1
    BY <1>4, <1>5
  <2>3. \A k \in 1 .. n : (c \o s)[m + k] = s[k]
    BY <1>1, <1>4, <1>5
  <2>4. c \o s \in Seq(Items)
    BY <1>5
  <2> QED
    BY <2>1, <2>2, <2>3, <2>4
<1>7. /\ h = IF s = <<>> THEN NULL ELSE s[1]
      /\ \A k \in 1 .. n : nx[s[k]] = IF k = n THEN NULL ELSE s[k + 1]
      /\ \A j, k \in 1 .. n : s[j] = s[k] => j = k
      /\ \A k \in 1 .. n : s[k] \notin i .. (i + m - 1)
      /\ s = <<>> <=> n = 0
  BY <1>1 DEF Linked, Distinct, In
<1>8. ASSUME NEW k \in 1 .. (m + n)
      PROVE  \/ k \in 1 .. m /\ r[k] = i + k - 1 /\ r[k] \in i .. (i + m - 1)
             \/ \E l \in 1 .. n : k = m + l /\ r[k] = s[l]
  <2>1. CASE k \in 1 .. m
    BY <1>2, <1>6, <2>1
  <2>2. CASE k \notin 1 .. m
    <3>1. k - m \in 1 .. n /\ k = m + (k - m)
      BY <2>2
    <3> QED
      BY <1>6, <3>1
  <2> QED
    BY <2>1, <2>2
<1>9. Distinct(r)
  <2> SUFFICES ASSUME NEW j \in 1 .. (m + n), NEW k \in 1 .. (m + n), r[j] = r[k]
               PROVE  j = k
    BY <1>6 DEF Distinct
  <2>1. CASE j \in 1 .. m /\ r[j] = i + j - 1 /\ r[j] \in i .. (i + m - 1)
    <3>1. r[k] \in i .. (i + m - 1) /\ r[k] = i + j - 1
      BY <2>1
    <3>2. ~ \E l \in 1 .. n : k = m + l /\ r[k] = s[l]
      BY <1>7, <3>1
    <3>3. k \in 1 .. m /\ r[k] = i + k - 1
      BY <1>8, <3>2
    <3>4. i + k - 1 = i + j - 1
      BY <3>1, <3>3
    <3> QED
      BY <2>1, <3>3, <3>4
  <2>2. CASE \E l \in 1 .. n : j = m + l /\ r[j] = s[l]
    <3>1. PICK l \in 1 .. n : j = m + l /\ r[j] = s[l]
      BY <2>2
    <3>2. PICK e \in 1 .. n : k = m + e /\ r[k] = s[e]
      BY <1>7, <1>8, <3>1
    <3> QED
      BY <1>7, <3>1, <3>2
  <2> QED
    BY <1>8, <2>1, <2>2
<1>10. ASSUME NEW j PROVE In(j, r) <=> In(j, s) \/ j \in i .. (i + m - 1)
  <2>1. In(j, r) => In(j, s) \/ j \in i .. (i + m - 1)
    BY <1>1, <1>6, <1>8 DEF In
  <2>2. ASSUME NEW l \in 1 .. n, s[l] = j PROVE In(j, r)
    <3>1. m + l \in 1 .. (m + n) /\ r[m + l] = j
      BY <1>6, <2>2
    <3> QED
      BY <1>6, <3>1 DEF In
  <2>3. ASSUME j \in i .. (i + m - 1) PROVE In(j, r)
    <3>1. j - i + 1 \in 1 .. m /\ i + (j - i + 1) - 1 = j
      BY <2>3
    <3>2. j - i + 1 \in 1 .. (m + n)
      BY <3>1
    <3>3. r[j - i + 1] = j
      BY <1>6, <3>1
    <3> QED
      BY <1>6, <3>2, <3>3 DEF In
  <2> QED
    BY <1>1, <2>1, <2>2, <2>3 DEF In
<1>11. r # <<>> /\ r[1] = i
  BY <1>6
<1>12. ASSUME NEW k \in 1 .. (m + n)
       PROVE  nx[r[k]] = IF k = m + n THEN NULL ELSE r[k + 1]
  <2>1. CASE k \in 1 .. m /\ r[k] = i + k - 1 /\ r[k] \in i .. (i + m - 1) /\ k # m
    <3>1. r[k] # i + m - 1 /\ k + 1 \in 1 .. m /\ k # m + n /\ r[k] + 1 = i + (k + 1) - 1
      BY <2>1
    <3>2. nx[r[k]] = r[k] + 1
      BY <2>1, <3>1
    <3>3. r[k + 1] = i + (k + 1) - 1
      BY <1>6, <3>1
    <3> QED
      BY <3>1, <3>2, <3>3
  <2>2. CASE k = m
    <3>1. r[k] = i + m - 1 /\ i + m - 1 \in i .. (i + m - 1)
      BY <1>6, <2>2
    <3>2. nx[r[k]] = h
      BY <3>1
    <3>3. CASE n = 0
      BY <1>7, <2>2, <3>2, <3>3
    <3>4. CASE n # 0
      <4>1. 1 \in 1 .. n /\ k # m + n /\ r[m + 1] = s[1]
        BY <1>6, <2>2, <3>4
      <4> QED
        BY <1>7, <2>2, <3>2, <3>4, <4>1
    <3> QED
      BY <3>3, <3>4
  <2>3. CASE \E l \in 1 .. n : k = m + l /\ r[k] = s[l]
    <3>1. PICK l \in 1 .. n : k = m + l /\ r[k] = s[l]
      BY <2>3
    <3>2. nx[r[k]] = IF l = n THEN NULL ELSE s[l + 1]
      BY <1>7, <3>1
    <3>3. (k = m + n <=> l = n) /\ (l # n => l + 1 \in 1 .. n) /\ m + (l + 1) = k + 1
      BY <3>1
    <3>4. l # n => r[k + 1] = s[l + 1]
      BY <1>6, <3>3
    <3> QED
      BY <3>2, <3>3, <3>4
  <2> QED
    BY <1>8, <2>1, <2>2, <2>3
<1>13. Linked(nx, r, i)
  BY <1>6, <1>11, <1>12 DEF Linked
<1> QED
  BY <1>4, <1>6, <1>9, <1>10, <1>13

-----------------------------------------------------------------------------
(* The inductive invariant.                                                *)

OnList(o) == <<"list", o>>
WithPusher(t) == <<"pusher", t>>
WithPopper(q) == <<"popper", q>>
NotMalloced == <<"none", NULL>>

Places ==
  {OnList(o) : o \in Lists} \cup {WithPusher(t) : t \in Pushers}
  \cup {WithPopper(q) : q \in Queues} \cup {NotMalloced}

LEMMA PlacesDiffer ==
  /\ \A o, p : OnList(o) = OnList(p) => o = p
  /\ \A o, p : WithPusher(o) = WithPusher(p) => o = p
  /\ \A o, p : WithPopper(o) = WithPopper(p) => o = p
  /\ \A o, p : /\ OnList(o) # WithPusher(p) /\ OnList(o) # WithPopper(p)
               /\ WithPusher(o) # WithPopper(p) /\ OnList(o) # NotMalloced
               /\ WithPusher(o) # NotMalloced /\ WithPopper(o) # NotMalloced
BY DEF OnList, WithPusher, WithPopper, NotMalloced

(* ls are the lists behind the pointers. *)
ListsAre(ls) ==
  /\ ls \in [Lists -> Seq(Items)]
  /\ \A o \in Lists : Linked(next, ls[o], First(o)) /\ Distinct(ls[o])
  /\ \A q \in Queues : tail[q] = LastOf(ls[q])

(* w[i] is the place of item i. *)
IsAt(ls, i, pl) ==
  /\ pl \in Places
  /\ \A o \in Lists : In(i, ls[o]) <=> pl = OnList(o)
  /\ \A t \in Pushers : i \in Owned(t) <=> pl = WithPusher(t)
  /\ \A q \in Queues : i \in Popped(q) <=> pl = WithPopper(q)
  /\ chunks * ChunkLen < i <=> pl = NotMalloced

Placed(ls, w) == ListsAre(ls) /\ \A i \in Items : IsAt(ls, i, w[i])

Inductive == TypeOK /\ HandsAgree /\ \E ls, w : Placed(ls, w)

(* What a thread is about to do still agrees with the links when its items *)
(* are as they were.                                                       *)
LEMMA HandKept ==
  ASSUME TypeOK, NEW t \in Pushers, PushHandAgrees(t), pusher'[t] = pusher[t],
         \A i \in Owned(t) \cap Items : next'[i] = next[i] /\ data'[i] = data[i]
  PROVE  PushHandAgrees(t)'
<1> DEFINE p == pusher[t]
<1>1. p.item # NULL => p.item \in Items
  BY DEF TypeOK, Link
<1>2. p.pc = "share" => p.item # NULL /\ p.item + ChunkLen - 1 \in Items
                        /\ Owned(t) = p.item .. (p.item + ChunkLen - 1)
  BY DEF PushHandAgrees, Owned, At
<1>3. p.pc = "link" => p.item # NULL /\ p.item \in Owned(t)
  BY DEF PushHandAgrees, Owned, At
<1>4. ASSUME p.pc = "share", NEW i \in Items, p.item < i, i < p.item + ChunkLen - 1
      PROVE  next'[i] = i + 1
  <2>1. p.item .. (p.item + ChunkLen - 1) = Owned(t) /\ p.item \in Items
    BY <1>1, <1>2, <1>4
  <2>2. i \in p.item .. (p.item + ChunkLen - 1)
    <3> HIDE DEF p
    <3> QED
      BY <1>4, <2>1, Sizes
  <2>3. i \in Owned(t)
    BY <2>1, <2>2
  <2> QED
    BY <1>4, <2>3 DEF PushHandAgrees
<1>5. ASSUME p.pc = "link" PROVE next'[p.item] = NULL /\ data'[p.item] = p.value
  <2>1. p.item \in Owned(t) \cap Items
    BY <1>1, <1>3, <1>5
  <2> QED
    BY <1>5, <2>1 DEF PushHandAgrees
<1>6. pusher'[t] = p
  OBVIOUS
<1>7. /\ p.item # NULL <=> p.pc \in {"share", "fill", "link"}
      /\ p.pc # "idle" => p.queue \in Queues /\ p.value \in Values
      /\ p.pc = "share" => p.item + ChunkLen - 1 \in Items
  BY DEF PushHandAgrees
<1> HIDE DEF p
<1> QED
  BY <1>4, <1>5, <1>6, <1>7 DEF PushHandAgrees

(* When nothing moves, the places are the same. *)
LEMMA NothingMoves ==
  ASSUME NEW ls, NEW w, Placed(ls, w),
         UNCHANGED <<next, chunks, free_item_list, head, tail>>,
         \A t \in Pushers : Owned(t)' = Owned(t),
         \A q \in Queues : Popped(q)' = Popped(q)
  PROVE  Placed(ls, w)'
<1>1. \A o : First(o)' = First(o)
  BY DEF First
<1>2. ListsAre(ls)'
  BY <1>1 DEF ListsAre, Placed
<1>3. ASSUME NEW i \in Items PROVE IsAt(ls, i, w[i])'
  BY DEF IsAt, Placed
<1> QED
  BY <1>2, <1>3 DEF Placed

LEMMA InitHolds ==
  ASSUME Init
  PROVE  TypeOK /\ HandsAgree /\ Placed([o \in Lists |-> <<>>], [i \in Items |-> NotMalloced])
<1>1. TypeOK
  <2>1. 0 \in 0 .. MaxChunks
    BY Sizes
  <2> QED
    BY <2>1 DEF Init, TypeOK, IdlePusher, IdlePopper, Link
<1>2. HandsAgree
  BY DEF Init, HandsAgree, PushHandAgrees, IdlePusher, IdlePopper
<1>3. PICK ls : ls = [o \in Lists |-> <<>>]
  OBVIOUS
<1>4. PICK w : w = [i \in Items |-> NotMalloced]
  OBVIOUS
<1>5. ASSUME NEW o \in Lists PROVE First(o) = NULL
  BY <1>5 DEF Init, First, Lists
<1>6. \A o \in Lists : ls[o] = <<>> /\ Linked(next, ls[o], First(o)) /\ Distinct(ls[o])
                       /\ \A i : ~ In(i, ls[o])
  BY <1>3, <1>5 DEF Linked, Distinct, In
<1>7. ListsAre(ls)
  <2>1. \A q \in Queues : tail[q] = NULL /\ q \in Lists
    BY DEF Init, Lists
  <2> QED
    BY <1>3, <1>6, <2>1 DEF ListsAre, LastOf
<1>8. ASSUME NEW i \in Items PROVE IsAt(ls, i, w[i])
  <2>1. w[i] = NotMalloced
    BY <1>4
  <2>2. chunks * ChunkLen < i
    BY Sizes DEF Init
  <2>3. \A t \in Pushers : Owned(t) = {}
    BY DEF Init, Owned, IdlePusher
  <2>4. \A q \in Queues : Popped(q) = {}
    BY DEF Init, Popped, IdlePopper
  <2> QED
    BY <1>6, <2>1, <2>2, <2>3, <2>4, PlacesDiffer DEF IsAt, Places
<1> QED
  BY <1>1, <1>2, <1>3, <1>4, <1>7, <1>8 DEF Placed

(* What a thread that pushes has when it has no item, or one of its own. *)
LEMMA OwnedIs ==
  ASSUME NEW t, PushHandAgrees(t)
  PROVE  /\ pusher[t].pc \notin {"share", "fill", "link"} => Owned(t) = {}
         /\ pusher[t].pc \in {"fill", "link"} => Owned(t) = {pusher[t].item}
         /\ pusher[t].pc = "share" =>
              Owned(t) = pusher[t].item .. (pusher[t].item + ChunkLen - 1)
BY DEF Owned, At, PushHandAgrees

(* The steps that move no item. *)
Quiet ==
  \/ \E t \in Pushers : \/ \E q \in Queues, v \in Values : CallPush(t, q, v)
                        \/ LookAtFreeList(t)
                        \/ TakeItem(t) /\ free_item_list = NULL
  \/ \E q \in Queues : Wait(q) \/ ReadData(q)
  \/ UNCHANGED vars

LEMMA QuietPush ==
  ASSUME TypeOK, HandsAgree, NEW ls, NEW w, Placed(ls, w), NEW t \in Pushers,
         NEW r \in {IdlePusher} \cup
           [pc : {"look", "take", "malloc"}, queue : Queues, value : Values, item : {NULL}],
         pusher[t].pc \in {"idle", "look", "take", "malloc"},
         pusher' = [pusher EXCEPT ![t] = r],
         UNCHANGED <<next, data, chunks, free_item_list, head, tail, popper, returned>>,
         pushed' \subseteq Values
  PROVE  TypeOK' /\ HandsAgree' /\ Placed(ls, w)'
<1>1. r \in [pc : {"idle", "look", "take", "malloc", "share", "fill", "link"},
             queue : Queues \cup {NULL}, value : Values \cup {NULL}, item : Link]
  BY DEF IdlePusher, Link
<1>2. TypeOK'
  BY <1>1 DEF TypeOK
<1>3. pusher'[t] = r /\ \A u \in Pushers : u # t => pusher'[u] = pusher[u]
  BY DEF TypeOK
<1>4. PushHandAgrees(t)'
  BY <1>3 DEF PushHandAgrees, IdlePusher
<1>5. \A u \in Pushers : PushHandAgrees(u)'
  BY <1>3, <1>4, HandKept DEF HandsAgree
<1>6. HandsAgree'
  BY <1>5 DEF HandsAgree
<1>7. Owned(t) = {}
  BY OwnedIs DEF HandsAgree
<1>8. Owned(t)' = {}
  BY <1>3 DEF Owned, IdlePusher
<1>9. ASSUME NEW u \in Pushers PROVE Owned(u)' = Owned(u)
  <2>1. CASE u = t
    BY <1>7, <1>8, <2>1
  <2>2. CASE u # t
    BY <1>3, <2>2 DEF Owned, At
  <2> QED
    BY <2>1, <2>2
<1>10. \A q \in Queues : Popped(q)' = Popped(q)
  BY DEF Popped
<1> QED
  BY <1>2, <1>6, <1>9, <1>10, NothingMoves

LEMMA QuietPop ==
  ASSUME TypeOK, HandsAgree, NEW ls, NEW w, Placed(ls, w), NEW q \in Queues,
         NEW r \in [pc : {"idle", "wait", "read"}, item : Link, value : Values \cup {NULL}],
         r.pc = "read" => r.item # NULL,
         Popped(q) = {}, popper' = [popper EXCEPT ![q] = r],
         UNCHANGED <<next, data, chunks, free_item_list, head, tail, pusher, pushed>>,
         returned' \in
           [Queues -> Seq([unlinked : Values \cup {NULL}, got : Values \cup {NULL}])]
  PROVE  TypeOK' /\ HandsAgree' /\ Placed(ls, w)'
<1>1. TypeOK'
  BY DEF TypeOK
<1>2. popper'[q] = r /\ \A p \in Queues : p # q => popper'[p] = popper[p]
  BY DEF TypeOK
<1>3. \A u \in Pushers : PushHandAgrees(u)'
  BY HandKept DEF HandsAgree
<1>4. HandsAgree'
  BY <1>2, <1>3 DEF HandsAgree
<1>5. Popped(q)' = {}
  BY <1>2 DEF Popped
<1>6. \A p \in Queues : Popped(p)' = Popped(p)
  BY <1>2, <1>5 DEF Popped
<1>7. \A u \in Pushers : Owned(u)' = Owned(u)
  BY DEF Owned, At
<1> QED
  BY <1>1, <1>4, <1>6, <1>7, NothingMoves

LEMMA QuietHolds ==
  ASSUME TypeOK, HandsAgree, NEW ls, NEW w, Placed(ls, w), Quiet
  PROVE  TypeOK' /\ HandsAgree' /\ Placed(ls, w)'
<1>1. ASSUME NEW t \in Pushers, NEW q \in Queues, NEW v \in Values, CallPush(t, q, v)
      PROVE  TypeOK' /\ HandsAgree' /\ Placed(ls, w)'
  <2>1. PICK r : r = [pc |-> "look", queue |-> q, value |-> v, item |-> NULL]
    OBVIOUS
  <2>2. r \in [pc : {"look", "take", "malloc"}, queue : Queues, value : Values, item : {NULL}]
    BY <2>1
  <2>3. pusher[t].pc = "idle" /\ pushed' \subseteq Values /\ pusher' = [pusher EXCEPT ![t] = r]
    BY <1>1, <2>1 DEF CallPush, At, TypeOK
  <2>4. UNCHANGED <<next, data, chunks, free_item_list, head, tail, popper, returned>>
    BY <1>1 DEF CallPush
  <2> QED
    BY <2>2, <2>3, <2>4, QuietPush
<1>2. ASSUME NEW t \in Pushers, NEW pc \in {"take", "malloc"}, Goto(t, pc),
             pusher[t].pc \in {"look", "take"},
             UNCHANGED <<next, data, chunks, free_item_list, head, tail, pushed,
                         popper, returned>>
      PROVE  TypeOK' /\ HandsAgree' /\ Placed(ls, w)'
  <2>1. PICK r : r = [pusher[t] EXCEPT !.pc = pc]
    OBVIOUS
  <2>2. /\ pusher[t].item = NULL
        /\ pusher[t].queue \in Queues /\ pusher[t].value \in Values
    BY <1>2 DEF HandsAgree, PushHandAgrees
  <2>3. r \in [pc : {"look", "take", "malloc"}, queue : Queues, value : Values, item : {NULL}]
    <3>1. pusher[t] \in
            [pc : {"idle", "look", "take", "malloc", "share", "fill", "link"},
             queue : Queues \cup {NULL}, value : Values \cup {NULL}, item : Link]
      BY DEF TypeOK
    <3>2. r = [pc |-> pc, queue |-> pusher[t].queue, value |-> pusher[t].value,
               item |-> pusher[t].item]
      BY <2>1, <3>1
    <3> QED
      BY <2>2, <3>2
  <2>4. pusher' = [pusher EXCEPT ![t] = r] /\ pushed' \subseteq Values
    BY <1>2, <2>1 DEF Goto, TypeOK
  <2> QED
    BY <1>2, <2>3, <2>4, QuietPush
<1>3. ASSUME NEW t \in Pushers, LookAtFreeList(t)
      PROVE  TypeOK' /\ HandsAgree' /\ Placed(ls, w)'
  BY <1>2, <1>3 DEF LookAtFreeList, At
<1>4. ASSUME NEW t \in Pushers, TakeItem(t), free_item_list = NULL
      PROVE  TypeOK' /\ HandsAgree' /\ Placed(ls, w)'
  BY <1>2, <1>4 DEF TakeItem, At
<1>5. ASSUME NEW q \in Queues, Wait(q) PROVE TypeOK' /\ HandsAgree' /\ Placed(ls, w)'
  <2>1. PICK r : r = [popper[q] EXCEPT !.pc = "wait"]
    OBVIOUS
  <2>2. r \in [pc : {"idle", "wait", "read"}, item : Link, value : Values \cup {NULL}]
        /\ r.pc = "wait"
    BY <2>1 DEF TypeOK
  <2>3. popper' = [popper EXCEPT ![q] = r] /\ Popped(q) = {}
    BY <1>5, <2>1 DEF Wait, TypeOK, Popped
  <2>4. /\ UNCHANGED <<next, data, chunks, free_item_list, head, tail, pusher, pushed>>
        /\ returned' = returned
    BY <1>5 DEF Wait
  <2> QED
    BY <2>2, <2>3, <2>4, QuietPop DEF TypeOK
<1>6. ASSUME NEW q \in Queues, ReadData(q) PROVE TypeOK' /\ HandsAgree' /\ Placed(ls, w)'
  <2>1. PICK r : r = IdlePopper
    OBVIOUS
  <2>2. r \in [pc : {"idle", "wait", "read"}, item : Link, value : Values \cup {NULL}]
        /\ r.pc = "idle"
    BY <2>1 DEF IdlePopper, Link
  <2>3. popper' = [popper EXCEPT ![q] = r] /\ Popped(q) = {}
    BY <1>6, <2>1 DEF ReadData, Popped
  <2>4. /\ UNCHANGED <<next, data, chunks, free_item_list, head, tail, pusher, pushed>>
        /\ popper[q].pc = "read"
        /\ returned' = [returned EXCEPT ![q] = Append(@,
             [unlinked |-> popper[q].value, got |-> data[popper[q].item]])]
    BY <1>6 DEF ReadData
  <2>5. popper[q].item \in Items /\ popper[q].value \in Values \cup {NULL}
    BY <2>4 DEF HandsAgree, TypeOK, Link
  <2>6. PICK e \in [unlinked : Values \cup {NULL}, got : Values \cup {NULL}] :
          e = [unlinked |-> popper[q].value, got |-> data[popper[q].item]]
    BY <2>5 DEF TypeOK
  <2>7. returned' = [returned EXCEPT ![q] = Append(returned[q], e)]
    BY <2>4, <2>6 DEF TypeOK
  <2>8. returned' \in
          [Queues -> Seq([unlinked : Values \cup {NULL}, got : Values \cup {NULL}])]
    <3> DEFINE R == [unlinked : Values \cup {NULL}, got : Values \cup {NULL}]
    <3>1. returned \in [Queues -> Seq(R)] /\ e \in R
      BY DEF TypeOK
    <3> HIDE DEF R
    <3>2. Append(returned[q], e) \in Seq(R)
      BY <3>1
    <3>3. returned' \in [Queues -> Seq(R)]
      BY <2>7, <3>1, <3>2
    <3> QED
      BY <3>3 DEF R
  <2> QED
    BY <2>2, <2>3, <2>4, <2>8, QuietPop
<1>7. ASSUME UNCHANGED vars PROVE TypeOK' /\ HandsAgree' /\ Placed(ls, w)'
  <2>1. TypeOK'
    BY <1>7 DEF vars, TypeOK
  <2>2. \A u \in Pushers : PushHandAgrees(u)'
    BY <1>7, HandKept DEF vars, HandsAgree
  <2>3. HandsAgree'
    BY <1>7, <2>2 DEF vars, HandsAgree
  <2>4. Placed(ls, w)'
    <3>1. \A u \in Pushers : Owned(u)' = Owned(u)
      BY <1>7 DEF vars, Owned, At
    <3>2. \A q \in Queues : Popped(q)' = Popped(q)
      BY <1>7 DEF vars, Popped
    <3> QED
      BY <1>7, <3>1, <3>2, NothingMoves DEF vars
  <2> QED
    BY <2>1, <2>3, <2>4
<1> QED
  BY <1>1, <1>3, <1>4, <1>5, <1>6, <1>7 DEF Quiet

-----------------------------------------------------------------------------
(* The steps that move items.                                              *)

PusherStates ==
  [pc : {"idle", "look", "take", "malloc", "share", "fill", "link"},
   queue : Queues \cup {NULL}, value : Values \cup {NULL}, item : Link]

LEMMA TypeOKIs == ASSUME TypeOK PROVE pusher \in [Pushers -> PusherStates]
BY DEF TypeOK, PusherStates

(* An item has one place. *)
LEMMA Apart ==
  ASSUME NEW ls, NEW w, Placed(ls, w), NEW i \in Items
  PROVE  /\ \A o, p \in Lists : In(i, ls[o]) /\ In(i, ls[p]) => o = p
         /\ \A t, u \in Pushers : i \in Owned(t) /\ i \in Owned(u) => t = u
         /\ \A p, q \in Queues : i \in Popped(p) /\ i \in Popped(q) => p = q
         /\ \A o \in Lists : \A t \in Pushers : ~ (In(i, ls[o]) /\ i \in Owned(t))
         /\ \A o \in Lists : \A q \in Queues : ~ (In(i, ls[o]) /\ i \in Popped(q))
         /\ \A t \in Pushers : \A q \in Queues : ~ (i \in Owned(t) /\ i \in Popped(q))
         /\ chunks * ChunkLen < i =>
              /\ \A o \in Lists : ~ In(i, ls[o])
              /\ \A t \in Pushers : i \notin Owned(t)
              /\ \A q \in Queues : i \notin Popped(q)
<1>1. IsAt(ls, i, w[i])
  BY DEF Placed
<1>2. PICK pl : pl = w[i]
  OBVIOUS
<1> QED
  BY <1>1, <1>2, PlacesDiffer DEF IsAt

(* Item i goes to place b if it is one of S, and else stays. *)
Moved(ls, rs, S, b, i) ==
  /\ \A o \in Lists : In(i, rs[o]) <=> IF i \in S THEN b = OnList(o) ELSE In(i, ls[o])
  /\ \A t \in Pushers :
       (i \in Owned(t))' <=> IF i \in S THEN b = WithPusher(t) ELSE i \in Owned(t)
  /\ \A q \in Queues :
       (i \in Popped(q))' <=> IF i \in S THEN b = WithPopper(q) ELSE i \in Popped(q)
  /\ (chunks * ChunkLen < i)' <=>
       IF i \in S THEN b = NotMalloced ELSE chunks * ChunkLen < i

LEMMA Moves ==
  ASSUME NEW ls, NEW w, Placed(ls, w), NEW rs, ListsAre(rs)',
         NEW S, NEW b \in Places, \A i \in Items : Moved(ls, rs, S, b, i)
  PROVE  \E v : Placed(rs, v)'
<1>1. PICK v : v = [i \in Items |-> IF i \in S THEN b ELSE w[i]]
  OBVIOUS
<1>2. ASSUME NEW i \in Items PROVE IsAt(rs, i, v[i])'
  <2>1. CASE i \in S
    BY <1>1, <2>1 DEF IsAt, Moved
  <2>2. CASE i \notin S
    <3>1. v[i] = w[i] /\ IsAt(ls, i, w[i])
      BY <1>1, <2>2 DEF Placed
    <3> QED
      BY <2>2, <3>1 DEF IsAt, Moved
  <2> QED
    BY <2>1, <2>2
<1> QED
  BY <1>2 DEF Placed

(* A list whose items keep their links is still a list. *)
LEMMA ListKept ==
  ASSUME NEW ls, ListsAre(ls), NEW o \in Lists, First(o)' = First(o),
         \A i : In(i, ls[o]) => next'[i] = next[i]
  PROVE  ls[o] \in Seq(Items) /\ Linked(next', ls[o], First(o)') /\ Distinct(ls[o])
BY FrameLinked DEF ListsAre

LEMMA TakeHolds ==
  ASSUME TypeOK, HandsAgree, NEW ls, NEW w, Placed(ls, w),
         NEW t \in Pushers, TakeItem(t), free_item_list # NULL
  PROVE  /\ TypeOK' /\ HandsAgree'
         /\ \E rs, v : Placed(rs, v)' /\ \A q \in Queues : rs[q] = ls[q]
<1> DEFINE f == free_item_list
           r == [pusher[t] EXCEPT !.pc = "fill", !.item = f]
<1>1. /\ pusher[t].pc = "take" /\ f \in Items /\ free_item_list' = next[f]
      /\ pusher' = [pusher EXCEPT ![t].pc = "fill", ![t].item = f]
      /\ UNCHANGED <<next, data, chunks, head, tail, pushed, popper, returned>>
  BY DEF TakeItem, At, Advanced, TypeOK, Link
<1>2. /\ pusher'[t] = r /\ \A u \in Pushers : u # t => pusher'[u] = pusher[u]
      /\ r.pc = "fill" /\ r.item = f /\ r.queue \in Queues /\ r.value \in Values
  BY <1>1 DEF TypeOK, HandsAgree, PushHandAgrees
<1>3. TypeOK'
  <2>1. pusher[t] \in PusherStates
    BY TypeOKIs
  <2>2. r \in PusherStates
    BY <1>1, <2>1 DEF PusherStates, Link
  <2>3. pusher' = [pusher EXCEPT ![t] = r]
    BY <1>1, TypeOKIs
  <2> HIDE DEF r
  <2>4. pusher' \in [Pushers -> PusherStates]
    BY <2>2, <2>3, TypeOKIs
  <2>5. free_item_list' \in Link
    BY <1>1 DEF TypeOK
  <2> QED
    BY <1>1, <2>4, <2>5 DEF TypeOK, PusherStates
<1> HIDE DEF r
<1>4. PushHandAgrees(t)'
  BY <1>1, <1>2, Sizes DEF PushHandAgrees
<1>5. \A u \in Pushers : PushHandAgrees(u)'
  BY <1>1, <1>2, <1>4, HandKept DEF HandsAgree
<1>6. HandsAgree'
  BY <1>1, <1>5 DEF HandsAgree
<1>7. PICK s \in Seq(Items) :
        s = ls[NULL] /\ Linked(next, s, f) /\ Distinct(s) /\ NULL \in Lists /\ s # <<>>
  BY <1>1, Sizes DEF Placed, ListsAre, First, Lists, Linked
<1>8. PICK rs : rs = [o \in Lists |-> IF o = NULL THEN Tail(s) ELSE ls[o]]
  OBVIOUS
<1>9. /\ f = s[1] /\ Tail(s) \in Seq(Items) /\ Linked(next, Tail(s), next[f])
      /\ Distinct(Tail(s)) /\ \A i : In(i, Tail(s)) <=> In(i, s) /\ i # f
  BY <1>7, TailLinked, TailHolds
<1>10. ListsAre(rs)'
  <2>1. ASSUME NEW o \in Lists
        PROVE  rs[o] \in Seq(Items) /\ Linked(next', rs[o], First(o)') /\ Distinct(rs[o])
    <3>1. CASE o = NULL
      BY <1>1, <1>8, <1>9, <3>1 DEF First
    <3>2. CASE o # NULL
      <4>1. First(o)' = First(o) /\ rs[o] = ls[o]
        BY <1>1, <1>8, <3>2 DEF First
      <4> QED
        BY <1>1, <4>1, ListKept DEF Placed
    <3> QED
      BY <3>1, <3>2
  <2>2. \A q \in Queues : tail'[q] = LastOf(rs[q])
    BY <1>1, <1>8, Sizes DEF Placed, ListsAre, Lists
  <2> QED
    BY <1>8, <2>1, <2>2 DEF ListsAre
<1>11. PICK b \in Places : b = WithPusher(t)
  BY DEF Places
<1>12. In(f, s)
  <2>1. 1 \in 1 .. Len(s)
    BY <1>7
  <2> QED
    BY <1>9, <2>1 DEF In
<1>13. Owned(t) = {} /\ Owned(t)' = {f}
  BY <1>1, <1>2, Sizes, OwnedIs DEF Owned, At, HandsAgree
<1>14. PICK S : S = {f}
  OBVIOUS
<1>15. ASSUME NEW i \in Items PROVE Moved(ls, rs, S, b, i)
  <2>1. ASSUME NEW o \in Lists
        PROVE  In(i, rs[o]) <=> IF i \in {f} THEN b = OnList(o) ELSE In(i, ls[o])
    <3>1. b # OnList(o)
      BY <1>11, PlacesDiffer
    <3>2. In(f, ls[o]) => o = NULL
      BY <1>1, <1>7, <1>12, Apart
    <3> QED
      BY <1>7, <1>8, <1>9, <3>1, <3>2
  <2>2. ASSUME NEW u \in Pushers
        PROVE (i \in Owned(u))' <=> IF i \in {f} THEN b = WithPusher(u) ELSE i \in Owned(u)
    <3>1. b = WithPusher(u) <=> u = t
      BY <1>11, PlacesDiffer
    <3>2. f \notin Owned(u)
      BY <1>1, <1>7, <1>12, Apart
    <3>3. u # t => Owned(u)' = Owned(u)
      BY <1>2 DEF Owned, At
    <3> QED
      BY <1>13, <3>1, <3>2, <3>3
  <2>3. ASSUME NEW q \in Queues
        PROVE (i \in Popped(q))' <=> IF i \in {f} THEN b = WithPopper(q) ELSE i \in Popped(q)
    <3>1. b # WithPopper(q) /\ Popped(q)' = Popped(q)
      BY <1>1, <1>11, PlacesDiffer DEF Popped
    <3>2. f \notin Popped(q)
      BY <1>1, <1>7, <1>12, Apart
    <3> QED
      BY <3>1, <3>2
  <2>4. /\ b # NotMalloced /\ ~ (chunks * ChunkLen < f)
        /\ (chunks * ChunkLen < i)' <=> chunks * ChunkLen < i
    BY <1>1, <1>7, <1>11, <1>12, PlacesDiffer, Apart
  <2> QED
    BY <1>14, <2>1, <2>2, <2>3, <2>4 DEF Moved
<1>16. \E v : Placed(rs, v)'
  BY <1>10, <1>15, Moves
<1>17. \A q \in Queues : rs[q] = ls[q]
  BY <1>8, Sizes DEF Lists
<1> QED
  BY <1>3, <1>6, <1>16, <1>17

(* The next chunk lies behind those allocated, within the items. *)
LEMMA ChunkFits ==
  ASSUME NEW c \in Nat, c < MaxChunks
  PROVE  /\ c * ChunkLen \in Nat /\ (c + 1) * ChunkLen = c * ChunkLen + ChunkLen
         /\ (c + 1) * ChunkLen <= NItems
<1>1. PICK d \in Nat : MaxChunks = (c + 1) + d
  <2>1. MaxChunks - (c + 1) \in Nat /\ MaxChunks = (c + 1) + (MaxChunks - (c + 1))
    BY Sizes
  <2> QED
    BY <2>1
<1>2. ChunkLen \in Nat
  BY Sizes
<1>3. c * ChunkLen \in Nat /\ d * ChunkLen \in Nat
  BY <1>2
<1>4. (c + 1) * ChunkLen = c * ChunkLen + ChunkLen
  BY <1>2
<1>5. NItems = ((c + 1) + d) * ChunkLen
  BY <1>1, <1>2 DEF NItems
<1>6. ((c + 1) + d) * ChunkLen = (c + 1) * ChunkLen + d * ChunkLen
  BY <1>2
<1> QED
  BY <1>2, <1>3, <1>4, <1>5, <1>6

LEMMA MallocHolds ==
  ASSUME TypeOK, HandsAgree, NEW ls, NEW w, Placed(ls, w), NEW t \in Pushers, Malloc(t)
  PROVE  /\ TypeOK' /\ HandsAgree' /\ \E v : Placed(ls, v)'
<1>1. PICK n \in Nat, f \in Nat, e \in Nat :
        n = chunks * ChunkLen /\ f = n + 1 /\ e = f + ChunkLen - 1
  <2>1. chunks \in Nat /\ chunks < MaxChunks
    BY Sizes DEF Malloc, TypeOK
  <2>2. chunks * ChunkLen \in Nat
    BY <2>1, ChunkFits
  <2> QED
    BY <2>2, Sizes
<1>2. e <= NItems /\ chunks' * ChunkLen = e /\ chunks' \in 0 .. MaxChunks /\ e = n + ChunkLen
  <2>1. chunks \in Nat /\ chunks < MaxChunks /\ chunks' = chunks + 1
    BY Sizes DEF Malloc, TypeOK
  <2>2. /\ (chunks + 1) * ChunkLen = chunks * ChunkLen + ChunkLen
        /\ (chunks + 1) * ChunkLen <= NItems
    BY <2>1, ChunkFits
  <2>3. e = n + ChunkLen
    BY <1>1, Sizes
  <2> QED
    BY <1>1, <2>1, <2>2, <2>3, Sizes
<1>3. /\ pusher[t].pc = "malloc"
      /\ next' = [i \in Items |-> IF f < i /\ i < e THEN i + 1 ELSE next[i]]
      /\ pusher' = [pusher EXCEPT ![t].pc = "share", ![t].item = f]
      /\ UNCHANGED <<data, free_item_list, head, tail, pushed, popper, returned>>
  BY <1>1 DEF Malloc, At
<1>4. f \in Items /\ e \in Items /\ f .. e \subseteq Items
  <2>1. 1 <= f /\ f <= e /\ e <= NItems /\ NItems \in Nat
    <3>1. ChunkLen \in Nat /\ ChunkLen >= 2 /\ NItems \in Nat
      BY Sizes
    <3> QED
      BY <1>1, <1>2, <3>1
  <2>2. Items = 1 .. NItems
    BY Sizes
  <2> QED
    BY <2>1, <2>2
<1> DEFINE r == [pusher[t] EXCEPT !.pc = "share", !.item = f]
<1>5. /\ pusher'[t] = r /\ \A u \in Pushers : u # t => pusher'[u] = pusher[u]
      /\ r.pc = "share" /\ r.item = f /\ r.queue \in Queues /\ r.value \in Values
  BY <1>3 DEF TypeOK, HandsAgree, PushHandAgrees
<1>6. TypeOK'
  <2>1. pusher[t] \in PusherStates
    BY TypeOKIs
  <2>2. r \in PusherStates
    BY <1>4, <2>1 DEF PusherStates, Link
  <2>3. pusher' = [pusher EXCEPT ![t] = r]
    BY <1>3, TypeOKIs
  <2> HIDE DEF r
  <2>4. pusher' \in [Pushers -> PusherStates]
    BY <2>2, <2>3, TypeOKIs
  <2>5. next' \in [Items -> Link]
    <3>1. \A i \in Items : f < i /\ i < e => i + 1 \in Items
      BY <1>4, Sizes
    <3> QED
      BY <1>3, <3>1 DEF TypeOK, Link
  <2> QED
    BY <1>2, <1>3, <2>4, <2>5 DEF TypeOK, PusherStates
<1> HIDE DEF r
<1>7. \A i \in Items : ~ (n < i) => next'[i] = next[i]
  BY <1>1, <1>3, Sizes
<1>8. ASSUME NEW i \in Items, n < i
      PROVE  /\ \A o \in Lists : ~ In(i, ls[o])
             /\ \A u \in Pushers : i \notin Owned(u)
             /\ \A q \in Queues : i \notin Popped(q)
  BY <1>1, <1>8, Apart
<1>9. HandsAgree'
  <2>1. PushHandAgrees(t)'
    <3>1. r.item # NULL /\ r.item + ChunkLen - 1 = e
      BY <1>1, <1>4, <1>5, Sizes
    <3>2. \A i \in Items : f < i /\ i < e => next'[i] = i + 1
      BY <1>3
    <3> QED
      BY <1>4, <1>5, <3>1, <3>2 DEF PushHandAgrees
  <2>2. ASSUME NEW u \in Pushers, u # t PROVE PushHandAgrees(u)'
    BY <1>3, <1>5, <1>7, <1>8, <2>2, HandKept DEF HandsAgree
  <2> QED
    BY <1>3, <2>1, <2>2 DEF HandsAgree
<1>10. ListsAre(ls)'
  <2>1. ASSUME NEW o \in Lists
        PROVE  ls[o] \in Seq(Items) /\ Linked(next', ls[o], First(o)') /\ Distinct(ls[o])
    <3>1. \A i : In(i, ls[o]) => i \in Items
      BY DEF Placed, ListsAre, In
    <3>2. \A i : In(i, ls[o]) => next'[i] = next[i]
      BY <1>7, <1>8, <3>1
    <3>3. First(o)' = First(o)
      BY <1>3 DEF First
    <3> QED
      BY <3>2, <3>3, ListKept DEF Placed
  <2> QED
    BY <1>3, <2>1 DEF ListsAre, Placed
<1>11. PICK b \in Places : b = WithPusher(t)
  BY DEF Places
<1>12. Owned(t) = {} /\ Owned(t)' = f .. e
  <2>1. f # NULL /\ f .. e = f .. (f + ChunkLen - 1)
    BY <1>1, <1>4, Sizes
  <2>2. Owned(t)' = f .. (f + ChunkLen - 1)
    BY <1>5, <2>1 DEF Owned, At
  <2> QED
    BY <1>3, <2>1, <2>2, OwnedIs DEF HandsAgree
<1>13. PICK S : S = f .. e
  OBVIOUS
<1>14. \A i \in Items : i \in S => n < i
  BY <1>1, <1>13
<1>15. ASSUME NEW i \in Items PROVE Moved(ls, ls, S, b, i)
  <2>1. ASSUME NEW o \in Lists
        PROVE  In(i, ls[o]) <=> IF i \in S THEN b = OnList(o) ELSE In(i, ls[o])
    <3>1. b # OnList(o)
      BY <1>11, PlacesDiffer
    <3> QED
      BY <1>8, <1>14, <3>1
  <2>2. ASSUME NEW u \in Pushers
        PROVE  (i \in Owned(u))' <=> IF i \in S THEN b = WithPusher(u) ELSE i \in Owned(u)
    <3>1. b = WithPusher(u) <=> u = t
      BY <1>11, PlacesDiffer
    <3>2. u # t => Owned(u)' = Owned(u)
      BY <1>5 DEF Owned, At
    <3> QED
      BY <1>8, <1>12, <1>13, <1>14, <3>1, <3>2
  <2>3. ASSUME NEW q \in Queues
        PROVE  (i \in Popped(q))' <=> IF i \in S THEN b = WithPopper(q) ELSE i \in Popped(q)
    <3>1. b # WithPopper(q) /\ Popped(q)' = Popped(q)
      BY <1>3, <1>11, PlacesDiffer DEF Popped
    <3> QED
      BY <1>8, <1>14, <3>1
  <2>4. (chunks * ChunkLen < i)' <=>
          IF i \in S THEN b = NotMalloced ELSE chunks * ChunkLen < i
    <3>1. b # NotMalloced
      BY <1>11, PlacesDiffer
    <3>2. i \in S <=> n < i /\ ~ (e < i)
      BY <1>1, <1>13, Sizes
    <3>3. e < i => n < i
      BY <1>1, <1>2, Sizes
    <3> QED
      BY <1>1, <1>2, <3>1, <3>2, <3>3
  <2> QED
    BY <2>1, <2>2, <2>3, <2>4 DEF Moved
<1>16. \E v : Placed(ls, v)'
  BY <1>10, <1>15, Moves
<1> QED
  BY <1>6, <1>9, <1>16

LEMMA ShareHolds ==
  ASSUME TypeOK, HandsAgree, NEW ls, NEW w, Placed(ls, w), NEW t \in Pushers, ShareChunk(t)
  PROVE  /\ TypeOK' /\ HandsAgree'
         /\ \E rs, v : Placed(rs, v)' /\ \A q \in Queues : rs[q] = ls[q]
<1>1. PICK f \in Items, e \in Items : f = pusher[t].item /\ e = f + ChunkLen - 1
  <2>1. pusher[t].pc = "share"
    BY DEF ShareChunk, At
  <2>2. pusher[t].item # NULL /\ pusher[t].item + ChunkLen - 1 \in Items
    BY <2>1 DEF HandsAgree, PushHandAgrees
  <2>3. pusher[t].item \in Items
    BY <2>2 DEF TypeOK, Link
  <2> QED
    BY <2>2, <2>3
<1>2. /\ f \in Nat /\ e \in Nat /\ f + 1 <= e /\ f + 1 \in Items
      /\ f .. e \subseteq Items /\ f \in f .. e /\ e \in f .. e
  <2>1. Items = 1 .. NItems /\ ChunkLen \in Nat /\ ChunkLen >= 2 /\ NItems \in Nat
    BY Sizes
  <2> QED
    BY <1>1, <2>1
<1>3. /\ pusher[t].pc = "share" /\ free_item_list' = f + 1
      /\ next' = [next EXCEPT ![e] = free_item_list]
      /\ pusher' = [pusher EXCEPT ![t].pc = "fill"]
      /\ UNCHANGED <<data, chunks, head, tail, pushed, popper, returned>>
  BY <1>1 DEF ShareChunk, Behind, Goto, At
<1> DEFINE r == [pusher[t] EXCEPT !.pc = "fill"]
<1>4. /\ pusher'[t] = r /\ \A u \in Pushers : u # t => pusher'[u] = pusher[u]
      /\ r.pc = "fill" /\ r.item = f /\ r.queue \in Queues /\ r.value \in Values
  BY <1>1, <1>3 DEF TypeOK, HandsAgree, PushHandAgrees
<1>5. TypeOK'
  <2>1. pusher[t] \in PusherStates
    BY TypeOKIs
  <2>2. r \in PusherStates
    BY <2>1 DEF PusherStates
  <2>3. pusher' = [pusher EXCEPT ![t] = r]
    BY <1>3, TypeOKIs
  <2> HIDE DEF r
  <2>4. pusher' \in [Pushers -> PusherStates]
    BY <2>2, <2>3, TypeOKIs
  <2>5. next' \in [Items -> Link] /\ free_item_list' \in Link
    BY <1>2, <1>3 DEF TypeOK, Link
  <2> QED
    BY <1>3, <2>4, <2>5 DEF TypeOK, PusherStates
<1> HIDE DEF r
<1>6. /\ \A i \in Items : i # e => next'[i] = next[i]
      /\ next'[e] = free_item_list
      /\ \A i \in f .. e : i # f => next'[i] = IF i = e THEN free_item_list ELSE i + 1
  <2>1. \A i \in Items : i # e => next'[i] = next[i]
    BY <1>3 DEF TypeOK
  <2>2. next'[e] = free_item_list
    BY <1>3 DEF TypeOK
  <2>3. ASSUME NEW i \in f .. e, i # f, i # e PROVE next[i] = i + 1
    <3>1. i \in Items /\ f < i /\ i < e
      BY <1>2, <2>3
    <3> QED
      BY <1>1, <1>3, <3>1 DEF HandsAgree, PushHandAgrees
  <2> QED
    BY <1>2, <2>1, <2>2, <2>3
<1>7. Owned(t) = f .. e /\ Owned(t)' = {f}
  <2>1. Owned(t) = f .. e
    BY <1>1, <1>3, OwnedIs DEF HandsAgree
  <2>2. f # NULL
    BY Sizes
  <2> QED
    BY <1>4, <2>1, <2>2 DEF Owned, At
<1>8. ASSUME NEW i \in f .. e
      PROVE  /\ \A o \in Lists : ~ In(i, ls[o])
             /\ \A u \in Pushers : i \in Owned(u) => u = t
             /\ \A q \in Queues : i \notin Popped(q)
             /\ ~ (chunks * ChunkLen < i)
  BY <1>2, <1>7, Apart
<1>9. HandsAgree'
  <2>1. PushHandAgrees(t)'
    BY <1>4, Sizes DEF PushHandAgrees
  <2>2. ASSUME NEW u \in Pushers, u # t PROVE PushHandAgrees(u)'
    <3>1. e \notin Owned(u)
      BY <1>2, <1>8, <2>2
    <3>2. \A i \in Owned(u) \cap Items : next'[i] = next[i] /\ data'[i] = data[i]
      BY <1>3, <1>6, <3>1
    <3> QED
      BY <1>4, <2>2, <3>2, HandKept DEF HandsAgree
  <2> QED
    BY <1>3, <2>1, <2>2 DEF HandsAgree
<1>10. ASSUME NEW o \in Lists
       PROVE  /\ \A i : In(i, ls[o]) => i \in Items /\ i \notin f .. e
              /\ Linked(next', ls[o], First(o)) /\ Distinct(ls[o]) /\ ls[o] \in Seq(Items)
  <2>1. /\ \A i : In(i, ls[o]) => i \in Items
        /\ Linked(next, ls[o], First(o)) /\ Distinct(ls[o]) /\ ls[o] \in Seq(Items)
    BY DEF Placed, ListsAre, In
  <2>2. \A i : In(i, ls[o]) => i \notin f .. e
    BY <1>8
  <2>3. \A i : In(i, ls[o]) => next'[i] = next[i]
    BY <1>2, <1>6, <2>1, <2>2
  <2> QED
    BY <2>1, <2>2, <2>3, FrameLinked
<1>11. PICK s \in Seq(Items), g \in Nat, m \in Nat :
         /\ s = ls[NULL] /\ NULL \in Lists /\ Linked(next', s, free_item_list) /\ Distinct(s)
         /\ \A i : In(i, s) => i \notin f .. e
         /\ g = f + 1 /\ m = ChunkLen - 1 /\ m >= 1 /\ g + m - 1 = e
  <2>1. PICK s \in Seq(Items) :
         /\ s = ls[NULL] /\ NULL \in Lists /\ Linked(next', s, free_item_list) /\ Distinct(s)
         /\ \A i : In(i, s) => i \notin f .. e
    BY <1>10 DEF Lists, First
  <2>2. f + 1 \in Nat /\ ChunkLen - 1 \in Nat /\ ChunkLen - 1 >= 1
        /\ (f + 1) + (ChunkLen - 1) - 1 = e
    <3>1. ChunkLen \in Nat /\ ChunkLen >= 2
      BY Sizes
    <3>2. f \in Nat /\ e = f + ChunkLen - 1
      BY <1>1, <1>2
    <3> DEFINE l == ChunkLen
    <3>3. l \in Nat /\ l >= 2 /\ e = f + l - 1
      BY <3>1, <3>2
    <3> HIDE DEF l
    <3>4. f + 1 \in Nat /\ l - 1 \in Nat /\ l - 1 >= 1 /\ (f + 1) + (l - 1) - 1 = e
      BY <3>2, <3>3
    <3> QED
      BY <3>4 DEF l
  <2> QED
    BY <2>1, <2>2
<1>12. g .. e \subseteq f .. e /\ \A i \in f .. e : i \in g .. e <=> i # f
  BY <1>2, <1>11
<1>13. PICK c : /\ c = Chunk(g, m) \o s /\ c \in Seq(Items) /\ Distinct(c)
                /\ Linked(next', c, g) /\ \A j : In(j, c) <=> In(j, s) \/ j \in g .. e
  <2>1. g .. (g + m - 1) \subseteq Items
    BY <1>2, <1>11, <1>12
  <2>2. InFront(next', s, free_item_list, g, m)
    BY <1>6, <1>11, <1>12, <2>1 DEF InFront
  <2>3. /\ Chunk(g, m) \o s \in Seq(Items) /\ Distinct(Chunk(g, m) \o s)
        /\ Linked(next', Chunk(g, m) \o s, g)
        /\ \A j : In(j, Chunk(g, m) \o s) <=> In(j, s) \/ j \in g .. (g + m - 1)
    BY <1>11, <2>2, ChunkLinked
  <2> QED
    BY <1>11, <2>3
<1>14. PICK rs : rs = [o \in Lists |-> IF o = NULL THEN c ELSE ls[o]]
  OBVIOUS
<1>15. ListsAre(rs)'
  <2>1. ASSUME NEW o \in Lists
        PROVE  rs[o] \in Seq(Items) /\ Linked(next', rs[o], First(o)') /\ Distinct(rs[o])
    <3>1. CASE o = NULL
      BY <1>3, <1>11, <1>13, <1>14, <3>1 DEF First
    <3>2. CASE o # NULL
      <4>1. First(o)' = First(o) /\ rs[o] = ls[o]
        BY <1>3, <1>14, <3>2 DEF First
      <4> QED
        BY <1>10, <4>1
    <3> QED
      BY <3>1, <3>2
  <2>2. \A q \in Queues : tail'[q] = LastOf(rs[q])
    BY <1>3, <1>14, Sizes DEF Placed, ListsAre, Lists
  <2> QED
    BY <1>14, <2>1, <2>2 DEF ListsAre
<1>16. PICK b \in Places : b = OnList(NULL)
  BY DEF Places, Lists
<1>17. PICK S : S = g .. e
  OBVIOUS
<1>18. ASSUME NEW i \in Items PROVE Moved(ls, rs, S, b, i)
  <2>1. ASSUME NEW o \in Lists
        PROVE  In(i, rs[o]) <=> IF i \in S THEN b = OnList(o) ELSE In(i, ls[o])
    <3>1. b = OnList(o) <=> o = NULL
      BY <1>16, PlacesDiffer
    <3>2. i \in S => ~ In(i, ls[o])
      BY <1>8, <1>12, <1>17
    <3> QED
      BY <1>11, <1>13, <1>14, <1>17, <3>1, <3>2
  <2>2. ASSUME NEW u \in Pushers
        PROVE  (i \in Owned(u))' <=> IF i \in S THEN b = WithPusher(u) ELSE i \in Owned(u)
    <3>1. b # WithPusher(u)
      BY <1>16, PlacesDiffer
    <3>2. CASE u = t
      BY <1>2, <1>7, <1>12, <1>17, <3>1, <3>2
    <3>3. CASE u # t
      <4>1. Owned(u)' = Owned(u)
        BY <1>4, <3>3 DEF Owned, At
      <4> QED
        BY <1>8, <1>12, <1>17, <3>1, <3>3, <4>1
    <3> QED
      BY <3>2, <3>3
  <2>3. ASSUME NEW q \in Queues
        PROVE  (i \in Popped(q))' <=> IF i \in S THEN b = WithPopper(q) ELSE i \in Popped(q)
    <3>1. b # WithPopper(q) /\ Popped(q)' = Popped(q)
      BY <1>3, <1>16, PlacesDiffer DEF Popped
    <3> QED
      BY <1>8, <1>12, <1>17, <3>1
  <2>4. (chunks * ChunkLen < i)' <=>
          IF i \in S THEN b = NotMalloced ELSE chunks * ChunkLen < i
    <3>1. b # NotMalloced
      BY <1>16, PlacesDiffer
    <3> QED
      BY <1>3, <1>8, <1>12, <1>17, <3>1
  <2> QED
    BY <2>1, <2>2, <2>3, <2>4 DEF Moved
<1>19. \E v : Placed(rs, v)'
  BY <1>15, <1>18, Moves
<1>20. \A q \in Queues : rs[q] = ls[q]
  BY <1>14, Sizes DEF Lists
<1> QED
  BY <1>5, <1>9, <1>19, <1>20

LEMMA FillHolds ==
  ASSUME TypeOK, HandsAgree, NEW ls, NEW w, Placed(ls, w), NEW t \in Pushers, FillItem(t)
  PROVE  /\ TypeOK' /\ HandsAgree' /\ \E v : Placed(ls, v)'
         /\ \A o \in Lists : \A i : In(i, ls[o]) => data'[i] = data[i]
<1>1. PICK f \in Items : f = pusher[t].item
  <2>1. pusher[t].pc = "fill"
    BY DEF FillItem, At
  <2>2. pusher[t].item # NULL
    BY <2>1 DEF HandsAgree, PushHandAgrees
  <2> QED
    BY <2>2 DEF TypeOK, Link
<1>2. /\ pusher[t].pc = "fill"
      /\ next' = [next EXCEPT ![f] = NULL] /\ data' = [data EXCEPT ![f] = pusher[t].value]
      /\ pusher' = [pusher EXCEPT ![t].pc = "link"]
      /\ UNCHANGED <<chunks, free_item_list, head, tail, pushed, popper, returned>>
  BY <1>1 DEF FillItem, Detached, Goto, At
<1> DEFINE r == [pusher[t] EXCEPT !.pc = "link"]
<1>3. /\ pusher'[t] = r /\ \A u \in Pushers : u # t => pusher'[u] = pusher[u]
      /\ r.pc = "link" /\ r.item = f /\ r.queue \in Queues /\ r.value \in Values
      /\ r.value = pusher[t].value
  BY <1>1, <1>2 DEF TypeOK, HandsAgree, PushHandAgrees
<1>4. TypeOK'
  <2>1. pusher[t] \in PusherStates
    BY TypeOKIs
  <2>2. r \in PusherStates
    BY <2>1 DEF PusherStates
  <2>3. pusher' = [pusher EXCEPT ![t] = r]
    BY <1>2, TypeOKIs
  <2> HIDE DEF r
  <2>4. pusher' \in [Pushers -> PusherStates]
    BY <2>2, <2>3, TypeOKIs
  <2>5. next' \in [Items -> Link] /\ data' \in [Items -> Values \cup {NULL}]
    BY <1>2, <1>3 DEF TypeOK, Link
  <2> QED
    BY <1>2, <2>4, <2>5 DEF TypeOK, PusherStates
<1> HIDE DEF r
<1>5. /\ \A i \in Items : i # f => next'[i] = next[i] /\ data'[i] = data[i]
      /\ next'[f] = NULL /\ data'[f] = r.value
  BY <1>2, <1>3 DEF TypeOK
<1>6. Owned(t) = {f} /\ Owned(t)' = {f}
  <2>1. f # NULL
    BY Sizes
  <2> QED
    BY <1>1, <1>2, <1>3, <2>1, OwnedIs DEF Owned, At, HandsAgree
<1>7. /\ \A o \in Lists : ~ In(f, ls[o])
      /\ \A u \in Pushers : f \in Owned(u) => u = t
  BY <1>6, Apart
<1>8. HandsAgree'
  <2>1. PushHandAgrees(t)'
    BY <1>3, <1>5, Sizes DEF PushHandAgrees
  <2>2. ASSUME NEW u \in Pushers, u # t PROVE PushHandAgrees(u)'
    <3>1. \A i \in Owned(u) \cap Items : next'[i] = next[i] /\ data'[i] = data[i]
      BY <1>5, <1>7, <2>2
    <3> QED
      BY <1>3, <2>2, <3>1, HandKept DEF HandsAgree
  <2> QED
    BY <1>2, <2>1, <2>2 DEF HandsAgree
<1>9. ASSUME NEW o \in Lists, NEW i, In(i, ls[o])
      PROVE  i \in Items /\ next'[i] = next[i] /\ data'[i] = data[i]
  <2>1. i \in Items
    BY <1>9 DEF Placed, ListsAre, In
  <2> QED
    BY <1>5, <1>7, <1>9, <2>1
<1>10. ListsAre(ls)'
  <2>1. ASSUME NEW o \in Lists
        PROVE  ls[o] \in Seq(Items) /\ Linked(next', ls[o], First(o)') /\ Distinct(ls[o])
    <3>1. First(o)' = First(o)
      BY <1>2 DEF First
    <3> QED
      BY <1>9, <3>1, ListKept DEF Placed
  <2> QED
    BY <1>2, <2>1 DEF ListsAre, Placed
<1>11. PICK b \in Places : b = NotMalloced
  BY DEF Places
<1>12. \A u \in Pushers : Owned(u)' = Owned(u)
  <2>1. \A u \in Pushers : u # t => Owned(u)' = Owned(u)
    BY <1>3 DEF Owned, At
  <2> QED
    BY <1>6, <2>1
<1>13. \A q \in Queues : Popped(q)' = Popped(q)
  BY <1>2 DEF Popped
<1>14. ASSUME NEW i \in Items PROVE Moved(ls, ls, {}, b, i)
  BY <1>2, <1>12, <1>13 DEF Moved
<1>15. \E v : Placed(ls, v)'
  BY <1>10, <1>14, Moves
<1> QED
  BY <1>4, <1>8, <1>9, <1>15

LEMMA LinkHolds ==
  ASSUME TypeOK, HandsAgree, NEW ls, NEW w, Placed(ls, w), NEW t \in Pushers, LinkItem(t)
  PROVE  /\ TypeOK' /\ HandsAgree'
         /\ \E rs, v : /\ Placed(rs, v)'
                       /\ \E q \in Queues, i \in Items :
                            /\ data[i] \in Values /\ rs[q] = Append(ls[q], i)
                            /\ \A p \in Queues : p # q => rs[p] = ls[p]
<1>1. PICK q \in Queues, f \in Items :
        q = pusher[t].queue /\ f = pusher[t].item /\ next[f] = NULL /\ data[f] \in Values
  <2>1. pusher[t].pc = "link"
    BY DEF LinkItem, At
  <2>2. /\ pusher[t].item # NULL /\ pusher[t].queue \in Queues
        /\ next[pusher[t].item] = NULL /\ data[pusher[t].item] \in Values
    BY <2>1 DEF HandsAgree, PushHandAgrees
  <2>3. pusher[t].item \in Items
    BY <2>2 DEF TypeOK, Link
  <2> QED
    BY <2>2, <2>3
<1>2. /\ pusher[t].pc = "link"
      /\ IF tail[q] # NULL
         THEN next' = [next EXCEPT ![tail[q]] = f] /\ UNCHANGED head
         ELSE head' = [head EXCEPT ![q] = f] /\ UNCHANGED next
      /\ tail' = [tail EXCEPT ![q] = f] /\ popper' = Woken(q)
      /\ pusher' = [pusher EXCEPT ![t] = IdlePusher]
      /\ UNCHANGED <<data, chunks, free_item_list, pushed, returned>>
  BY <1>1 DEF LinkItem, At
<1>3. /\ pusher'[t] = IdlePusher /\ \A u \in Pushers : u # t => pusher'[u] = pusher[u]
      /\ tail'[q] = f /\ \A p \in Queues : p # q => tail'[p] = tail[p]
      /\ \A p \in Queues : p # q => head'[p] = head[p]
      /\ head'[q] = IF tail[q] = NULL THEN f ELSE head[q]
      /\ \A i \in Items : i # tail[q] => next'[i] = next[i]
      /\ tail[q] # NULL => next'[tail[q]] = f
  BY <1>2 DEF TypeOK, Link
<1>4. /\ popper' \in [Queues -> [pc : {"idle", "wait", "free", "read"}, item : Link,
                                 value : Values \cup {NULL}]]
      /\ \A p \in Queues :
           \/ popper'[p] = popper[p]
           \/ popper[p].pc = "wait" /\ popper'[p].pc = "idle"
  BY <1>2 DEF Woken, TypeOK, IdlePopper, Link
<1>5. TypeOK'
  <2>1. IdlePusher \in PusherStates
    BY DEF IdlePusher, PusherStates, Link
  <2>2. pusher' \in [Pushers -> PusherStates]
    BY <1>2, <2>1, TypeOKIs
  <2>3. next' \in [Items -> Link]
    BY <1>2 DEF TypeOK, Link
  <2>4. head' \in [Queues -> Link] /\ tail' \in [Queues -> Link]
    BY <1>2 DEF TypeOK, Link
  <2> QED
    BY <1>2, <1>4, <2>2, <2>3, <2>4 DEF TypeOK, PusherStates
<1>6. Owned(t) = {f} /\ Owned(t)' = {}
  <2>1. Owned(t) = {f}
    BY <1>1, <1>2, OwnedIs DEF HandsAgree
  <2>2. pusher'[t].item = NULL
    BY <1>3 DEF IdlePusher
  <2> QED
    BY <2>1, <2>2 DEF Owned
<1>7. /\ \A o \in Lists : ~ In(f, ls[o])
      /\ \A u \in Pushers : f \in Owned(u) => u = t
      /\ \A p \in Queues : f \notin Popped(p)
      /\ ~ (chunks * ChunkLen < f)
  BY <1>6, Apart
<1>8. PICK s \in Seq(Items), h \in Link :
        /\ s = ls[q] /\ h = head[q] /\ tail[q] = LastOf(s)
        /\ Linked(next, s, h) /\ Distinct(s) /\ q \in Lists /\ q # NULL
  BY Sizes DEF Placed, ListsAre, First, Lists, TypeOK
<1>9. /\ s = <<>> <=> tail[q] = NULL
      /\ s # <<>> => In(tail[q], s)
  <2>1. s # <<>> => Len(s) \in 1 .. Len(s) /\ s[Len(s)] \in Items
    OBVIOUS
  <2> QED
    BY <1>8, <2>1, Sizes DEF LastOf, In
<1>10. ASSUME NEW i \in Items, next'[i] # next[i] PROVE In(i, s) /\ i = tail[q]
  BY <1>2, <1>3, <1>9, <1>10
<1>11. HandsAgree'
  <2>1. PushHandAgrees(t)'
    BY <1>3 DEF PushHandAgrees, IdlePusher
  <2>2. ASSUME NEW u \in Pushers, u # t PROVE PushHandAgrees(u)'
    <3>1. \A i \in Owned(u) \cap Items : next'[i] = next[i]
      BY <1>8, <1>10, Apart
    <3>2. data' = data
      BY <1>2
    <3> QED
      BY <1>3, <2>2, <3>1, <3>2, HandKept DEF HandsAgree
  <2> QED
    BY <1>4, <2>1, <2>2 DEF HandsAgree
<1>12. PICK c : /\ c = Append(s, f) /\ c \in Seq(Items) /\ Distinct(c)
                /\ Linked(next', c, head'[q])
                /\ \A j : In(j, c) <=> In(j, s) \/ j = f
                /\ LastOf(c) = f
  <2>1. next'[f] = NULL
    BY <1>1, <1>7, <1>8, <1>10
  <2>2. s # <<>> => next'[LastOf(s)] = f
    BY <1>3, <1>8, <1>9
  <2>3. \A j : In(j, s) => j \in Items
    BY DEF In
  <2>4. \A j : In(j, s) /\ j # LastOf(s) => next'[j] = next[j]
    BY <1>3, <1>8, <2>3
  <2>5. head'[q] = IF s = <<>> THEN f ELSE h
    BY <1>3, <1>8, <1>9
  <2>6. ~ In(f, s)
    BY <1>7, <1>8
  <2>7. /\ Append(s, f) \in Seq(Items) /\ Distinct(Append(s, f))
        /\ Linked(next', Append(s, f), head'[q])
        /\ \A j : In(j, Append(s, f)) <=> In(j, s) \/ j = f
        /\ LastOf(Append(s, f)) = f
    <3>1. PutBehind(next, next', s, f)
      BY <2>1, <2>2, <2>4 DEF PutBehind
    <3> QED
      BY <1>8, <2>5, <2>6, <3>1, AppendLinked
  <2> QED
    BY <2>7
<1>13. PICK rs : rs = [o \in Lists |-> IF o = q THEN c ELSE ls[o]]
  OBVIOUS
<1>14. ListsAre(rs)'
  <2>1. ASSUME NEW o \in Lists
        PROVE  rs[o] \in Seq(Items) /\ Linked(next', rs[o], First(o)') /\ Distinct(rs[o])
    <3>1. CASE o = q
      BY <1>8, <1>12, <1>13, <3>1 DEF First
    <3>2. CASE o # q
      <4>1. First(o)' = First(o) /\ rs[o] = ls[o]
        BY <1>2, <1>3, <1>13, <3>2 DEF First, Lists
      <4>2. \A i : In(i, ls[o]) => i \in Items
        BY DEF Placed, ListsAre, In
      <4>3. \A i : In(i, ls[o]) => next'[i] = next[i]
        BY <1>8, <1>10, <3>2, <4>2, Apart
      <4> QED
        BY <4>1, <4>3, ListKept DEF Placed
    <3> QED
      BY <3>1, <3>2
  <2>2. \A p \in Queues : tail'[p] = LastOf(rs[p])
    BY <1>3, <1>12, <1>13 DEF Placed, ListsAre, Lists
  <2> QED
    BY <1>13, <2>1, <2>2 DEF ListsAre
<1>15. PICK b \in Places : b = OnList(q)
  BY <1>8 DEF Places
<1>16. PICK S : S = {f}
  OBVIOUS
<1>17. ASSUME NEW i \in Items PROVE Moved(ls, rs, S, b, i)
  <2>1. ASSUME NEW o \in Lists
        PROVE  In(i, rs[o]) <=> IF i \in S THEN b = OnList(o) ELSE In(i, ls[o])
    <3>1. b = OnList(o) <=> o = q
      BY <1>15, PlacesDiffer
    <3> QED
      BY <1>7, <1>8, <1>12, <1>13, <1>16, <3>1
  <2>2. ASSUME NEW u \in Pushers
        PROVE  (i \in Owned(u))' <=> IF i \in S THEN b = WithPusher(u) ELSE i \in Owned(u)
    <3>1. b # WithPusher(u)
      BY <1>15, PlacesDiffer
    <3>2. u # t => Owned(u)' = Owned(u)
      BY <1>3 DEF Owned, At
    <3> QED
      BY <1>6, <1>7, <1>16, <3>1, <3>2
  <2>3. ASSUME NEW p \in Queues
        PROVE  (i \in Popped(p))' <=> IF i \in S THEN b = WithPopper(p) ELSE i \in Popped(p)
    <3>1. b # WithPopper(p)
      BY <1>15, PlacesDiffer
    <3>2. Popped(p)' = Popped(p)
      BY <1>4 DEF Popped
    <3> QED
      BY <1>7, <1>16, <3>1, <3>2
  <2>4. (chunks * ChunkLen < i)' <=>
          IF i \in S THEN b = NotMalloced ELSE chunks * ChunkLen < i
    BY <1>2, <1>7, <1>15, <1>16, PlacesDiffer
  <2> QED
    BY <2>1, <2>2, <2>3, <2>4 DEF Moved
<1>18. \E v : Placed(rs, v)'
  BY <1>14, <1>17, Moves
<1>19. rs[q] = Append(ls[q], f) /\ \A p \in Queues : p # q => rs[p] = ls[p]
  BY <1>8, <1>12, <1>13 DEF Lists
<1> QED
  BY <1>1, <1>5, <1>11, <1>18, <1>19

LEMMA UnlinkHolds ==
  ASSUME TypeOK, HandsAgree, NEW ls, NEW w, Placed(ls, w), NEW q \in Queues, UnlinkItem(q)
  PROVE  /\ TypeOK' /\ HandsAgree'
         /\ \E rs, v : /\ Placed(rs, v)'
                       /\ ls[q] # <<>> /\ rs[q] = Tail(ls[q])
                       /\ \A p \in Queues : p # q => rs[p] = ls[p]
<1>1. PICK f \in Items : f = head[q]
  BY DEF UnlinkItem, TypeOK, Link
<1>2. /\ popper[q].pc = "idle"
      /\ popper' = [popper EXCEPT ![q] = [pc |-> "free", item |-> f, value |-> data[f]]]
      /\ head' = [head EXCEPT ![q] = next[f]]
      /\ tail' = [tail EXCEPT ![q] = IF next[f] = NULL THEN NULL ELSE @]
      /\ UNCHANGED <<next, data, chunks, free_item_list, pushed, pusher, returned>>
  BY <1>1 DEF UnlinkItem
<1>3. /\ popper'[q].pc = "free" /\ popper'[q].item = f
      /\ \A p \in Queues : p # q =>
           popper'[p] = popper[p] /\ head'[p] = head[p] /\ tail'[p] = tail[p]
      /\ head'[q] = next[f] /\ tail'[q] = IF next[f] = NULL THEN NULL ELSE tail[q]
  BY <1>2 DEF TypeOK
<1>4. TypeOK'
  <2>1. [pc |-> "free", item |-> f, value |-> data[f]] \in
          [pc : {"idle", "wait", "free", "read"}, item : Link, value : Values \cup {NULL}]
    BY DEF TypeOK, Link
  <2>2. next[f] \in Link
    BY DEF TypeOK
  <2>3. NULL \in Link
    BY DEF Link
  <2> QED
    BY <1>2, <2>1, <2>2, <2>3 DEF TypeOK
<1>5. f # NULL
  BY Sizes
<1>6. HandsAgree'
  <2>1. \A u \in Pushers : PushHandAgrees(u)'
    BY <1>2, HandKept DEF HandsAgree
  <2>2. ASSUME NEW p \in Queues, popper'[p].pc \in {"free", "read"}
        PROVE  popper'[p].item # NULL
    <3>1. CASE p = q
      BY <1>3, <1>5, <3>1
    <3>2. CASE p # q
      BY <1>3, <2>2, <3>2 DEF HandsAgree
    <3> QED
      BY <3>1, <3>2
  <2> QED
    BY <2>1, <2>2 DEF HandsAgree
<1>7. PICK s \in Seq(Items) :
        /\ s = ls[q] /\ Linked(next, s, f) /\ Distinct(s) /\ q \in Lists /\ q # NULL
        /\ s # <<>> /\ tail[q] = LastOf(s)
  BY <1>1, <1>5, Sizes DEF Placed, ListsAre, First, Lists, Linked
<1>8. /\ f = s[1] /\ Tail(s) \in Seq(Items) /\ Linked(next, Tail(s), next[f])
      /\ Distinct(Tail(s)) /\ \A i : In(i, Tail(s)) <=> In(i, s) /\ i # f
      /\ LastOf(Tail(s)) = IF Tail(s) = <<>> THEN NULL ELSE LastOf(s)
  <2>1. f = s[1] /\ Tail(s) \in Seq(Items) /\ Linked(next, Tail(s), next[f])
    BY <1>7, TailLinked
  <2>2. /\ Distinct(Tail(s)) /\ \A i : In(i, Tail(s)) <=> In(i, s) /\ i # s[1]
        /\ LastOf(Tail(s)) = IF Tail(s) = <<>> THEN NULL ELSE LastOf(s)
    BY <1>7, TailHolds
  <2> QED
    BY <2>1, <2>2
<1>9. next[f] = NULL <=> Tail(s) = <<>>
  <2>1. Tail(s) # <<>> => Tail(s)[1] \in Items
    BY <1>8
  <2> QED
    BY <1>8, <2>1, Sizes DEF Linked
<1>10. PICK rs : rs = [o \in Lists |-> IF o = q THEN Tail(s) ELSE ls[o]]
  OBVIOUS
<1>11. ListsAre(rs)'
  <2>1. ASSUME NEW o \in Lists
        PROVE  rs[o] \in Seq(Items) /\ Linked(next', rs[o], First(o)') /\ Distinct(rs[o])
    <3>1. CASE o = q
      BY <1>2, <1>3, <1>7, <1>8, <1>10, <3>1 DEF First
    <3>2. CASE o # q
      <4>1. First(o)' = First(o) /\ rs[o] = ls[o]
        BY <1>2, <1>3, <1>10, <3>2 DEF First, Lists
      <4> QED
        BY <1>2, <4>1, ListKept DEF Placed
    <3> QED
      BY <3>1, <3>2
  <2>2. ASSUME NEW p \in Queues PROVE tail'[p] = LastOf(rs[p])
    <3>1. CASE p = q
      BY <1>3, <1>7, <1>8, <1>9, <1>10, <3>1
    <3>2. CASE p # q
      BY <1>3, <1>10, <3>2 DEF Placed, ListsAre, Lists
    <3> QED
      BY <3>1, <3>2
  <2> QED
    BY <1>10, <2>1, <2>2 DEF ListsAre
<1>12. PICK b \in Places : b = WithPopper(q)
  BY DEF Places
<1>13. In(f, s)
  <2>1. 1 \in 1 .. Len(s)
    BY <1>7
  <2> QED
    BY <1>8, <2>1 DEF In
<1>14. Popped(q) = {} /\ Popped(q)' = {f}
  BY <1>2, <1>3 DEF Popped
<1>15. PICK S : S = {f}
  OBVIOUS
<1>16. ASSUME NEW i \in Items PROVE Moved(ls, rs, S, b, i)
  <2>1. ASSUME NEW o \in Lists
        PROVE  In(i, rs[o]) <=> IF i \in S THEN b = OnList(o) ELSE In(i, ls[o])
    <3>1. b # OnList(o)
      BY <1>12, PlacesDiffer
    <3>2. In(f, ls[o]) => o = q
      BY <1>7, <1>13, Apart
    <3> QED
      BY <1>7, <1>8, <1>10, <1>15, <3>1, <3>2
  <2>2. ASSUME NEW u \in Pushers
        PROVE  (i \in Owned(u))' <=> IF i \in S THEN b = WithPusher(u) ELSE i \in Owned(u)
    <3>1. b # WithPusher(u) /\ Owned(u)' = Owned(u)
      BY <1>2, <1>12, PlacesDiffer DEF Owned, At
    <3>2. f \notin Owned(u)
      BY <1>7, <1>13, Apart
    <3> QED
      BY <1>15, <3>1, <3>2
  <2>3. ASSUME NEW p \in Queues
        PROVE  (i \in Popped(p))' <=> IF i \in S THEN b = WithPopper(p) ELSE i \in Popped(p)
    <3>1. b = WithPopper(p) <=> p = q
      BY <1>12, PlacesDiffer
    <3>2. p # q => Popped(p)' = Popped(p)
      BY <1>3 DEF Popped
    <3>3. f \notin Popped(p)
      BY <1>7, <1>13, Apart
    <3> QED
      BY <1>14, <1>15, <3>1, <3>2, <3>3
  <2>4. /\ b # NotMalloced /\ ~ (chunks * ChunkLen < f)
        /\ (chunks * ChunkLen < i)' <=> chunks * ChunkLen < i
    BY <1>2, <1>7, <1>12, <1>13, PlacesDiffer, Apart
  <2> QED
    BY <1>15, <2>1, <2>2, <2>3, <2>4 DEF Moved
<1>17. \E v : Placed(rs, v)'
  BY <1>11, <1>16, Moves
<1>18. rs[q] = Tail(ls[q]) /\ ls[q] # <<>> /\ \A p \in Queues : p # q => rs[p] = ls[p]
  BY <1>7, <1>10 DEF Lists
<1> QED
  BY <1>4, <1>6, <1>17, <1>18

LEMMA FreeHolds ==
  ASSUME TypeOK, HandsAgree, NEW ls, NEW w, Placed(ls, w), NEW q \in Queues, FreeItem(q)
  PROVE  /\ TypeOK' /\ HandsAgree'
         /\ \E rs, v : Placed(rs, v)' /\ \A p \in Queues : rs[p] = ls[p]
<1>1. PICK f \in Items : f = popper[q].item /\ f # NULL
  <2>1. popper[q].item # NULL
    BY DEF FreeItem, HandsAgree
  <2> QED
    BY <2>1 DEF TypeOK, Link
<1>2. /\ popper[q].pc = "free" /\ next' = [next EXCEPT ![f] = free_item_list]
      /\ free_item_list' = f /\ popper' = [popper EXCEPT ![q].pc = "read"]
      /\ UNCHANGED <<data, chunks, head, tail, pushed, pusher, returned>>
  BY <1>1 DEF FreeItem
<1>3. /\ popper'[q].pc = "read" /\ popper'[q].item = f
      /\ \A p \in Queues : p # q => popper'[p] = popper[p]
      /\ next'[f] = free_item_list /\ \A i \in Items : i # f => next'[i] = next[i]
  BY <1>1, <1>2 DEF TypeOK
<1>4. TypeOK'
  <2>1. popper' \in [Queues ->
          [pc : {"idle", "wait", "free", "read"}, item : Link, value : Values \cup {NULL}]]
    BY <1>2 DEF TypeOK
  <2>2. next' \in [Items -> Link] /\ free_item_list' \in Link
    BY <1>2 DEF TypeOK, Link
  <2> QED
    BY <1>2, <2>1, <2>2 DEF TypeOK
<1>5. Popped(q) = {f} /\ Popped(q)' = {}
  BY <1>1, <1>2, <1>3 DEF Popped
<1>6. /\ \A o \in Lists : ~ In(f, ls[o])
      /\ \A u \in Pushers : f \notin Owned(u)
      /\ \A p \in Queues : f \in Popped(p) => p = q
      /\ ~ (chunks * ChunkLen < f)
  BY <1>5, Apart
<1>7. HandsAgree'
  <2>1. ASSUME NEW u \in Pushers PROVE PushHandAgrees(u)'
    <3>1. \A i \in Owned(u) \cap Items : next'[i] = next[i] /\ data'[i] = data[i]
      BY <1>2, <1>3, <1>6
    <3>2. pusher'[u] = pusher[u] /\ PushHandAgrees(u)
      BY <1>2 DEF HandsAgree
    <3> QED
      BY <3>1, <3>2, HandKept
  <2>2. ASSUME NEW p \in Queues, popper'[p].pc \in {"free", "read"}
        PROVE  popper'[p].item # NULL
    <3>1. CASE p = q
      BY <1>1, <1>3, <3>1
    <3>2. CASE p # q
      BY <1>3, <2>2, <3>2 DEF HandsAgree
    <3> QED
      BY <3>1, <3>2
  <2> QED
    BY <2>1, <2>2 DEF HandsAgree
<1>8. ASSUME NEW o \in Lists
      PROVE  Linked(next', ls[o], First(o)) /\ Distinct(ls[o]) /\ ls[o] \in Seq(Items)
  <2>1. /\ \A i : In(i, ls[o]) => i \in Items /\ i # f
        /\ Linked(next, ls[o], First(o)) /\ Distinct(ls[o]) /\ ls[o] \in Seq(Items)
    BY <1>6 DEF Placed, ListsAre, In
  <2>2. \A i : In(i, ls[o]) => next'[i] = next[i]
    BY <1>3, <2>1
  <2> QED
    BY <2>1, <2>2, FrameLinked
<1>9. PICK s \in Seq(Items) :
        /\ s = ls[NULL] /\ NULL \in Lists /\ Linked(next', s, free_item_list) /\ Distinct(s)
        /\ ~ In(f, s)
  BY <1>6, <1>8 DEF Lists, First
<1>10. PICK c : /\ c = Chunk(f, 1) \o s /\ c \in Seq(Items) /\ Distinct(c)
                /\ Linked(next', c, f) /\ \A j : In(j, c) <=> In(j, s) \/ j = f
  <2>1. PICK m \in Nat :
          m = 1 /\ m >= 1 /\ f \in Nat /\ f .. (f + m - 1) = {f} /\ f + m - 1 = f
    BY Sizes
  <2>2. InFront(next', s, free_item_list, f, m)
    BY <1>3, <1>9, <2>1 DEF InFront
  <2>3. /\ Chunk(f, m) \o s \in Seq(Items) /\ Distinct(Chunk(f, m) \o s)
        /\ Linked(next', Chunk(f, m) \o s, f)
        /\ \A j : In(j, Chunk(f, m) \o s) <=> In(j, s) \/ j \in f .. (f + m - 1)
    BY <1>9, <2>1, <2>2, ChunkLinked
  <2> QED
    BY <2>1, <2>3
<1>11. PICK rs : rs = [o \in Lists |-> IF o = NULL THEN c ELSE ls[o]]
  OBVIOUS
<1>12. ListsAre(rs)'
  <2>1. ASSUME NEW o \in Lists
        PROVE  rs[o] \in Seq(Items) /\ Linked(next', rs[o], First(o)') /\ Distinct(rs[o])
    <3>1. CASE o = NULL
      BY <1>2, <1>10, <1>11, <3>1 DEF First
    <3>2. CASE o # NULL
      <4>1. First(o)' = First(o) /\ rs[o] = ls[o]
        BY <1>2, <1>11, <3>2 DEF First
      <4> QED
        BY <1>8, <4>1
    <3> QED
      BY <3>1, <3>2
  <2>2. \A p \in Queues : tail'[p] = LastOf(rs[p])
    BY <1>2, <1>11, Sizes DEF Placed, ListsAre, Lists
  <2> QED
    BY <1>11, <2>1, <2>2 DEF ListsAre
<1>13. PICK b \in Places : b = OnList(NULL)
  BY DEF Places, Lists
<1>14. PICK S : S = {f}
  OBVIOUS
<1>15. ASSUME NEW i \in Items PROVE Moved(ls, rs, S, b, i)
  <2>1. ASSUME NEW o \in Lists
        PROVE  In(i, rs[o]) <=> IF i \in S THEN b = OnList(o) ELSE In(i, ls[o])
    <3>1. b = OnList(o) <=> o = NULL
      BY <1>13, PlacesDiffer
    <3> QED
      BY <1>6, <1>9, <1>10, <1>11, <1>14, <3>1
  <2>2. ASSUME NEW u \in Pushers
        PROVE  (i \in Owned(u))' <=> IF i \in S THEN b = WithPusher(u) ELSE i \in Owned(u)
    <3>1. b # WithPusher(u) /\ Owned(u)' = Owned(u)
      BY <1>2, <1>13, PlacesDiffer DEF Owned, At
    <3> QED
      BY <1>6, <1>14, <3>1
  <2>3. ASSUME NEW p \in Queues
        PROVE  (i \in Popped(p))' <=> IF i \in S THEN b = WithPopper(p) ELSE i \in Popped(p)
    <3>1. b # WithPopper(p)
      BY <1>13, PlacesDiffer
    <3>2. p # q => Popped(p)' = Popped(p)
      BY <1>3 DEF Popped
    <3> QED
      BY <1>5, <1>6, <1>14, <3>1, <3>2
  <2>4. (chunks * ChunkLen < i)' <=>
          IF i \in S THEN b = NotMalloced ELSE chunks * ChunkLen < i
    BY <1>2, <1>6, <1>13, <1>14, PlacesDiffer
  <2> QED
    BY <2>1, <2>2, <2>3, <2>4 DEF Moved
<1>16. \E v : Placed(rs, v)'
  BY <1>12, <1>15, Moves
<1>17. \A p \in Queues : rs[p] = ls[p]
  BY <1>11, Sizes DEF Lists
<1> QED
  BY <1>4, <1>7, <1>16, <1>17

-----------------------------------------------------------------------------
(* Every step keeps the inductive invariant; the queues' lists change only *)
(* at their ends.                                                          *)
QueuesStep(ls, rs) ==
  \/ /\ \A q \in Queues : rs[q] = ls[q]
     /\ \A q \in Queues : \A i : In(i, ls[q]) => data'[i] = data[i]
  \/ /\ \E q \in Queues : /\ ls[q] # <<>> /\ rs[q] = Tail(ls[q])
                          /\ \A p \in Queues : p # q => rs[p] = ls[p]
     /\ data' = data
  \/ /\ \E q \in Queues, i \in Items : /\ data[i] \in Values /\ rs[q] = Append(ls[q], i)
                                       /\ \A p \in Queues : p # q => rs[p] = ls[p]
     /\ data' = data

LEMMA StepHolds ==
  ASSUME TypeOK, HandsAgree, NEW ls, NEW w, Placed(ls, w), [Next]_vars
  PROVE  TypeOK' /\ HandsAgree' /\ \E rs, v : Placed(rs, v)' /\ QueuesStep(ls, rs)
<1> DEFINE Goal == TypeOK' /\ HandsAgree' /\ \E rs, v : Placed(rs, v)' /\ QueuesStep(ls, rs)
<1>1. CASE Quiet
  <2>1. data' = data
    BY <1>1 DEF Quiet, CallPush, LookAtFreeList, TakeItem, Wait, ReadData, vars
  <2>2. QueuesStep(ls, ls)
    BY <2>1 DEF QueuesStep
  <2> QED
    BY <1>1, <2>2, QuietHolds
<1>2. ASSUME NEW t \in Pushers, TakeItem(t), free_item_list # NULL PROVE Goal
  <2>1. data' = data
    BY <1>2 DEF TakeItem
  <2>2. \A rs : (\A q \in Queues : rs[q] = ls[q]) => QueuesStep(ls, rs)
    BY <2>1 DEF QueuesStep
  <2> QED
    BY <1>2, <2>2, TakeHolds
<1>3. ASSUME NEW t \in Pushers, Malloc(t) PROVE Goal
  <2>1. data' = data
    BY <1>3 DEF Malloc
  <2>2. QueuesStep(ls, ls)
    BY <2>1 DEF QueuesStep
  <2> QED
    BY <1>3, <2>2, MallocHolds
<1>4. ASSUME NEW t \in Pushers, ShareChunk(t) PROVE Goal
  <2>1. data' = data
    BY <1>4 DEF ShareChunk
  <2>2. \A rs : (\A q \in Queues : rs[q] = ls[q]) => QueuesStep(ls, rs)
    BY <2>1 DEF QueuesStep
  <2> QED
    BY <1>4, <2>2, ShareHolds
<1>5. ASSUME NEW t \in Pushers, FillItem(t) PROVE Goal
  <2>1. (\A o \in Lists : \A i : In(i, ls[o]) => data'[i] = data[i]) => QueuesStep(ls, ls)
    BY DEF QueuesStep, Lists
  <2> QED
    BY <1>5, <2>1, FillHolds
<1>6. ASSUME NEW t \in Pushers, LinkItem(t) PROVE Goal
  <2>1. data' = data
    BY <1>6 DEF LinkItem
  <2>2. \A rs : (\E q \in Queues, i \in Items :
                   /\ data[i] \in Values /\ rs[q] = Append(ls[q], i)
                   /\ \A p \in Queues : p # q => rs[p] = ls[p]) => QueuesStep(ls, rs)
    BY <2>1 DEF QueuesStep
  <2> QED
    BY <1>6, <2>2, LinkHolds
<1>7. ASSUME NEW q \in Queues, UnlinkItem(q) PROVE Goal
  <2>1. data' = data
    BY <1>7 DEF UnlinkItem
  <2>2. \A rs : (/\ ls[q] # <<>> /\ rs[q] = Tail(ls[q])
                 /\ \A p \in Queues : p # q => rs[p] = ls[p]) => QueuesStep(ls, rs)
    BY <2>1 DEF QueuesStep
  <2> QED
    BY <1>7, <2>2, UnlinkHolds
<1>8. ASSUME NEW q \in Queues, FreeItem(q) PROVE Goal
  <2>1. data' = data
    BY <1>8 DEF FreeItem
  <2>2. \A rs : (\A p \in Queues : rs[p] = ls[p]) => QueuesStep(ls, rs)
    BY <2>1 DEF QueuesStep
  <2> QED
    BY <1>8, <2>2, FreeHolds
<1>9. \/ Quiet
      \/ \E t \in Pushers : \/ TakeItem(t) /\ free_item_list # NULL
                            \/ Malloc(t) \/ ShareChunk(t) \/ FillItem(t) \/ LinkItem(t)
      \/ \E q \in Queues : UnlinkItem(q) \/ FreeItem(q)
  BY DEF Next, Push, Pop, Quiet
<1> QED
  BY <1>1, <1>2, <1>3, <1>4, <1>5, <1>6, <1>7, <1>8, <1>9

(* The links lead to the lists. *)
ChainsAreLists ==
  \A ls, w : Placed(ls, w) => \A o \in Lists : Chain(First(o)) = ls[o]

LEMMA ListsAreChains == ChainsAreLists
<1> SUFFICES ASSUME NEW ls, NEW w, Placed(ls, w), NEW o \in Lists
             PROVE  Chain(First(o)) = ls[o]
  BY DEF ChainsAreLists
<1>1. ls[o] \in Seq(Items) /\ Linked(next, ls[o], First(o)) /\ Distinct(ls[o])
  BY DEF Placed, ListsAre
<1> QED
  BY <1>1, WalkFinds

(* What threads hold are items. *)
LEMMA HandsHoldItems ==
  ASSUME TypeOK, HandsAgree
  PROVE  /\ \A t \in Pushers : Owned(t) \subseteq Items
         /\ \A q \in Queues : Popped(q) \subseteq Items
<1>1. ASSUME NEW t \in Pushers PROVE Owned(t) \subseteq Items
  <2>1. CASE pusher[t].pc = "share"
    <3>1. PICK f \in Items : f = pusher[t].item /\ f + ChunkLen - 1 \in Items
      BY <2>1 DEF TypeOK, Link, HandsAgree, PushHandAgrees
    <3>2. Owned(t) = f .. (f + ChunkLen - 1)
      BY <2>1, <3>1, OwnedIs DEF HandsAgree
    <3> QED
      BY <3>1, <3>2, Sizes
  <2>2. CASE pusher[t].pc # "share"
    BY <2>2 DEF Owned, At, TypeOK, Link
  <2> QED
    BY <2>1, <2>2
<1>2. ASSUME NEW q \in Queues PROVE Popped(q) \subseteq Items
  BY DEF Popped, HandsAgree, TypeOK, Link
<1> QED
  BY <1>1, <1>2

LEMMA ChunksAreItems ==
  ASSUME TypeOK PROVE chunks * ChunkLen \in Nat /\ chunks * ChunkLen <= NItems
<1>1. chunks \in Nat /\ chunks <= MaxChunks
  BY Sizes DEF TypeOK
<1>2. CASE chunks = MaxChunks
  BY <1>2, Sizes DEF NItems
<1>3. CASE chunks # MaxChunks
  <2>1. chunks < MaxChunks
    BY <1>1, <1>3, Sizes
  <2>2. /\ chunks * ChunkLen \in Nat /\ (chunks + 1) * ChunkLen = chunks * ChunkLen + ChunkLen
        /\ (chunks + 1) * ChunkLen <= NItems
    BY <1>1, <2>1, ChunkFits
  <2> QED
    BY <2>2, Sizes
<1> QED
  BY <1>2, <1>3

(* What Held says of the places. *)
LEMMA HeldIs ==
  ASSUME TypeOK, HandsAgree, NEW ls, NEW w, Placed(ls, w), NEW h
  PROVE  h \in Held <=>
           \/ \E o \in Lists : \E k \in 1 .. Len(ls[o]) : h = <<o, k, ls[o][k]>>
           \/ \E t \in Pushers : \E i \in Owned(t) : h = <<t, 0, i>>
           \/ \E q \in Queues : \E i \in Popped(q) : h = <<q, 0, i>>
<1>1. \A o \in Lists : Chain(First(o)) = ls[o] /\ DOMAIN ls[o] = 1 .. Len(ls[o])
  BY ListsAreChains DEF ChainsAreLists, Placed, ListsAre
<1> DEFINE A == UNION {Positions(o) : o \in Lists}
           B == UNION {{<<t, 0, i>> : i \in Owned(t)} : t \in Pushers}
           C == UNION {{<<q, 0, i>> : i \in Popped(q)} : q \in Queues}
<1>2. h \in A <=> \E o \in Lists : \E k \in 1 .. Len(ls[o]) : h = <<o, k, ls[o][k]>>
  BY <1>1 DEF Positions
<1>3. h \in B <=> \E t \in Pushers : \E i \in Owned(t) : h = <<t, 0, i>>
  OBVIOUS
<1>4. h \in C <=> \E q \in Queues : \E i \in Popped(q) : h = <<q, 0, i>>
  OBVIOUS
<1>5. Held = A \cup B \cup C
  BY DEF Held
<1> HIDE DEF A, B, C
<1> QED
  BY <1>2, <1>3, <1>4, <1>5

(* An item that was allocated is found exactly once. *)
LEMMA FoundOnce ==
  ASSUME TypeOK, HandsAgree, NEW ls, NEW w, Placed(ls, w),
         NEW i \in Items, ~ (chunks * ChunkLen < i)
  PROVE  \E x : {h \in Held : h[3] = i} = {x}
<1> DEFINE H == {h \in Held : h[3] = i}
<1>1. IsAt(ls, i, w[i]) /\ w[i] # NotMalloced
  BY DEF Placed, IsAt
<1>2. ASSUME NEW h \in H
      PROVE  \/ \E o \in Lists : \E k \in 1 .. Len(ls[o]) :
                  h = <<o, k, i>> /\ ls[o][k] = i /\ w[i] = OnList(o)
             \/ \E t \in Pushers : h = <<t, 0, i>> /\ w[i] = WithPusher(t)
             \/ \E q \in Queues : h = <<q, 0, i>> /\ w[i] = WithPopper(q)
  <2>1. h[3] = i /\ \/ \E o \in Lists : \E k \in 1 .. Len(ls[o]) : h = <<o, k, ls[o][k]>>
                    \/ \E t \in Pushers : \E j \in Owned(t) : h = <<t, 0, j>>
                    \/ \E q \in Queues : \E j \in Popped(q) : h = <<q, 0, j>>
    BY <1>2, HeldIs
  <2>2. ASSUME NEW o \in Lists, NEW k \in 1 .. Len(ls[o]), h = <<o, k, ls[o][k]>>
        PROVE  h = <<o, k, i>> /\ ls[o][k] = i /\ w[i] = OnList(o)
    <3>1. ls[o][k] = i
      BY <2>1, <2>2
    <3> QED
      BY <1>1, <2>2, <3>1 DEF IsAt, In
  <2>3. ASSUME NEW t \in Pushers, NEW j \in Owned(t), h = <<t, 0, j>>
        PROVE  h = <<t, 0, i>> /\ w[i] = WithPusher(t)
    <3>1. j = i
      BY <2>1, <2>3
    <3> QED
      BY <1>1, <2>3, <3>1 DEF IsAt
  <2>4. ASSUME NEW q \in Queues, NEW j \in Popped(q), h = <<q, 0, j>>
        PROVE  h = <<q, 0, i>> /\ w[i] = WithPopper(q)
    <3>1. j = i
      BY <2>1, <2>4
    <3> QED
      BY <1>1, <2>4, <3>1 DEF IsAt
  <2> QED
    BY <2>1, <2>2, <2>3, <2>4
<1>3. \A o \in Lists : \A j, k \in 1 .. Len(ls[o]) : ls[o][j] = ls[o][k] => j = k
  BY DEF Placed, ListsAre, Distinct
<1>4. ASSUME NEW x, x \in H PROVE H = {x}
  <2>1. ASSUME NEW h \in H PROVE h = x
    <3>1. ASSUME NEW o \in Lists, NEW k \in 1 .. Len(ls[o]),
                 x = <<o, k, i>>, ls[o][k] = i, w[i] = OnList(o)
          PROVE  h = x
      <4>1. PICK p \in Lists : \E j \in 1 .. Len(ls[p]) :
                  h = <<p, j, i>> /\ ls[p][j] = i /\ w[i] = OnList(p)
        BY <1>2, <2>1, <3>1, PlacesDiffer
      <4>2. PICK j \in 1 .. Len(ls[p]) : h = <<p, j, i>> /\ ls[p][j] = i /\ p = o
        BY <3>1, <4>1, PlacesDiffer
      <4>3. j = k
        BY <1>3, <3>1, <4>2
      <4> QED
        BY <3>1, <4>2, <4>3
    <3>2. ASSUME NEW t \in Pushers, x = <<t, 0, i>>, w[i] = WithPusher(t) PROVE h = x
      BY <1>2, <2>1, <3>2, PlacesDiffer
    <3>3. ASSUME NEW q \in Queues, x = <<q, 0, i>>, w[i] = WithPopper(q) PROVE h = x
      BY <1>2, <2>1, <3>3, PlacesDiffer
    <3> HIDE DEF H
    <3> QED
      BY <1>2, <1>4, <3>1, <3>2, <3>3
  <2> QED
    BY <1>4, <2>1
<1>5. H # {}
  <2>1. \/ \E o \in Lists : w[i] = OnList(o)
        \/ \E t \in Pushers : w[i] = WithPusher(t)
        \/ \E q \in Queues : w[i] = WithPopper(q)
    BY <1>1 DEF IsAt, Places
  <2>2. ASSUME NEW o \in Lists, w[i] = OnList(o) PROVE H # {}
    <3>1. PICK k \in 1 .. Len(ls[o]) : ls[o][k] = i
      BY <1>1, <2>2 DEF IsAt, In
    <3>2. PICK h : h = <<o, k, i>>
      OBVIOUS
    <3>3. h \in Held /\ h[3] = i
      BY <3>1, <3>2, HeldIs
    <3> QED
      BY <3>3
  <2>3. ASSUME NEW t \in Pushers, w[i] = WithPusher(t) PROVE H # {}
    <3>1. PICK h : h = <<t, 0, i>> /\ i \in Owned(t)
      BY <1>1, <2>3 DEF IsAt
    <3>2. h \in Held /\ h[3] = i
      BY <3>1, HeldIs
    <3> QED
      BY <3>2
  <2>4. ASSUME NEW q \in Queues, w[i] = WithPopper(q) PROVE H # {}
    <3>1. PICK h : h = <<q, 0, i>> /\ i \in Popped(q)
      BY <1>1, <2>4 DEF IsAt
    <3>2. h \in Held /\ h[3] = i
      BY <3>1, HeldIs
    <3> QED
      BY <3>2
  <2> QED
    BY <2>1, <2>2, <2>3, <2>4
<1> HIDE DEF H
<1>6. \E x : H = {x}
  BY <1>4, <1>5
<1> QED
  BY <1>6 DEF H

LEMMA InductiveGives == Inductive => IInv
<1> SUFFICES ASSUME TypeOK, HandsAgree, NEW ls, NEW w, Placed(ls, w) PROVE IInv
  BY DEF Inductive
<1>1. TailsAreLast
  <2>1. ASSUME NEW q \in Queues PROVE tail[q] = LastOf(Chain(head[q]))
    <3>1. q \in Lists /\ First(q) = head[q] /\ tail[q] = LastOf(ls[q])
      BY Sizes DEF Lists, First, Placed, ListsAre
    <3>2. Chain(First(q)) = ls[q]
      BY <3>1, ListsAreChains DEF ChainsAreLists
    <3> QED
      BY <3>1, <3>2
  <2> QED
    BY <2>1 DEF TailsAreLast
<1>2. EachItemIsInOnePlace
  <2>1. ASSUME NEW i \in 1 .. (chunks * ChunkLen)
        PROVE  Cardinality({h \in Held : h[3] = i}) = 1
    <3>1. i \in Items /\ ~ (chunks * ChunkLen < i)
      BY ChunksAreItems, Sizes
    <3>2. PICK x : {h \in Held : h[3] = i} = {x}
      BY <3>1, FoundOnce
    <3> QED
      BY <3>2, FS_Singleton
  <2> QED
    BY <2>1 DEF EachItemIsInOnePlace
<1>3. HeldAreMalloced
  <2>1. ASSUME NEW h \in Held PROVE h[3] \in 1 .. (chunks * ChunkLen)
    <3>1. \/ \E o \in Lists : \E k \in 1 .. Len(ls[o]) : h = <<o, k, ls[o][k]>>
          \/ \E t \in Pushers : \E i \in Owned(t) : h = <<t, 0, i>>
          \/ \E q \in Queues : \E i \in Popped(q) : h = <<q, 0, i>>
      BY <2>1, HeldIs
    <3>2. \A o \in Lists : \A k \in 1 .. Len(ls[o]) : ls[o][k] \in Items /\ In(ls[o][k], ls[o])
      BY DEF Placed, ListsAre, In
    <3>3. PICK i \in Items : i = h[3] /\ (\/ \E o \in Lists : In(i, ls[o])
                                          \/ \E t \in Pushers : i \in Owned(t)
                                          \/ \E q \in Queues : i \in Popped(q))
      BY <3>1, <3>2, HandsHoldItems
    <3>4. ~ (chunks * ChunkLen < i)
      BY <3>3, Apart
    <3> QED
      BY <3>3, <3>4, ChunksAreItems, Sizes
  <2> QED
    BY <2>1 DEF HeldAreMalloced
<1> QED
  BY <1>1, <1>2, <1>3 DEF IInv

-----------------------------------------------------------------------------
(* The theorems.                                                           *)

THEOREM InductiveHolds == Spec => []Inductive
<1>1. Init => Inductive
  BY InitHolds DEF Inductive
<1>2. Inductive /\ [Next]_vars => Inductive'
  <2> SUFFICES ASSUME TypeOK, HandsAgree, NEW ls, NEW w, Placed(ls, w), [Next]_vars
               PROVE  Inductive'
    BY DEF Inductive
  <2> QED
    BY StepHolds DEF Inductive
<1> QED
  BY <1>1, <1>2, PTL DEF Spec

(* The invariant the run checks, which the places of the items imply.      *)
THEOREM IInvHolds == Spec => []IInv
BY InductiveHolds, InductiveGives, PTL

(* No item is in two lists or two hands, twice in a list, or lost:         *)
(* although the free list is looked at without its lock, is shared by all  *)
(* queues, and every thread works on items outside of the locks.           *)
THEOREM ItemsAreApart == Spec => []EachItemIsInOnePlace
<1>1. IInv => EachItemIsInOnePlace
  BY DEF IInv
<1> QED
  BY <1>1, IInvHolds, PTL

(* The data of a list of items. *)
DataOf(s, d) == [k \in 1 .. Len(s) |-> d[s[k]]]

LEMMA DataOfTail ==
  ASSUME NEW V, NEW d \in [Items -> V], NEW s \in Seq(Items), s # <<>>
  PROVE  DataOf(s, d) # <<>> /\ DataOf(Tail(s), d) = Tail(DataOf(s, d))
<1>1. PICK m \in Nat, n \in Nat : m = Len(s) /\ m = n + 1
  <2>1. Len(s) \in Nat /\ Len(s) >= 1
    OBVIOUS
  <2>2. Len(s) - 1 \in Nat /\ Len(s) = (Len(s) - 1) + 1
    BY <2>1
  <2> QED
    BY <2>1, <2>2
<1>2. PICK c \in Seq(V) :
        c = DataOf(s, d) /\ Len(c) = m /\ \A k \in 1 .. m : c[k] = d[s[k]]
  <2>1. \A k \in 1 .. Len(s) : d[s[k]] \in V
    OBVIOUS
  <2>2. DataOf(s, d) \in [1 .. Len(s) -> V]
    BY <2>1 DEF DataOf
  <2>3. DataOf(s, d) \in Seq(V) /\ Len(DataOf(s, d)) = Len(s)
    BY <1>1, <2>2
  <2>4. \A k \in 1 .. Len(s) : DataOf(s, d)[k] = d[s[k]]
    BY DEF DataOf
  <2> QED
    BY <1>1, <2>3, <2>4
<1>3. c # <<>>
  BY <1>1, <1>2
<1>4. /\ Tail(c) \in Seq(V) /\ Len(Tail(c)) = Len(c) - 1
      /\ \A k \in 1 .. (Len(c) - 1) : Tail(c)[k] = c[k + 1]
  BY <1>3
<1>5. PICK e \in Seq(V) : e = Tail(c) /\ Len(e) = n /\ \A k \in 1 .. n : e[k] = c[k + 1]
  <2>1. Len(Tail(c)) = n
    BY <1>1, <1>2, <1>4
  <2>2. \A k \in 1 .. n : Tail(c)[k] = c[k + 1]
    BY <1>1, <1>2, <1>4
  <2> QED
    BY <1>4, <2>1, <2>2
<1>6. /\ Tail(s) \in Seq(Items) /\ Len(Tail(s)) = Len(s) - 1
      /\ \A k \in 1 .. (Len(s) - 1) : Tail(s)[k] = s[k + 1]
  OBVIOUS
<1>7. PICK r \in Seq(Items) :
        r = Tail(s) /\ Len(r) = n /\ \A k \in 1 .. n : r[k] = s[k + 1]
  <2>1. Len(Tail(s)) = n
    BY <1>1, <1>6
  <2>2. \A k \in 1 .. n : Tail(s)[k] = s[k + 1]
    BY <1>1, <1>6
  <2> QED
    BY <1>6, <2>1, <2>2
<1>8. \A k \in 1 .. n : e[k] = d[r[k]]
  <2>1. \A k \in 1 .. n : k + 1 \in 1 .. m
    BY <1>1
  <2> QED
    BY <1>2, <1>5, <1>7, <2>1
<1>9. e = [k \in 1 .. n |-> e[k]]
  <2>1. e \in [1 .. Len(e) -> V]
    OBVIOUS
  <2> QED
    BY <1>5, <2>1
<1>10. e = DataOf(r, d)
  BY <1>7, <1>8, <1>9 DEF DataOf
<1> QED
  BY <1>2, <1>3, <1>5, <1>7, <1>10

LEMMA DataOfAppend ==
  ASSUME NEW V, NEW d \in [Items -> V], NEW s \in Seq(Items), NEW i \in Items
  PROVE  DataOf(Append(s, i), d) = Append(DataOf(s, d), d[i])
<1>1. PICK n \in Nat : n = Len(s)
  OBVIOUS
<1>2. PICK c \in Seq(V) :
        c = DataOf(s, d) /\ Len(c) = n /\ \A k \in 1 .. n : c[k] = d[s[k]]
  <2>1. \A k \in 1 .. Len(s) : d[s[k]] \in V
    OBVIOUS
  <2>2. DataOf(s, d) \in [1 .. Len(s) -> V]
    BY <2>1 DEF DataOf
  <2>3. DataOf(s, d) \in Seq(V) /\ Len(DataOf(s, d)) = Len(s)
    BY <1>1, <2>2
  <2>4. \A k \in 1 .. Len(s) : DataOf(s, d)[k] = d[s[k]]
    BY DEF DataOf
  <2> QED
    BY <1>1, <2>3, <2>4
<1>3. PICK v \in V : v = d[i]
  OBVIOUS
<1>4. /\ Append(c, v) \in Seq(V) /\ Len(Append(c, v)) = Len(c) + 1
      /\ Append(c, v)[Len(c) + 1] = v
      /\ \A k \in 1 .. Len(c) : Append(c, v)[k] = c[k]
  OBVIOUS
<1>5. PICK e \in Seq(V) : /\ e = Append(c, v) /\ Len(e) = n + 1 /\ e[n + 1] = v
                          /\ \A k \in 1 .. n : e[k] = c[k]
  BY <1>2, <1>4
<1>6. /\ Append(s, i) \in Seq(Items) /\ Len(Append(s, i)) = Len(s) + 1
      /\ Append(s, i)[Len(s) + 1] = i
      /\ \A k \in 1 .. Len(s) : Append(s, i)[k] = s[k]
  OBVIOUS
<1>7. PICK r \in Seq(Items) : /\ r = Append(s, i) /\ Len(r) = n + 1 /\ r[n + 1] = i
                              /\ \A k \in 1 .. n : r[k] = s[k]
  BY <1>1, <1>6
<1>8. \A k \in 1 .. (n + 1) : e[k] = d[r[k]]
  <2>1. \A k \in 1 .. (n + 1) : k \in 1 .. n \/ k = n + 1
    BY <1>1
  <2> QED
    BY <1>2, <1>3, <1>5, <1>7, <2>1
<1>9. e = [k \in 1 .. (n + 1) |-> e[k]]
  <2>1. e \in [1 .. Len(e) -> V]
    OBVIOUS
  <2> QED
    BY <1>5, <2>1
<1>10. e = DataOf(r, d)
  BY <1>7, <1>8, <1>9 DEF DataOf
<1> QED
  BY <1>2, <1>3, <1>5, <1>7, <1>10

ContentsAreData ==
  \A ls, w : Placed(ls, w) => \A q \in Queues : Content(q) = DataOf(ls[q], data)

LEMMA ContentsHold == ContentsAreData
<1> SUFFICES ASSUME NEW ls, NEW w, Placed(ls, w), NEW q \in Queues
             PROVE  Content(q) = DataOf(ls[q], data)
  BY DEF ContentsAreData
<1>1. q \in Lists /\ First(q) = head[q] /\ ls[q] \in Seq(Items)
  BY Sizes DEF Lists, First, Placed, ListsAre
<1>2. Chain(head[q]) = ls[q] /\ DOMAIN ls[q] = 1 .. Len(ls[q])
  BY <1>1, ListsAreChains DEF ChainsAreLists
<1> QED
  BY <1>2 DEF Content, DataOf

(* The queues are first in, first out: an item is added behind the last    *)
(* with the value pushed, leaves from the front, and nothing else that a   *)
(* thread does changes what waits in a queue.                              *)
THEOREM QueuesAreFifo == Spec => ImplementsFifo
<1>1. Init => F!Init
  <2> SUFFICES ASSUME Init PROVE F!Init
    OBVIOUS
  <2>1. PICK ls, w : ls = [o \in Lists |-> <<>>] /\ Placed(ls, w)
    BY InitHolds
  <2>2. ASSUME NEW q \in Queues PROVE Content(q) = <<>>
    <3>1. ls[q] = <<>>
      BY <2>1 DEF Lists
    <3>2. Content(q) = DataOf(<<>>, data)
      BY <2>1, <3>1, ContentsHold DEF ContentsAreData
    <3> QED
      BY <3>2 DEF DataOf
  <2> QED
    BY <2>2 DEF F!Init
<1>2. ASSUME Inductive, [Next]_vars, ContentsAreData, ContentsAreData'
      PROVE  [F!Next]_([q \in Queues |-> Content(q)])
  <2>1. PICK ls, w : Placed(ls, w)
    BY <1>2 DEF Inductive
  <2>2. PICK rs, v : Placed(rs, v)' /\ QueuesStep(ls, rs)
    BY <1>2, <2>1, StepHolds DEF Inductive
  <2>3. PICK d, e, V : /\ d = data /\ e = data' /\ V = Values \cup {NULL}
                       /\ d \in [Items -> V]
    BY <1>2 DEF Inductive, TypeOK
  <2>4. \A q \in Queues : Content(q) = DataOf(ls[q], d) /\ ls[q] \in Seq(Items)
    BY <1>2, <2>1, <2>3 DEF ContentsAreData, Placed, ListsAre, Lists
  <2>5. \A q \in Queues : Content(q)' = DataOf(rs[q], e)
    BY <1>2, <2>2, <2>3 DEF ContentsAreData
  <2>6. PICK c, k : c = [q \in Queues |-> DataOf(ls[q], d)] /\ k = [q \in Queues |-> DataOf(rs[q], e)]
    OBVIOUS
  <2>7. [q \in Queues |-> Content(q)] = c /\ [q \in Queues |-> Content(q)]' = k
    BY <2>4, <2>5, <2>6
  <2>8. CASE /\ \A q \in Queues : rs[q] = ls[q]
             /\ \A q \in Queues : \A i : In(i, ls[q]) => e[i] = d[i]
    <3>1. \A q \in Queues : DataOf(rs[q], e) = DataOf(ls[q], d)
      BY <2>8 DEF DataOf, In
    <3> QED
      BY <2>6, <2>7, <3>1
  <2>9. ASSUME NEW q \in Queues, ls[q] # <<>>, rs[q] = Tail(ls[q]), e = d,
               \A p \in Queues : p # q => rs[p] = ls[p]
        PROVE  F!Next
    <3>1. c[q] # <<>> /\ DataOf(rs[q], e) = Tail(c[q])
      BY <2>3, <2>4, <2>6, <2>9, DataOfTail
    <3>2. k = [c EXCEPT ![q] = Tail(c[q])]
      BY <2>6, <2>9, <3>1
    <3>3. F!Dequeue(q)
      BY <2>7, <3>1, <3>2 DEF F!Dequeue
    <3> QED
      BY <3>3 DEF F!Next
  <2>10. ASSUME NEW q \in Queues, NEW i \in Items, d[i] \in Values,
                rs[q] = Append(ls[q], i), e = d,
                \A p \in Queues : p # q => rs[p] = ls[p]
         PROVE  F!Next
    <3>1. DataOf(rs[q], e) = Append(c[q], d[i])
      BY <2>3, <2>4, <2>6, <2>10, DataOfAppend
    <3>2. k = [c EXCEPT ![q] = Append(c[q], d[i])]
      BY <2>6, <2>10, <3>1
    <3>3. F!Enqueue(q, d[i])
      BY <2>7, <3>1, <3>2 DEF F!Enqueue
    <3> QED
      BY <2>10, <3>3 DEF F!Next
  <2> QED
    BY <2>2, <2>3, <2>8, <2>9, <2>10 DEF QueuesStep
<1> QED
  BY <1>1, <1>2, InductiveHolds, ContentsHold, PTL DEF Spec, ImplementsFifo, F!Spec
=============================================================================
