-------------------------- MODULE ConnStreamProofs --------------------------
(***************************************************************************)
(* That the stream of a connection is kept, for any messages, any sizes of *)
(* the socket and of rbuf, and whatever the memory behind holds.           *)
(*                                                                         *)
(* Pending is what has been sent and is not consumed.  Every step leaves   *)
(* it as it is, makes it longer at its end, cuts its end off, or takes a   *)
(* head or a body from its front; Tracks says what it is, in terms of the  *)
(* messages.  What the stream is (FlattenSeq) and what a head looks like   *)
(* to the parser are lemmas about constants.                               *)
(***************************************************************************)
EXTENDS ConnStream, SequenceTheorems, WellFoundedInduction, TLAPS

Less == {ss \in Nat \X Nat : ss[1] < ss[2]}

(* Induction over the natural numbers, for a set of them. *)
LEMMA SetInduction ==
  ASSUME NEW S \in SUBSET Nat, 0 \in S, \A n \in Nat : n \in S => n + 1 \in S
  PROVE  S = Nat
<1> DEFINE T == Nat \ S
<1>1. IsWellFoundedOn(Less, Nat)
  BY NatLessThanWellFounded DEF OpToRel, Less
<1>2. \A x, y \in Nat : x < y => <<x, y>> \in Less
  BY DEF Less
<1> SUFFICES ASSUME T # {} PROVE FALSE
  OBVIOUS
<1>3. \E x \in T : \A y \in T : ~ (<<y, x>> \in Less)
  <2>1. T \subseteq Nat
    OBVIOUS
  <2> HIDE DEF T
  <2> QED
    BY <1>1, <2>1, WFMin
<1>4. PICK x \in T : \A y \in T : ~ (<<y, x>> \in Less)
  BY <1>3
<1>5. x # 0 /\ x - 1 \in Nat /\ x - 1 < x /\ x \in Nat
  OBVIOUS
<1>6. x - 1 \in S
  BY <1>2, <1>4, <1>5
<1>7. (x - 1) + 1 = x
  BY <1>5
<1> QED
  BY <1>5, <1>6, <1>7

-----------------------------------------------------------------------------
(* The stream: the messages one after the other. *)

Flat(n) == FlattenSeq([i \in 1 .. n |-> Bytes(i)])

(* The equation FlattenSeq is defined by. *)
Piece(g, i) == IF i = 1 THEN Bytes(i) ELSE g[i - 1] \o Bytes(i)

LEMMA PiecesExist ==
  ASSUME NEW m \in Nat PROVE \E g : g = [i \in 1 .. m |-> Piece(g, i)]
<1> DEFINE S == {k \in Nat : \E g : g = [i \in 1 .. k |-> Piece(g, i)]}
<1>1. 0 \in S
  <2> DEFINE g == [i \in 1 .. 0 |-> <<>>]
  <2>1. g = [i \in 1 .. 0 |-> Piece(g, i)]
    OBVIOUS
  <2> HIDE DEF g
  <2> QED
    BY <2>1
<1>2. ASSUME NEW k \in Nat, k \in S PROVE k + 1 \in S
  <2>1. PICK g : g = [i \in 1 .. k |-> Piece(g, i)]
    BY <1>2
  <2> DEFINE f == [i \in 1 .. (k + 1) |-> Piece(g, i)]
  <2>2. ASSUME NEW i \in 1 .. (k + 1) PROVE Piece(f, i) = Piece(g, i)
    <3>1. CASE i = 1
      BY <3>1 DEF Piece
    <3>2. CASE i # 1
      <4>1. i - 1 \in 1 .. k /\ i - 1 \in 1 .. (k + 1)
        BY <3>2
      <4>2. f[i - 1] = Piece(g, i - 1) /\ g[i - 1] = Piece(g, i - 1)
        BY <2>1, <4>1
      <4> HIDE DEF f
      <4> QED
        BY <4>2 DEF Piece
    <3> QED
      BY <3>1, <3>2
  <2>3. f = [i \in 1 .. (k + 1) |-> Piece(f, i)]
    BY <2>2
  <2>4. \E h : h = [i \in 1 .. (k + 1) |-> Piece(h, i)]
    <3> HIDE DEF f
    <3> QED
      BY <2>3
  <2> QED
    BY <2>4
<1>3. S = Nat
  <2>1. S \in SUBSET Nat
    OBVIOUS
  <2> HIDE DEF S
  <2> QED
    BY <1>1, <1>2, <2>1, SetInduction
<1> QED
  BY <1>3

Pieces(m) == CHOOSE g : g = [i \in 1 .. m |-> Piece(g, i)]

LEMMA PiecesAre ==
  ASSUME NEW m \in Nat, NEW i \in 1 .. m
  PROVE  Pieces(m)[i] = Piece(Pieces(m), i)
<1>1. Pieces(m) = [j \in 1 .. m |-> Piece(Pieces(m), j)]
  BY PiecesExist DEF Pieces
<1> QED
  BY <1>1

LEMMA FlatIs ==
  ASSUME NEW n \in Nat
  PROVE  Flat(n) = IF n = 0 THEN <<>> ELSE Pieces(n)[n]
<1> DEFINE s == [i \in 1 .. n |-> Bytes(i)]
<1>1. Len(s) = n /\ \A i \in 1 .. n : s[i] = Bytes(i)
  OBVIOUS
<1>2. CASE n = 0
  <2>1. Flat(n) = s
    BY <1>1, <1>2 DEF Flat, FlattenSeq
  <2>2. s = <<>>
    BY <1>2
  <2> QED
    BY <1>2, <2>1, <2>2
<1>3. CASE n # 0
  <2>1. \A g : [i \in 1 .. n |-> IF i = 1 THEN s[i] ELSE g[i - 1] \o s[i]]
                 = [i \in 1 .. n |-> Piece(g, i)]
    BY <1>1 DEF Piece
  <2> HIDE DEF s
  <2>2. FlattenSeq(s) =
          (CHOOSE g : g = [i \in 1 .. n |-> IF i = 1 THEN s[i] ELSE g[i - 1] \o s[i]])[n]
    BY <1>1, <1>3 DEF FlattenSeq
  <2>3. FlattenSeq(s) = Pieces(n)[n]
    BY <2>1, <2>2 DEF Pieces
  <2> QED
    BY <1>3, <2>3 DEF Flat, s
<1> QED
  BY <1>2, <1>3

LEMMA PiecesAgree ==
  ASSUME NEW n \in Nat, NEW i \in 1 .. n
  PROVE  Pieces(n + 1)[i] = Pieces(n)[i]
<1> DEFINE S == {k \in Nat : k \in 1 .. n => Pieces(n + 1)[k] = Pieces(n)[k]}
<1>1. 0 \in S
  OBVIOUS
<1>2. ASSUME NEW k \in Nat, k \in S PROVE k + 1 \in S
  <2> SUFFICES ASSUME k + 1 \in 1 .. n
               PROVE  Pieces(n + 1)[k + 1] = Pieces(n)[k + 1]
    OBVIOUS
  <2>1. /\ Pieces(n + 1)[k + 1] = Piece(Pieces(n + 1), k + 1)
        /\ Pieces(n)[k + 1] = Piece(Pieces(n), k + 1)
    <3>1. k + 1 \in 1 .. (n + 1) /\ n + 1 \in Nat
      OBVIOUS
    <3> QED
      BY <3>1, PiecesAre
  <2>2. k + 1 # 1 => Pieces(n + 1)[k] = Pieces(n)[k]
    BY <1>2
  <2> QED
    BY <2>1, <2>2 DEF Piece
<1>3. S = Nat
  <2>1. S \in SUBSET Nat
    OBVIOUS
  <2> HIDE DEF S
  <2> QED
    BY <1>1, <1>2, <2>1, SetInduction
<1> QED
  BY <1>3

LEMMA Joined ==
  ASSUME NEW s \in Seq(Symbols), NEW t \in Seq(Symbols)
  PROVE  /\ s \o t \in Seq(Symbols)
         /\ Len(s) \in Nat /\ Len(t) \in Nat
         /\ Len(s \o t) = Len(s) + Len(t)
         /\ \A i \in 1 .. Len(s) : (s \o t)[i] = s[i]
         /\ \A i \in 1 .. Len(t) : (s \o t)[Len(s) + i] = t[i]
<1>1. s \o t \in Seq(Symbols) /\ Len(s) \in Nat /\ Len(t) \in Nat
  OBVIOUS
<1>2. Len(s \o t) = Len(s) + Len(t)
  OBVIOUS
<1>3. \A i \in 1 .. Len(s) : (s \o t)[i] = s[i]
  OBVIOUS
<1>4. \A i \in 1 .. Len(t) : (s \o t)[Len(s) + i] = t[i]
  OBVIOUS
<1> QED
  BY <1>1, <1>2, <1>3, <1>4

(* The head of a message, and the whole of it. *)
HeadOf7(i) ==
  <<Sym("call", i), NL, Sym("seq", i), NL, Sym("len", Len(Bodies[i])), NL, NL>>

LEMMA BytesAre ==
  ASSUME NEW i \in 1 .. Count
  PROVE  /\ Bodies[i] \in Seq(Symbols)
         /\ Bytes(i) \in Seq(Symbols)
         /\ Len(Bodies[i]) \in Nat
         /\ Len(Bytes(i)) = 7 + Len(Bodies[i])
         /\ \A j \in 1 .. 7 : Bytes(i)[j] = HeadOf7(i)[j]
         /\ \A j \in 1 .. Len(Bodies[i]) : Bytes(i)[7 + j] = Bodies[i][j]
<1>1. Bodies[i] \in Seq(Symbols)
  BY StreamAssumption DEF Count
<1>2. Len(Bodies[i]) \in Nat
  BY <1>1
<1>3. i \in Nat
  BY StreamAssumption DEF Count
<1> DEFINE h == HeadOf7(i)
<1>4. h \in Seq(Symbols)
  <2>1. Sym("call", i) \in Symbols /\ Sym("seq", i) \in Symbols
    BY <1>3 DEF Sym, Symbols
  <2>2. Sym("len", Len(Bodies[i])) \in Symbols /\ NL \in Symbols
    BY <1>2 DEF Sym, Symbols, NL
  <2> QED
    BY <2>1, <2>2 DEF HeadOf7
<1>5. Len(h) = 7
  BY DEF HeadOf7
<1>6. Bytes(i) = h \o Bodies[i]
  BY DEF Bytes, HeadOf7
<1> HIDE DEF h
<1>7. /\ Bytes(i) \in Seq(Symbols)
      /\ Len(Bytes(i)) = 7 + Len(Bodies[i])
      /\ \A j \in 1 .. 7 : Bytes(i)[j] = h[j]
      /\ \A j \in 1 .. Len(Bodies[i]) : Bytes(i)[7 + j] = Bodies[i][j]
  <2>1. /\ h \o Bodies[i] \in Seq(Symbols) /\ Len(h) \in Nat
        /\ Len(h \o Bodies[i]) = Len(h) + Len(Bodies[i])
        /\ \A j \in 1 .. Len(h) : (h \o Bodies[i])[j] = h[j]
        /\ \A j \in 1 .. Len(Bodies[i]) : (h \o Bodies[i])[Len(h) + j] = Bodies[i][j]
    BY <1>1, <1>4, Joined
  <2> QED
    BY <1>5, <1>6, <2>1
<1> QED
  BY <1>1, <1>2, <1>7 DEF h

LEMMA FlatStep ==
  ASSUME NEW n \in 0 .. Count - 1
  PROVE  Flat(n + 1) = Flat(n) \o Bytes(n + 1)
<1>1. n \in Nat /\ n + 1 \in Nat /\ n + 1 \in 1 .. Count /\ n + 1 # 0
  BY StreamAssumption DEF Count
<1>2. Flat(n + 1) = Pieces(n + 1)[n + 1]
  BY <1>1, FlatIs
<1>3. Pieces(n + 1)[n + 1] = Piece(Pieces(n + 1), n + 1)
  BY <1>1, PiecesAre
<1>4. CASE n = 0
  <2>1. Flat(n) = <<>>
    BY <1>1, <1>4, FlatIs
  <2>2. Bytes(n + 1) \in Seq(Symbols)
    BY <1>1, BytesAre
  <2>3. <<>> \o Bytes(n + 1) = Bytes(n + 1)
    BY <2>2
  <2>4. n + 1 = 1
    BY <1>4
  <2>5. Flat(n + 1) = Bytes(n + 1)
    BY <1>2, <1>3, <2>4 DEF Piece
  <2> QED
    BY <2>1, <2>3, <2>5
<1>5. CASE n # 0
  <2>1. Flat(n) = Pieces(n)[n]
    BY <1>1, <1>5, FlatIs
  <2>2. Pieces(n + 1)[n] = Pieces(n)[n]
    BY <1>1, <1>5, PiecesAgree
  <2>3. n + 1 # 1 /\ (n + 1) - 1 = n
    BY <1>1, <1>5
  <2> QED
    BY <1>2, <1>3, <2>1, <2>2, <2>3 DEF Piece
<1> QED
  BY <1>4, <1>5

(* Where message h + 1 begins. *)
Off(h) == Len(Flat(h))

LEMMA FlatTyped ==
  ASSUME NEW n \in 0 .. Count
  PROVE  Flat(n) \in Seq(Symbols) /\ Off(n) \in Nat
<1> DEFINE S == {k \in Nat : k <= Count => Flat(k) \in Seq(Symbols)}
<1>0. Count \in Nat
  BY StreamAssumption DEF Count
<1>1. 0 \in S
  <2>1. Flat(0) = <<>>
    BY FlatIs
  <2>2. Flat(0) \in Seq(Symbols)
    BY <2>1, EmptySeq
  <2> QED
    BY <2>2
<1>2. ASSUME NEW k \in Nat, k \in S PROVE k + 1 \in S
  <2> SUFFICES ASSUME k + 1 <= Count PROVE Flat(k + 1) \in Seq(Symbols)
    OBVIOUS
  <2>1. k \in 0 .. Count - 1 /\ k + 1 \in 1 .. Count
    BY <1>0
  <2>2. Flat(k) \in Seq(Symbols)
    BY <1>2, <1>0
  <2>3. Bytes(k + 1) \in Seq(Symbols)
    BY <2>1, BytesAre
  <2>4. Flat(k + 1) = Flat(k) \o Bytes(k + 1)
    BY <2>1, FlatStep
  <2> QED
    BY <2>2, <2>3, <2>4, Joined
<1>3. S = Nat
  <2>1. S \in SUBSET Nat
    OBVIOUS
  <2> HIDE DEF S
  <2> QED
    BY <1>1, <1>2, <2>1, SetInduction
<1>4. Flat(n) \in Seq(Symbols)
  BY <1>0, <1>3
<1> QED
  BY <1>4 DEF Off

LEMMA OffStep ==
  ASSUME NEW h \in 0 .. Count - 1
  PROVE  /\ Off(h) \in Nat
         /\ Off(h + 1) = Off(h) + 7 + Len(Bodies[h + 1])
         /\ Off(h + 1) \in Nat
<1>0. Count \in Nat
  BY StreamAssumption DEF Count
<1>1. h \in 0 .. Count /\ h + 1 \in 0 .. Count /\ h + 1 \in 1 .. Count
  BY <1>0
<1>2. Flat(h) \in Seq(Symbols) /\ Off(h) \in Nat /\ Off(h + 1) \in Nat
  BY <1>1, FlatTyped
<1>3. /\ Bytes(h + 1) \in Seq(Symbols)
      /\ Len(Bytes(h + 1)) = 7 + Len(Bodies[h + 1])
      /\ Len(Bodies[h + 1]) \in Nat
  BY <1>1, BytesAre
<1>4. Flat(h + 1) = Flat(h) \o Bytes(h + 1)
  BY FlatStep
<1>5. Len(Flat(h + 1)) = Len(Flat(h)) + Len(Bytes(h + 1))
  BY <1>2, <1>3, <1>4, ConcatProperties
<1>6. Off(h + 1) = Off(h) + Len(Bytes(h + 1))
  BY <1>5 DEF Off
<1> QED
  BY <1>2, <1>3, <1>6

(* Message h + 1 is where it ought to be, in every longer stream. *)
LEMMA StreamAt ==
  ASSUME NEW h \in 0 .. Count - 1, NEW n \in h + 1 .. Count
  PROVE  /\ Off(h + 1) <= Off(n)
         /\ \A j \in 1 .. Len(Bytes(h + 1)) : Flat(n)[Off(h) + j] = Bytes(h + 1)[j]
<1> DEFINE
  At(k) == /\ Off(h + 1) <= Off(k)
           /\ \A j \in 1 .. Len(Bytes(h + 1)) : Flat(k)[Off(h) + j] = Bytes(h + 1)[j]
  S == {k \in Nat : k \in h + 1 .. Count => At(k)}
<1>0. Count \in Nat /\ h \in Nat
  BY StreamAssumption DEF Count
<1>1. h \in 0 .. Count /\ h + 1 \in 0 .. Count /\ h + 1 \in 1 .. Count
  BY <1>0
<1>2. /\ Flat(h) \in Seq(Symbols) /\ Off(h) \in Nat /\ Off(h) = Len(Flat(h))
      /\ Flat(h + 1) \in Seq(Symbols) /\ Off(h + 1) \in Nat
      /\ Off(h + 1) = Len(Flat(h + 1))
  BY <1>1, FlatTyped DEF Off
<1>3. Bytes(h + 1) \in Seq(Symbols)
  BY <1>1, BytesAre
<1>4. At(h + 1)
  <2>1. Flat(h + 1) = Flat(h) \o Bytes(h + 1)
    BY FlatStep
  <2> QED
    BY <1>2, <1>3, <2>1
<1>5. 0 \in S
  BY <1>0
<1>6. ASSUME NEW k \in Nat, k \in S PROVE k + 1 \in S
  <2> SUFFICES ASSUME k + 1 \in h + 1 .. Count PROVE At(k + 1)
    OBVIOUS
  <2>1. CASE k = h
    BY <1>4, <2>1
  <2>2. CASE k # h
    <3>1. k \in h + 1 .. Count /\ k \in 0 .. Count - 1 /\ k \in 0 .. Count
          /\ k + 1 \in 1 .. Count /\ k + 1 \in 0 .. Count
      BY <1>0, <2>2
    <3>2. At(k)
      BY <1>6, <3>1
    <3>3. Flat(k) \in Seq(Symbols) /\ Bytes(k + 1) \in Seq(Symbols) /\ Off(k) \in Nat
      BY <3>1, FlatTyped, BytesAre
    <3>4. Flat(k + 1) = Flat(k) \o Bytes(k + 1)
      BY <3>1, FlatStep
    <3>5. Len(Flat(k)) <= Len(Flat(k + 1))
          /\ \A i \in 1 .. Len(Flat(k)) : Flat(k + 1)[i] = Flat(k)[i]
      BY <3>3, <3>4
    <3>6. Len(Bytes(h + 1)) \in Nat /\ Off(h) + Len(Bytes(h + 1)) = Off(h + 1)
      <4>1. Len(Bytes(h + 1)) = 7 + Len(Bodies[h + 1]) /\ Len(Bodies[h + 1]) \in Nat
        BY <1>1, BytesAre
      <4>2. Off(h + 1) = Off(h) + 7 + Len(Bodies[h + 1])
        BY OffStep
      <4> DEFINE a == Len(Bodies[h + 1])
      <4>3. a \in Nat /\ Len(Bytes(h + 1)) = 7 + a /\ Off(h + 1) = Off(h) + 7 + a
        BY <4>1, <4>2
      <4> DEFINE o == Off(h)
      <4>4. o \in Nat
        BY <1>2
      <4> HIDE DEF a, o
      <4>5. 7 + a \in Nat /\ o + (7 + a) = o + 7 + a
        BY <4>3, <4>4
      <4> QED
        BY <4>3, <4>5 DEF o
    <3>7. \A j \in 1 .. Len(Bytes(h + 1)) : Off(h) + j \in 1 .. Len(Flat(k))
      BY <1>2, <3>2, <3>3, <3>6 DEF Off
    <3>8. Off(k + 1) \in Nat
      BY <3>1, FlatTyped
    <3> QED
      BY <1>2, <3>2, <3>3, <3>5, <3>7, <3>8 DEF Off
  <2> QED
    BY <2>1, <2>2
<1>7. S = Nat
  <2>1. S \in SUBSET Nat
    OBVIOUS
  <2> HIDE DEF S
  <2> QED
    BY <1>5, <1>6, <2>1, SetInduction
<1> QED
  BY <1>0, <1>7

-----------------------------------------------------------------------------
(* rpc_conn_received_head: where it says yes there is a line. *)

(* The equation scan is defined by. *)
Places(n) == [cont : Nat, avail : 0 .. n, first : BOOLEAN]

Round(g, nls, at) ==
  \E el \in FirstNL(nls, at.cont, at.avail) :
    LET left == at.avail - (el + 1 - at.cont)
    IN  \/ ~at.first /\ el = at.cont
        \/ left = 0 /\ el + 1 \in nls
        \/ \E bl \in FirstNL(nls, el + 1, left) :
             \/ bl = el + 1
             \/ LET left2 == left - (bl + 1 - el)
                IN  left2 > 0 /\ g[From(bl + 1, left2, FALSE)]

(* A round looks only at what fewer bytes give. *)
LEMMA RoundAgrees ==
  ASSUME NEW n \in Nat, NEW nls \in SUBSET Nat, NEW at \in Places(n),
         NEW f, NEW g,
         \A b \in Places(n) : b.avail < at.avail => f[b] = g[b],
         Round(f, nls, at)
  PROVE  Round(g, nls, at)
<1> DEFINE left(el) == at.avail - (el + 1 - at.cont)
           left2(el, bl) == left(el) - (bl + 1 - el)
<1>1. PICK el \in FirstNL(nls, at.cont, at.avail) :
         \/ ~at.first /\ el = at.cont
         \/ left(el) = 0 /\ el + 1 \in nls
         \/ \E bl \in FirstNL(nls, el + 1, left(el)) :
              \/ bl = el + 1
              \/ left2(el, bl) > 0 /\ f[From(bl + 1, left2(el, bl), FALSE)]
  BY DEF Round
<1>2. el \in Nat /\ el >= at.cont
  BY DEF FirstNL
<1>3. at.cont \in Nat /\ at.avail \in 0 .. n
  BY DEF Places
<1>4. CASE \E bl \in FirstNL(nls, el + 1, left(el)) :
              \/ bl = el + 1
              \/ left2(el, bl) > 0 /\ f[From(bl + 1, left2(el, bl), FALSE)]
  <2>1. PICK bl \in FirstNL(nls, el + 1, left(el)) :
              \/ bl = el + 1
              \/ left2(el, bl) > 0 /\ f[From(bl + 1, left2(el, bl), FALSE)]
    BY <1>4
  <2>2. bl \in Nat /\ bl >= el + 1
    BY <1>2 DEF FirstNL
  <2>3. bl = el + 1 \/ (left2(el, bl) > 0 /\ g[From(bl + 1, left2(el, bl), FALSE)])
    <3>1. CASE left2(el, bl) > 0 /\ f[From(bl + 1, left2(el, bl), FALSE)]
      <4>1. left2(el, bl) \in 0 .. n /\ left2(el, bl) < at.avail /\ bl + 1 \in Nat
        BY <1>2, <1>3, <2>2, <3>1
      <4> DEFINE l2 == left2(el, bl)
                 b  == From(bl + 1, l2, FALSE)
      <4>2. b \in Places(n) /\ b.avail < at.avail
        <5>1. l2 \in 0 .. n /\ l2 < at.avail
          BY <4>1
        <5> HIDE DEF l2
        <5> QED
          BY <4>1, <5>1 DEF Places, From
      <4>3. f[b] = g[b]
        <5> HIDE DEF b
        <5> QED
          BY <4>2
      <4> QED
        BY <3>1, <4>3
    <3> QED
      BY <2>1, <3>1
  <2> QED
    BY <2>3 DEF Round
<1> QED
  BY <1>1, <1>4 DEF Round

LEMMA RoundSame ==
  ASSUME NEW n \in Nat, NEW nls \in SUBSET Nat, NEW at \in Places(n),
         NEW f, NEW g,
         \A b \in Places(n) : b.avail < at.avail => f[b] = g[b]
  PROVE  Round(f, nls, at) = Round(g, nls, at)
<1>1. Round(f, nls, at) => Round(g, nls, at)
  BY RoundAgrees
<1>2. \A b \in Places(n) : b.avail < at.avail => g[b] = f[b]
  OBVIOUS
<1>3. Round(g, nls, at) => Round(f, nls, at)
  BY <1>2, RoundAgrees
<1>4. Round(f, nls, at) \in BOOLEAN /\ Round(g, nls, at) \in BOOLEAN
  BY DEF Round
<1> QED
  BY <1>1, <1>3, <1>4

RoundsUpTo(g, nls, n, k) ==
  \A at \in Places(n) : at.avail <= k => g[at] = Round(g, nls, at)

LEMMA ScanExists ==
  ASSUME NEW n \in Nat, NEW nls \in SUBSET Nat
  PROVE  \E g : g = [at \in Places(n) |-> Round(g, nls, at)]
<1> DEFINE S == {k \in Nat : \E g : RoundsUpTo(g, nls, n, k)}
<1>1. ASSUME NEW k \in Nat, NEW g, \A at \in Places(n) : at.avail < k => g[at] = Round(g, nls, at),
             NEW f, f = [at \in Places(n) |-> Round(g, nls, at)]
      PROVE  RoundsUpTo(f, nls, n, k)
  <2> SUFFICES ASSUME NEW at \in Places(n), at.avail <= k
               PROVE  f[at] = Round(f, nls, at)
    BY DEF RoundsUpTo
  <2>1. \A b \in Places(n) : b.avail < at.avail => f[b] = g[b]
    <3> SUFFICES ASSUME NEW b \in Places(n), b.avail < at.avail PROVE f[b] = g[b]
      OBVIOUS
    <3>1. b.avail \in Nat /\ at.avail \in Nat
      BY DEF Places
    <3> QED
      BY <1>1, <3>1
  <2>2. Round(f, nls, at) = Round(g, nls, at)
    BY <2>1, RoundSame
  <2> QED
    BY <1>1, <2>2
<1>2. 0 \in S
  <2> DEFINE g == [at \in Places(n) |-> TRUE]
             f == [at \in Places(n) |-> Round(g, nls, at)]
  <2>1. \A at \in Places(n) : ~(at.avail < 0)
    BY DEF Places
  <2>2. RoundsUpTo(f, nls, n, 0)
    <3> HIDE DEF g
    <3> QED
      BY <1>1, <2>1
  <2> QED
    BY <2>2
<1>3. ASSUME NEW k \in Nat, k \in S PROVE k + 1 \in S
  <2>1. PICK g : RoundsUpTo(g, nls, n, k)
    BY <1>3
  <2> DEFINE f == [at \in Places(n) |-> Round(g, nls, at)]
  <2>2. \A at \in Places(n) : at.avail < k + 1 => g[at] = Round(g, nls, at)
    <3> SUFFICES ASSUME NEW at \in Places(n), at.avail < k + 1
                 PROVE  g[at] = Round(g, nls, at)
      OBVIOUS
    <3>1. at.avail \in Nat
      BY DEF Places
    <3> QED
      BY <2>1, <3>1 DEF RoundsUpTo
  <2>3. RoundsUpTo(f, nls, n, k + 1)
    BY <1>1, <2>2
  <2> QED
    BY <2>3
<1>4. n \in S
  <2>1. S \in SUBSET Nat
    OBVIOUS
  <2> HIDE DEF S
  <2> QED
    BY <1>2, <1>3, <2>1, SetInduction
<1>5. PICK g : RoundsUpTo(g, nls, n, n)
  BY <1>4
<1> DEFINE f == [at \in Places(n) |-> Round(g, nls, at)]
<1>6. \A at \in Places(n) : at.avail <= n /\ at.avail \in Nat
  BY DEF Places
<1>7. RoundsUpTo(f, nls, n, n)
  BY <1>1, <1>5, <1>6 DEF RoundsUpTo
<1>8. f = [at \in Places(n) |-> Round(f, nls, at)]
  <2>1. \A at \in Places(n) : f[at] = Round(f, nls, at)
    BY <1>6, <1>7 DEF RoundsUpTo
  <2>2. f = [at \in Places(n) |-> f[at]]
    OBVIOUS
  <2> HIDE DEF f
  <2> QED
    BY <2>1, <2>2
<1> QED
  <2> HIDE DEF f
  <2> QED
    BY <1>8

LEMMA ScanNeedsLine ==
  ASSUME NEW n \in Nat, NEW nls \in SUBSET Nat, NEW p \in Nat, ScanHead(nls, p, n)
  PROVE  FirstNL(nls, p, n) # {}
<1> DEFINE scan == CHOOSE g : g = [at \in Places(n) |-> Round(g, nls, at)]
           at   == From(p, n, TRUE)
<1>1. scan = [b \in Places(n) |-> Round(scan, nls, b)]
  BY ScanExists
<1>2. at \in Places(n) /\ at.cont = p /\ at.avail = n
  BY DEF From, Places
<1>3. scan[at]
  BY DEF ScanHead, Round, Places
<1>4. Round(scan, nls, at)
  <2> HIDE DEF at, scan
  <2> QED
    BY <1>1, <1>2, <1>3
<1> QED
  <2> HIDE DEF at, scan
  <2> QED
    BY <1>2, <1>4 DEF Round

-----------------------------------------------------------------------------
(* The lines of rbuf. *)

BufOK == rbuf \in Seq(Symbols) /\ rcurr \in Nat /\ rbytes \in Nat
         /\ rcurr + rbytes <= Len(rbuf)

LEMMA LineEnds ==
  ASSUME BufOK, NEW p \in Nat, NEW e \in Nat, p >= rcurr, p <= e, e < rcurr + rbytes,
         rbuf[e + 1] = NL, \A j \in Nat : p <= j /\ j < e => rbuf[j + 1] # NL
  PROVE  EndOfLine[p] = e
<1> DEFINE nls == Newlines(rbuf)
           n   == rcurr + rbytes - p
<1>1. e \in nls
  BY DEF Newlines, BufOK
<1>2. \A j \in nls : j \in Nat /\ rbuf[j + 1] = NL
  BY DEF Newlines, BufOK
<1>3. \A j \in Nat : j < p + n <=> j < rcurr + rbytes
  BY DEF BufOK
<1>4. n \in Int /\ p + n = rcurr + rbytes /\ e <= p + n - 1
  BY DEF BufOK
<1>5. EndOfLine[p] = LET ends == FirstNL(nls, p, n)
                     IN  IF ends = {} THEN None ELSE Min(ends)
  BY DEF EndOfLine
<1> HIDE DEF nls, n
<1>6. \A j \in nls : j \in p .. e => j = e
  BY <1>2
<1>7. e \in FirstNL(nls, p, n)
  BY <1>1, <1>4, <1>6 DEF FirstNL
<1>8. ASSUME NEW i \in FirstNL(nls, p, n) PROVE i = e
  <2>1. i \in nls /\ i \in p .. p + n - 1 /\ \A j \in nls : j \in p .. i => j = i
    BY DEF FirstNL
  <2>2. i <= e => i = e
    BY <1>4, <1>6, <2>1
  <2>3. i > e => e = i
    BY <1>1, <2>1, <1>4
  <2> QED
    BY <1>4, <2>1, <2>2, <2>3
<1>9. FirstNL(nls, p, n) = {e}
  BY <1>7, <1>8
<1>10. Min({e}) = e
  BY DEF Min
<1> QED
  BY <1>5, <1>9, <1>10

LEMMA NoLineEnds ==
  ASSUME BufOK, NEW p \in Nat,
         \A j \in Nat : p <= j /\ j < rcurr + rbytes => rbuf[j + 1] # NL
  PROVE  EndOfLine[p] = None
<1> DEFINE nls == Newlines(rbuf)
           n   == rcurr + rbytes - p
<1>1. \A j \in nls : j \in Nat /\ rbuf[j + 1] = NL
  BY DEF Newlines, BufOK
<1>2. n \in Int /\ p + n = rcurr + rbytes
  BY DEF BufOK
<1>3. EndOfLine[p] = LET ends == FirstNL(nls, p, n)
                     IN  IF ends = {} THEN None ELSE Min(ends)
  BY DEF EndOfLine
<1> HIDE DEF nls, n
<1>4. FirstNL(nls, p, n) = {}
  <2> SUFFICES ASSUME NEW i \in FirstNL(nls, p, n) PROVE FALSE
    OBVIOUS
  <2>1. i \in nls /\ i \in p .. p + n - 1
    BY DEF FirstNL
  <2>2. i \in Nat /\ p <= i /\ i < p + n /\ rbuf[i + 1] = NL
    BY <1>1, <1>2, <2>1
  <2> QED
    BY <1>2, <2>2
<1> QED
  BY <1>3, <1>4

(* A head that has been received has a line. *)
LEMMA ReceivedHasLine ==
  ASSUME BufOK, NEW g \in Garbage, ReceivedHead(g), rbytes > 0
  PROVE  \E i \in Nat : i < rbytes /\ rbuf[rcurr + i + 1] = NL
<1>1. g \in Symbols
  BY StreamAssumption
<1> DEFINE b   == Append(rbuf, g)
           nls == Newlines(b)
<1>2. Len(b) = Len(rbuf) + 1 /\ \A i \in 1 .. Len(rbuf) : b[i] = rbuf[i]
  BY <1>1 DEF BufOK
<1>3. nls \in SUBSET Nat /\ \A i \in nls : b[i + 1] = NL
  BY <1>2 DEF Newlines, BufOK
<1>4. ScanHead(nls, rcurr, rbytes)
  BY DEF ReceivedHead
<1> HIDE DEF nls
<1>5. FirstNL(nls, rcurr, rbytes) # {}
  BY <1>3, <1>4, ScanNeedsLine DEF BufOK
<1>6. PICK i \in nls : i \in rcurr .. rcurr + rbytes - 1
  BY <1>5 DEF FirstNL
<1> HIDE DEF b
<1>7. i \in Nat /\ i >= rcurr /\ i < rcurr + rbytes /\ b[i + 1] = NL
  BY <1>3, <1>6 DEF BufOK
<1>8. i + 1 \in 1 .. Len(rbuf)
  BY <1>7 DEF BufOK
<1>9. rbuf[i + 1] = NL
  BY <1>2, <1>7, <1>8
<1>10. i - rcurr \in Nat /\ i - rcurr < rbytes /\ rcurr + (i - rcurr) + 1 = i + 1
  BY <1>7 DEF BufOK
<1> QED
  BY <1>9, <1>10

-----------------------------------------------------------------------------
(* What the parser makes of a message that starts at the cursor, according *)
(* to how much of its head is there.                                       *)

LEMMA Symbol ==
  ASSUME NEW v
  PROVE  /\ Sym("call", v) # NL /\ Sym("seq", v) # NL /\ Sym("len", v) # NL
         /\ Sym("call", v).k = "call" /\ Sym("call", v).v = v
         /\ Sym("seq", v).k = "seq" /\ Sym("seq", v).v = v
         /\ Sym("len", v).k = "len" /\ Sym("len", v).v = v
         /\ NL.k = "nl" /\ NUL.k = "nul"
         /\ NL \in Symbols /\ NUL \in Symbols
<1>1. /\ Sym("call", v).k = "call" /\ Sym("call", v).v = v
      /\ Sym("seq", v).k = "seq" /\ Sym("seq", v).v = v
      /\ Sym("len", v).k = "len" /\ Sym("len", v).v = v
      /\ NL.k = "nl" /\ NUL.k = "nul"
  BY DEF Sym, NL, NUL
<1>2. NL \in Symbols /\ NUL \in Symbols
  BY DEF Sym, NL, NUL, Symbols
<1> QED
  BY <1>1, <1>2

HeadHere(i) ==
  /\ rbytes >= 1 => rbuf[rcurr + 1] = Sym("call", i)
  /\ rbytes >= 2 => rbuf[rcurr + 2] = NL
  /\ rbytes >= 3 => rbuf[rcurr + 3] = Sym("seq", i)
  /\ rbytes >= 4 => rbuf[rcurr + 4] = NL
  /\ rbytes >= 5 => rbuf[rcurr + 5] = Sym("len", Len(Bodies[i]))
  /\ rbytes >= 6 => rbuf[rcurr + 6] = NL
  /\ rbytes >= 7 => rbuf[rcurr + 7] = NL

LEMMA LinesOfHead ==
  ASSUME BufOK, NEW i \in 1 .. Count, HeadHere(i), rbytes >= 2
  PROVE  /\ EndOfLine[rcurr] = rcurr + 1
         /\ rbytes < 4 => EndOfLine[rcurr + 2] = None
         /\ rbytes >= 4 => EndOfLine[rcurr + 2] = rcurr + 3
         /\ rbytes >= 4 /\ rbytes < 6 => EndOfLine[rcurr + 4] = None
         /\ rbytes >= 6 => EndOfLine[rcurr + 4] = rcurr + 5
         /\ rbytes = 6 => EndOfLine[rcurr + 6] = None
         /\ rbytes >= 7 => EndOfLine[rcurr + 6] = rcurr + 6
<1> DEFINE c == rcurr
<1>0. c \in Nat /\ rbytes \in Nat
  BY DEF BufOK
<1>1. EndOfLine[c] = c + 1
  <2>1. c + 1 \in Nat /\ c >= rcurr /\ c <= c + 1 /\ c + 1 < rcurr + rbytes
    BY <1>0
  <2>2. rbuf[(c + 1) + 1] = NL
    BY <1>0 DEF HeadHere
  <2>3. \A j \in Nat : c <= j /\ j < c + 1 => rbuf[j + 1] # NL
    <3>1. \A j \in Nat : c <= j /\ j < c + 1 => j = c
      BY <1>0
    <3> QED
      BY <1>0, <3>1, Symbol DEF HeadHere
  <2> QED
    BY <1>0, <2>1, <2>2, <2>3, LineEnds
<1>2. ASSUME rbytes < 4 PROVE EndOfLine[c + 2] = None
  <2>1. \A j \in Nat : c + 2 <= j /\ j < rcurr + rbytes => rbuf[j + 1] # NL
    <3>1. \A j \in Nat : c + 2 <= j /\ j < rcurr + rbytes => j = c + 2 /\ rbytes >= 3
      BY <1>0, <1>2
    <3>2. (c + 2) + 1 = c + 3
      BY <1>0
    <3> QED
      BY <3>1, <3>2, Symbol DEF HeadHere
  <2> QED
    BY <1>0, <2>1, NoLineEnds
<1>3. ASSUME rbytes >= 4 PROVE EndOfLine[c + 2] = c + 3
  <2>1. c + 2 \in Nat /\ c + 3 \in Nat /\ c + 2 >= rcurr /\ c + 2 <= c + 3
        /\ c + 3 < rcurr + rbytes
    BY <1>0, <1>3
  <2>2. rbuf[(c + 3) + 1] = NL
    BY <1>0, <1>3 DEF HeadHere
  <2>3. \A j \in Nat : c + 2 <= j /\ j < c + 3 => rbuf[j + 1] # NL
    <3>1. \A j \in Nat : c + 2 <= j /\ j < c + 3 => j = c + 2
      BY <1>0
    <3>2. (c + 2) + 1 = c + 3
      BY <1>0
    <3> QED
      BY <1>0, <1>3, <3>1, <3>2, Symbol DEF HeadHere
  <2> QED
    BY <1>0, <2>1, <2>2, <2>3, LineEnds
<1>4. ASSUME rbytes >= 4, rbytes < 6 PROVE EndOfLine[c + 4] = None
  <2>1. \A j \in Nat : c + 4 <= j /\ j < rcurr + rbytes => rbuf[j + 1] # NL
    <3>1. \A j \in Nat : c + 4 <= j /\ j < rcurr + rbytes => j = c + 4 /\ rbytes >= 5
      BY <1>0, <1>4
    <3>2. (c + 4) + 1 = c + 5
      BY <1>0
    <3> QED
      BY <3>1, <3>2, Symbol DEF HeadHere
  <2> QED
    BY <1>0, <2>1, NoLineEnds
<1>5. ASSUME rbytes >= 6 PROVE EndOfLine[c + 4] = c + 5
  <2>1. c + 4 \in Nat /\ c + 5 \in Nat /\ c + 4 >= rcurr /\ c + 4 <= c + 5
        /\ c + 5 < rcurr + rbytes
    BY <1>0, <1>5
  <2>2. rbuf[(c + 5) + 1] = NL
    BY <1>0, <1>5 DEF HeadHere
  <2>3. \A j \in Nat : c + 4 <= j /\ j < c + 5 => rbuf[j + 1] # NL
    <3>1. \A j \in Nat : c + 4 <= j /\ j < c + 5 => j = c + 4
      BY <1>0
    <3>2. (c + 4) + 1 = c + 5 /\ rbytes >= 5
      BY <1>0, <1>5
    <3> QED
      BY <3>1, <3>2, Symbol DEF HeadHere
  <2> QED
    BY <1>0, <2>1, <2>2, <2>3, LineEnds
<1>6. ASSUME rbytes = 6 PROVE EndOfLine[c + 6] = None
  <2>1. \A j \in Nat : ~(c + 6 <= j /\ j < rcurr + rbytes)
    BY <1>0, <1>6
  <2> QED
    BY <1>0, <2>1, NoLineEnds
<1>7. ASSUME rbytes >= 7 PROVE EndOfLine[c + 6] = c + 6
  <2>1. c + 6 \in Nat /\ c + 6 >= rcurr /\ c + 6 <= c + 6 /\ c + 6 < rcurr + rbytes
    BY <1>0, <1>7
  <2>2. rbuf[(c + 6) + 1] = NL
    BY <1>0, <1>7 DEF HeadHere
  <2>3. \A j \in Nat : ~(c + 6 <= j /\ j < c + 6)
    BY <1>0
  <2> QED
    BY <1>0, <2>1, <2>2, <2>3, LineEnds
<1> QED
  BY <1>1, <1>2, <1>3, <1>4, <1>5, <1>6, <1>7

LEMMA MaxOfTwo ==
  ASSUME NEW a \in Int, NEW b \in Int, a <= b
  PROVE  Max({a, b}) = b
BY DEF Max

IsHighest(a, b, c) == Max({a, b, c}) = c

LEMMA MaxOfThree ==
  ASSUME NEW a \in Int, NEW b \in Int, NEW c \in Int, a <= c, b <= c
  PROVE  IsHighest(a, b, c)
BY DEF Max, IsHighest

LEMMA NulledIs ==
  ASSUME BufOK, NEW ends, NEW p \in Nat, \A e \in ends : e \in Int /\ e < p
  PROVE  /\ Nulled(ends) \in Seq(Symbols)
         /\ Len(Nulled(ends)) = Len(rbuf)
         /\ \A j \in Nat : p < j /\ j <= Len(rbuf) => Nulled(ends)[j] = rbuf[j]
<1>1. NUL \in Symbols
  BY Symbol
<1> DEFINE L == Len(rbuf)
<1>2. L \in Nat /\ DOMAIN rbuf = 1 .. L /\ \A i \in 1 .. L : rbuf[i] \in Symbols
  BY DEF BufOK
<1>3. Nulled(ends) = [i \in 1 .. L |-> IF i - 1 \in ends THEN NUL ELSE rbuf[i]]
  BY <1>2 DEF Nulled
<1> HIDE DEF L
<1>4. Nulled(ends) \in [1 .. L -> Symbols]
  BY <1>1, <1>2, <1>3
<1>5. Nulled(ends) \in Seq(Symbols) /\ Len(Nulled(ends)) = L
  BY <1>2, <1>4, IsASeq
<1>6. ASSUME NEW j \in Nat, p < j, j <= L PROVE Nulled(ends)[j] = rbuf[j]
  <2>1. j \in 1 .. L /\ j - 1 \in Int /\ ~(j - 1 < p)
    BY <1>6, <1>2
  <2>2. j - 1 \notin ends
    BY <2>1
  <2> QED
    BY <1>3, <2>1, <2>2
<1> QED
  BY <1>5, <1>6 DEF L

(* Parse, when the ends of the three lines are known. *)
ParseWith(e1, e2, e3) ==
  IF ~Opens(rcurr, e1, "call") THEN Outcome("Error", {e1}, rcurr, NoHead)
  ELSE IF ~Opens(e1 + 1, e2, "seq")
       THEN Outcome("Error", {e1, e2}, 1 + Max({e1, e2}), NoHead)
  ELSE IF ~Opens(e2 + 1, e3, "len") \/ EndOfLine[e3 + 1] # e3 + 1
       THEN Outcome("Error", {e1, e2, e3}, 1 + Max({e1, e2, e3}), NoHead)
  ELSE Outcome(IF rcurr + rbytes - (e3 + 2) >= rbuf[e2 + 2].v THEN "OK" ELSE "NeedData",
               {e1, e2, e3}, e3 + 2, [seq |-> rbuf[e1 + 2].v, len |-> rbuf[e2 + 2].v])

LEMMA ParseIs ==
  Parse = ParseWith(EndOfLine[rcurr], EndOfLine[EndOfLine[rcurr] + 1],
                    EndOfLine[EndOfLine[EndOfLine[rcurr] + 1] + 1])
BY DEF Parse, ParseWith

(* The fields Parse returns, but for the result and the head. *)
ParseLeaves(k) ==
  /\ Parse.p = rcurr + k /\ Parse.n = rbytes - k
  /\ Parse.buf \in Seq(Symbols) /\ Len(Parse.buf) = Len(rbuf)
  /\ \A j \in Nat : rcurr + k < j /\ j <= Len(rbuf) => Parse.buf[j] = rbuf[j]

LEMMA ParseSets ==
  ASSUME BufOK, NEW ends, NEW k \in Nat, NEW res, NEW head,
         Parse = Outcome(res, ends, rcurr + k, head),
         \A e \in ends : e \in Int /\ e < rcurr + k
  PROVE  ParseLeaves(k) /\ Parse.res = res /\ Parse.head = head
<1>1. rcurr \in Nat /\ rbytes \in Nat /\ rcurr + k \in Nat
  BY DEF BufOK
<1> DEFINE q == rcurr + k
<1>2. /\ Nulled(ends) \in Seq(Symbols)
      /\ Len(Nulled(ends)) = Len(rbuf)
      /\ \A j \in Nat : q < j /\ j <= Len(rbuf) => Nulled(ends)[j] = rbuf[j]
  BY <1>1, NulledIs
<1>3. /\ Parse.res = res /\ Parse.head = head /\ Parse.buf = Nulled(ends)
      /\ Parse.p = rcurr + k /\ Parse.n = rcurr + rbytes - (rcurr + k)
  BY DEF Outcome
<1>4. rcurr + rbytes - (rcurr + k) = rbytes - k
  BY <1>1
<1> QED
  BY <1>2, <1>3, <1>4 DEF ParseLeaves

(* Too little of the head: the parser leaves off in the middle of it. *)
LEMMA ParseFails ==
  ASSUME BufOK, NEW i \in 1 .. Count, HeadHere(i), rbytes >= 2, rbytes < 7
  PROVE  /\ Parse.res = "Error"
         /\ \E k \in {2, 4, 6} : k <= rbytes /\ ParseLeaves(k)
<1> DEFINE c  == rcurr
           e1 == EndOfLine[c]
           e2 == EndOfLine[e1 + 1]
           e3 == EndOfLine[e2 + 1]
<1>0. c \in Nat /\ rbytes \in Nat
  BY DEF BufOK
<1>1. e1 = c + 1 /\ e1 + 1 = c + 2
  BY <1>0, LinesOfHead
<1>2. Opens(c, e1, "call")
  BY <1>0, <1>1, Symbol DEF Opens, HeadHere, None
<1>3. CASE rbytes < 4
  <2>1. e2 = None
    BY <1>1, <1>3, LinesOfHead
  <2>2. ~Opens(e1 + 1, e2, "seq")
    BY <2>1 DEF Opens
  <2>3. Max({e1, e2}) = c + 1
    <3>1. {e1, e2} = {-1, c + 1}
      BY <1>1, <2>1 DEF None
    <3> QED
      BY <1>0, <3>1, MaxOfTwo
  <2>4. Parse = Outcome("Error", {e1, e2}, 1 + (c + 1), NoHead)
    <3> HIDE DEF e1, e2, e3
    <3>1. ParseWith(e1, e2, e3) = Outcome("Error", {e1, e2}, 1 + (c + 1), NoHead)
      BY <1>2, <2>2, <2>3 DEF ParseWith
    <3> QED
      BY <3>1, ParseIs DEF e1, e2, e3
  <2>5. 1 + (c + 1) = rcurr + 2
    BY <1>0
  <2>6. \A e \in {e1, e2} : e \in Int /\ e < rcurr + 2
    BY <1>0, <1>1, <2>1 DEF None
  <2>7. ParseLeaves(2) /\ Parse.res = "Error"
    BY <2>4, <2>5, <2>6, ParseSets
  <2> QED
    BY <2>7
<1>4. CASE rbytes >= 4 /\ rbytes < 6
  <2>1. e2 = c + 3 /\ e2 + 1 = c + 4
    BY <1>0, <1>1, <1>4, LinesOfHead
  <2>2. Opens(e1 + 1, e2, "seq")
    <3>1. (e1 + 1) + 1 = rcurr + 3 /\ rbytes >= 3 /\ e1 + 1 < e2 /\ e2 # -1
      BY <1>0, <1>1, <1>4, <2>1
    <3> QED
      BY <3>1, Symbol DEF Opens, HeadHere, None
  <2>3. e3 = None
    BY <2>1, <1>4, LinesOfHead
  <2>4. ~Opens(e2 + 1, e3, "len")
    BY <2>3 DEF Opens
  <2>5. Max({e1, e2, e3}) = c + 3
    <3>1. {e1, e2, e3} = {-1, c + 1, c + 3}
      BY <1>1, <2>1, <2>3 DEF None
    <3>2. -1 \in Int /\ c + 1 \in Int /\ c + 3 \in Int /\ -1 <= c + 3 /\ c + 1 <= c + 3
      BY <1>0
    <3> HIDE DEF c, e1, e2, e3
    <3>3. IsHighest(-1, c + 1, c + 3)
      BY <3>2, MaxOfThree
    <3> QED
      BY <3>1, <3>3 DEF IsHighest
  <2>6. Parse = Outcome("Error", {e1, e2, e3}, 1 + (c + 3), NoHead)
    <3> HIDE DEF e1, e2, e3
    <3>1. ParseWith(e1, e2, e3) = Outcome("Error", {e1, e2, e3}, 1 + (c + 3), NoHead)
      BY <1>2, <2>2, <2>4, <2>5 DEF ParseWith
    <3> QED
      BY <3>1, ParseIs DEF e1, e2, e3
  <2>7. 1 + (c + 3) = rcurr + 4
    BY <1>0
  <2>8. \A e \in {e1, e2, e3} : e \in Int /\ e < rcurr + 4
    BY <1>0, <1>1, <2>1, <2>3 DEF None
  <2>9. ParseLeaves(4) /\ Parse.res = "Error"
    BY <2>6, <2>7, <2>8, ParseSets
  <2> QED
    BY <1>4, <2>9
<1>5. CASE rbytes = 6
  <2>1. e2 = c + 3 /\ e2 + 1 = c + 4
    BY <1>0, <1>1, <1>5, LinesOfHead
  <2>2. Opens(e1 + 1, e2, "seq")
    <3>1. (e1 + 1) + 1 = rcurr + 3 /\ rbytes >= 3 /\ e1 + 1 < e2 /\ e2 # -1
      BY <1>0, <1>1, <1>5, <2>1
    <3> QED
      BY <3>1, Symbol DEF Opens, HeadHere, None
  <2>3. e3 = c + 5 /\ e3 + 1 = c + 6
    BY <1>0, <2>1, <1>5, LinesOfHead
  <2>4. EndOfLine[e3 + 1] # e3 + 1
    BY <1>0, <2>3, <1>5, LinesOfHead DEF None
  <2>5. Max({e1, e2, e3}) = c + 5
    <3>1. {e1, e2, e3} = {c + 1, c + 3, c + 5}
      BY <1>1, <2>1, <2>3
    <3>2. c + 1 \in Int /\ c + 3 \in Int /\ c + 5 \in Int /\ c + 1 <= c + 5 /\ c + 3 <= c + 5
      BY <1>0
    <3> HIDE DEF c, e1, e2, e3
    <3>3. IsHighest(c + 1, c + 3, c + 5)
      BY <3>2, MaxOfThree
    <3> QED
      BY <3>1, <3>3 DEF IsHighest
  <2>6. Parse = Outcome("Error", {e1, e2, e3}, 1 + (c + 5), NoHead)
    <3> HIDE DEF e1, e2, e3
    <3>1. ParseWith(e1, e2, e3) = Outcome("Error", {e1, e2, e3}, 1 + (c + 5), NoHead)
      BY <1>2, <2>2, <2>4, <2>5 DEF ParseWith
    <3> QED
      BY <3>1, ParseIs DEF e1, e2, e3
  <2>7. 1 + (c + 5) = rcurr + 6
    BY <1>0
  <2>8. \A e \in {e1, e2, e3} : e \in Int /\ e < rcurr + 6
    BY <1>0, <1>1, <2>1, <2>3
  <2>9. ParseLeaves(6) /\ Parse.res = "Error"
    BY <2>6, <2>7, <2>8, ParseSets
  <2> QED
    BY <1>5, <2>9
<1> QED
  BY <1>0, <1>3, <1>4, <1>5

(* The head is there: it is read as it was written. *)
LEMMA ParseReads ==
  ASSUME BufOK, NEW i \in 1 .. Count, HeadHere(i), rbytes >= 7
  PROVE  /\ Parse.res = IF rbytes - 7 >= Len(Bodies[i]) THEN "OK" ELSE "NeedData"
         /\ Parse.head = [seq |-> i, len |-> Len(Bodies[i])]
         /\ ParseLeaves(7)
<1> DEFINE c  == rcurr
           e1 == EndOfLine[c]
           e2 == EndOfLine[e1 + 1]
           e3 == EndOfLine[e2 + 1]
<1>0. c \in Nat /\ rbytes \in Nat
  BY DEF BufOK
<1>1. e1 = c + 1 /\ e1 + 1 = c + 2 /\ e1 + 2 = c + 3
  BY <1>0, LinesOfHead
<1>2. e2 = c + 3 /\ e2 + 1 = c + 4 /\ e2 + 2 = c + 5
  BY <1>0, <1>1, LinesOfHead
<1>3. e3 = c + 5 /\ e3 + 1 = c + 6 /\ e3 + 2 = c + 7
  BY <1>0, <1>2, LinesOfHead
<1>4. Opens(c, e1, "call")
  BY <1>0, <1>1, Symbol DEF Opens, HeadHere, None
<1>5. Opens(e1 + 1, e2, "seq")
  <2>1. (e1 + 1) + 1 = rcurr + 3 /\ rbytes >= 3 /\ e1 + 1 < e2 /\ e2 # -1
    BY <1>0, <1>1, <1>2
  <2> QED
    BY <2>1, Symbol DEF Opens, HeadHere, None
<1>6. Opens(e2 + 1, e3, "len")
  <2>1. (e2 + 1) + 1 = rcurr + 5 /\ rbytes >= 5 /\ e2 + 1 < e3 /\ e3 # -1
    BY <1>0, <1>2, <1>3
  <2> QED
    BY <2>1, Symbol DEF Opens, HeadHere, None
<1>7. EndOfLine[e3 + 1] = e3 + 1
  BY <1>0, <1>3, LinesOfHead
<1>8. rbuf[e1 + 2].v = i /\ rbuf[e2 + 2].v = Len(Bodies[i])
  BY <1>0, <1>1, <1>2, Symbol DEF HeadHere
<1>9. rcurr + rbytes - (e3 + 2) = rbytes - 7
  BY <1>0, <1>3
<1>10. Parse = Outcome(IF rbytes - 7 >= Len(Bodies[i]) THEN "OK" ELSE "NeedData",
                       {e1, e2, e3}, e3 + 2, [seq |-> i, len |-> Len(Bodies[i])])
  <2> HIDE DEF e1, e2, e3
  <2>1. ParseWith(e1, e2, e3) =
          Outcome(IF rbytes - 7 >= Len(Bodies[i]) THEN "OK" ELSE "NeedData",
                  {e1, e2, e3}, e3 + 2, [seq |-> i, len |-> Len(Bodies[i])])
    BY <1>4, <1>5, <1>6, <1>7, <1>8, <1>9 DEF ParseWith
  <2> QED
    BY <2>1, ParseIs DEF e1, e2, e3
<1>11. \A e \in {e1, e2, e3} : e \in Int /\ e < rcurr + 7
  BY <1>0, <1>1, <1>2, <1>3
<1>12. e3 + 2 = rcurr + 7
  BY <1>3
<1>13. Parse = Outcome(IF rbytes - 7 >= Len(Bodies[i]) THEN "OK" ELSE "NeedData",
                       {e1, e2, e3}, rcurr + 7, [seq |-> i, len |-> Len(Bodies[i])])
  BY <1>10, <1>12
<1> QED
  <2> DEFINE res  == IF rbytes - 7 >= Len(Bodies[i]) THEN "OK" ELSE "NeedData"
             head == [seq |-> i, len |-> Len(Bodies[i])]
             ends == {e1, e2, e3}
  <2>1. Parse = Outcome(res, ends, rcurr + 7, head)
    BY <1>13
  <2>2. \A e \in ends : e \in Int /\ e < rcurr + 7
    BY <1>11
  <2>3. ParseLeaves(7) /\ Parse.res = res /\ Parse.head = head
    <3> HIDE DEF res, head, ends
    <3> QED
      BY <2>1, <2>2, ParseSets
  <2> QED
    BY <2>3

(* A line that does not open a message is refused, and stays. *)
LEMMA ParseRefuses ==
  ASSUME BufOK, rbytes > 0, rbuf[rcurr + 1].k # "call"
  PROVE  /\ Parse.res = "Error" /\ Parse.p = rcurr /\ Parse.n = rbytes
         /\ Parse.buf \in Seq(Symbols) /\ Len(Parse.buf) = Len(rbuf)
         /\ Parse.buf[rcurr + 1].k # "call"
<1> DEFINE e1 == EndOfLine[rcurr]
<1>0. rcurr \in Nat /\ rbytes \in Nat /\ rcurr + 1 \in 1 .. Len(rbuf)
      /\ DOMAIN rbuf = 1 .. Len(rbuf) /\ \A i \in 1 .. Len(rbuf) : rbuf[i] \in Symbols
  BY DEF BufOK
<1>1. Parse = Outcome("Error", {e1}, rcurr, NoHead)
  BY ParseIs DEF ParseWith, Opens
<1>2. Nulled({e1}) = [i \in 1 .. Len(rbuf) |-> IF i - 1 \in {e1} THEN NUL ELSE rbuf[i]]
  BY <1>0 DEF Nulled
<1>3. Nulled({e1})[rcurr + 1].k # "call"
  <2>1. Nulled({e1})[rcurr + 1] = NUL \/ Nulled({e1})[rcurr + 1] = rbuf[rcurr + 1]
    <3> HIDE DEF e1
    <3> QED
      BY <1>0, <1>2
  <2>2. NUL.k # "call"
    BY Symbol
  <2> QED
    BY <2>1, <2>2
<1>4. Nulled({e1}) \in [1 .. Len(rbuf) -> Symbols]
  <2>1. NUL \in Symbols
    BY Symbol
  <2>2. \A i \in 1 .. Len(rbuf) : (IF i - 1 \in {e1} THEN NUL ELSE rbuf[i]) \in Symbols
    BY <1>0, <2>1
  <2> QED
    BY <1>2, <2>2
<1>5. Nulled({e1}) \in Seq(Symbols) /\ Len(Nulled({e1})) = Len(rbuf)
  <2>1. Len(rbuf) \in Nat
    BY DEF BufOK
  <2> QED
    <3> DEFINE s == Nulled({e1})
               n == Len(rbuf)
    <3>1. s \in [1 .. n -> Symbols] /\ n \in Nat
      BY <1>4, <2>1
    <3> HIDE DEF s, n
    <3>2. s \in Seq(Symbols) /\ Len(s) = n
      BY <3>1, IsASeq
    <3> QED
      BY <3>2 DEF s, n
<1>6. rcurr + rbytes - rcurr = rbytes
  BY <1>0
<1>7. /\ Parse.res = "Error" /\ Parse.buf = Nulled({e1}) /\ Parse.p = rcurr
      /\ Parse.n = rcurr + rbytes - rcurr
  BY <1>1 DEF Outcome
<1> QED
  BY <1>3, <1>5, <1>6, <1>7

-----------------------------------------------------------------------------
(* What is pending, and what the steps of the sender and of read_from_conn *)
(* do to it.                                                               *)

Pend(b, c, r, s, v) == SubSeq(b, c + 1, c + r) \o s \o v

LEMMA Cut ==
  ASSUME NEW b \in Seq(Symbols), NEW c \in Nat, NEW r \in Nat, c + r <= Len(b)
  PROVE  /\ SubSeq(b, c + 1, c + r) \in Seq(Symbols)
         /\ Len(SubSeq(b, c + 1, c + r)) = r
         /\ \A i \in 1 .. r : SubSeq(b, c + 1, c + r)[i] = b[c + i]
<1> DEFINE q == SubSeq(b, c + 1, c + r)
<1>1. Len(q) = r
  BY SubSeqProperties
<1>2. \A i \in 1 .. r : q[i] = b[c + i]
  <2> TAKE i \in 1 .. r
  <2>1. i \in 1 .. ((c + r) - (c + 1) + 1) /\ (c + 1) + i - 1 = c + i
    OBVIOUS
  <2> QED
    BY <2>1
<1>3. q \in Seq(Symbols)
  <2>1. \A i \in 1 .. r : b[c + i] \in Symbols
    <3> TAKE i \in 1 .. r
    <3>1. c + i \in 1 .. Len(b)
      OBVIOUS
    <3> QED
      BY <3>1
  <2>2. q = [i \in 1 .. r |-> b[c + i]]
    <3>1. q = [i \in 1 .. ((c + r) - (c + 1) + 1) |-> b[(c + 1) + i - 1]]
      OBVIOUS
    <3>2. (c + r) - (c + 1) + 1 = r
      OBVIOUS
    <3>3. \A i \in 1 .. r : (c + 1) + i - 1 = c + i
      OBVIOUS
    <3> QED
      BY <3>1, <3>2, <3>3
  <2>3. q \in [1 .. r -> Symbols]
    BY <2>1, <2>2
  <2> HIDE DEF q
  <2> QED
    BY <2>3, IsASeq
<1> QED
  BY <1>1, <1>2, <1>3

Spells(P, b, c, r, s, v) ==
  /\ P \in Seq(Symbols)
  /\ Len(P) = r + Len(s) + Len(v)
  /\ Len(s) \in Nat /\ Len(v) \in Nat
  /\ \A i \in 1 .. r : P[i] = b[c + i]
  /\ \A i \in 1 .. Len(s) : P[r + i] = s[i]
  /\ \A i \in 1 .. Len(v) : P[r + Len(s) + i] = v[i]

LEMMA PendIs ==
  ASSUME NEW b \in Seq(Symbols), NEW c \in Nat, NEW r \in Nat, c + r <= Len(b),
         NEW s \in Seq(Symbols), NEW v \in Seq(Symbols)
  PROVE  Spells(Pend(b, c, r, s, v), b, c, r, s, v)
<1> DEFINE u == SubSeq(b, c + 1, c + r)
           w == u \o s
<1>1. u \in Seq(Symbols) /\ Len(u) = r /\ \A i \in 1 .. r : u[i] = b[c + i]
  BY Cut
<1>2. Pend(b, c, r, s, v) = w \o v
  BY DEF Pend
<1> HIDE DEF u
<1>3. /\ w \in Seq(Symbols) /\ Len(w) = r + Len(s) /\ Len(s) \in Nat
      /\ \A i \in 1 .. r : w[i] = u[i]
      /\ \A i \in 1 .. Len(s) : w[r + i] = s[i]
  BY <1>1, Joined
<1> HIDE DEF w
<1>4. /\ w \o v \in Seq(Symbols) /\ Len(w \o v) = Len(w) + Len(v) /\ Len(v) \in Nat
      /\ \A i \in 1 .. Len(w) : (w \o v)[i] = w[i]
      /\ \A i \in 1 .. Len(v) : (w \o v)[Len(w) + i] = v[i]
  BY <1>3, Joined
<1>5. \A i \in 1 .. r : (w \o v)[i] = b[c + i]
  <2> TAKE i \in 1 .. r
  <2>1. i \in 1 .. Len(w)
    BY <1>3
  <2> QED
    BY <1>1, <1>3, <1>4, <2>1
<1>6. \A i \in 1 .. Len(s) : (w \o v)[r + i] = s[i]
  <2> TAKE i \in 1 .. Len(s)
  <2>1. r + i \in 1 .. Len(w)
    BY <1>3
  <2> QED
    BY <1>3, <1>4, <2>1
<1>7. Spells(w \o v, b, c, r, s, v)
  BY <1>3, <1>4, <1>5, <1>6 DEF Spells
<1> QED
  BY <1>2, <1>7

(* Where an index of what is pending lies. *)
LEMMA PendAt ==
  ASSUME NEW r \in Nat, NEW l \in Nat, NEW m \in Nat, NEW i \in 1 .. (r + l + m)
  PROVE  \/ i \in 1 .. r
         \/ i - r \in 1 .. l /\ i = r + (i - r)
         \/ i - r - l \in 1 .. m /\ i = r + l + (i - r - l)
OBVIOUS

LEMMA OverwriteIs ==
  ASSUME NEW b \in Seq(Symbols), NEW p \in Nat, NEW s \in Seq(Symbols), p + Len(s) <= Len(b)
  PROVE  /\ Overwrite(b, p, s) \in Seq(Symbols)
         /\ Len(Overwrite(b, p, s)) = Len(b)
         /\ \A i \in 1 .. p : Overwrite(b, p, s)[i] = b[i]
         /\ \A i \in 1 .. Len(s) : Overwrite(b, p, s)[p + i] = s[i]
<1> DEFINE L == Len(b)
           o == Overwrite(b, p, s)
           V(i) == IF i \in p + 1 .. p + Len(s) THEN s[i - p] ELSE b[i]
<1>0. L \in Nat /\ Len(s) \in Nat /\ DOMAIN b = 1 .. L
  OBVIOUS
<1>1. o = [i \in 1 .. L |-> V(i)]
  BY <1>0 DEF Overwrite
<1>2. \A i \in 1 .. L : V(i) \in Symbols
  <2> TAKE i \in 1 .. L
  <2>1. i \in p + 1 .. p + Len(s) => i - p \in 1 .. Len(s)
    BY <1>0
  <2>2. \A j \in 1 .. Len(s) : s[j] \in Symbols
    OBVIOUS
  <2>3. b[i] \in Symbols
    OBVIOUS
  <2> QED
    BY <2>1, <2>2, <2>3
<1>3. o \in [1 .. L -> Symbols]
  <2> HIDE DEF V
  <2> QED
    BY <1>1, <1>2
<1>4. o \in Seq(Symbols) /\ Len(o) = L
  <2> HIDE DEF o, L
  <2> QED
    BY <1>0, <1>3, IsASeq
<1>5. \A i \in 1 .. p : o[i] = b[i]
  <2> TAKE i \in 1 .. p
  <2>1. i \in 1 .. L /\ ~(i \in p + 1 .. p + Len(s))
    BY <1>0
  <2>2. V(i) = b[i]
    BY <2>1
  <2> QED
    BY <1>1, <2>1, <2>2
<1>6. \A i \in 1 .. Len(s) : o[p + i] = s[i]
  <2> TAKE i \in 1 .. Len(s)
  <2>1. p + i \in 1 .. L /\ p + i \in p + 1 .. p + Len(s) /\ (p + i) - p = i
    BY <1>0
  <2>2. V(p + i) = s[i]
    BY <2>1
  <2> HIDE DEF V
  <2> QED
    BY <1>1, <2>1, <2>2
<1> QED
  BY <1>4, <1>5, <1>6

(* What is unread moves to the front of rbuf. *)
LEMMA CompactKeeps ==
  ASSUME NEW b \in Seq(Symbols), NEW c \in Nat, NEW r \in Nat, c + r <= Len(b),
         NEW s \in Seq(Symbols), NEW v \in Seq(Symbols)
  PROVE  LET a == Overwrite(b, 0, SubSeq(b, c + 1, c + r))
         IN  /\ a \in Seq(Symbols) /\ Len(a) = Len(b)
             /\ Pend(a, 0, r, s, v) = Pend(b, c, r, s, v)
<1> DEFINE u == SubSeq(b, c + 1, c + r)
           a == Overwrite(b, 0, u)
           P == Pend(b, c, r, s, v)
           Q == Pend(a, 0, r, s, v)
<1>1. u \in Seq(Symbols) /\ Len(u) = r /\ \A i \in 1 .. r : u[i] = b[c + i]
  BY Cut
<1>2. Len(b) \in Nat /\ 0 + Len(u) <= Len(b)
  BY <1>1
<1> HIDE DEF u
<1>3. /\ a \in Seq(Symbols) /\ Len(a) = Len(b)
      /\ \A i \in 1 .. Len(u) : a[0 + i] = u[i]
  BY <1>1, <1>2, OverwriteIs
<1>4. \A i \in 1 .. r : a[0 + i] = b[c + i]
  BY <1>1, <1>3
<1> HIDE DEF a
<1>5. /\ P \in Seq(Symbols) /\ Len(P) = r + Len(s) + Len(v)
      /\ Len(s) \in Nat /\ Len(v) \in Nat
      /\ \A i \in 1 .. r : P[i] = b[c + i]
      /\ \A i \in 1 .. Len(s) : P[r + i] = s[i]
      /\ \A i \in 1 .. Len(v) : P[r + Len(s) + i] = v[i]
  <2>1. Spells(P, b, c, r, s, v)
    BY PendIs
  <2> HIDE DEF P
  <2> QED
    BY <2>1 DEF Spells
<1>6. 0 + r <= Len(a)
  BY <1>1, <1>2, <1>3
<1>7. /\ Q \in Seq(Symbols) /\ Len(Q) = r + Len(s) + Len(v)
      /\ \A i \in 1 .. r : Q[i] = a[0 + i]
      /\ \A i \in 1 .. Len(s) : Q[r + i] = s[i]
      /\ \A i \in 1 .. Len(v) : Q[r + Len(s) + i] = v[i]
  <2>1. Spells(Q, a, 0, r, s, v)
    BY <1>3, <1>6, PendIs
  <2> HIDE DEF Q
  <2> QED
    BY <2>1 DEF Spells
<1> HIDE DEF P, Q
<1>8. \A i \in 1 .. r + Len(s) + Len(v) : P[i] = Q[i]
  <2> TAKE i \in 1 .. r + Len(s) + Len(v)
  <2>1. \/ i \in 1 .. r
        \/ i - r \in 1 .. Len(s) /\ i = r + (i - r)
        \/ i - r - Len(s) \in 1 .. Len(v) /\ i = r + Len(s) + (i - r - Len(s))
    BY <1>5, PendAt
  <2>2. \A j \in 1 .. r : P[j] = Q[j]
    BY <1>4, <1>5, <1>7
  <2>3. \A j \in 1 .. Len(s) : P[r + j] = Q[r + j]
    BY <1>5, <1>7
  <2>4. \A j \in 1 .. Len(v) : P[r + Len(s) + j] = Q[r + Len(s) + j]
    BY <1>5, <1>7
  <2> QED
    BY <2>1, <2>2, <2>3, <2>4
<1>9. P = Q
  BY <1>5, <1>7, <1>8, SeqEqual
<1> QED
  BY <1>3, <1>9 DEF P, Q, a, u

(* rbuf has grown behind what is unread. *)
LEMMA GrowKeeps ==
  ASSUME NEW b \in Seq(Symbols), NEW c \in Nat, NEW r \in Nat, c + r <= Len(b),
         NEW s \in Seq(Symbols), NEW v \in Seq(Symbols), NEW a \in Seq(Symbols),
         Len(b) <= Len(a), \A i \in 1 .. Len(b) : a[i] = b[i]
  PROVE  Pend(a, c, r, s, v) = Pend(b, c, r, s, v)
<1> DEFINE u == SubSeq(b, c + 1, c + r)
           w == SubSeq(a, c + 1, c + r)
<1>1. u \in Seq(Symbols) /\ Len(u) = r /\ \A i \in 1 .. r : u[i] = b[c + i]
  BY Cut
<1>2. c + r <= Len(a)
  OBVIOUS
<1>3. w \in Seq(Symbols) /\ Len(w) = r /\ \A i \in 1 .. r : w[i] = a[c + i]
  BY <1>2, Cut
<1>4. \A i \in 1 .. r : c + i \in 1 .. Len(b)
  OBVIOUS
<1>5. u = w
  <2> HIDE DEF u, w
  <2> QED
    BY <1>1, <1>3, <1>4, SeqEqual
<1> QED
  BY <1>5 DEF Pend

(* n bytes have been read. *)
ReadSome(b, r, s, v, n, a, t) ==
  /\ a \in Seq(Symbols) /\ Len(a) = Len(b)
  /\ t \in Seq(Symbols) /\ Len(t) = Len(s) - n
  /\ Pend(a, 0, r + n, t, v) = Pend(b, 0, r, s, v)

LEMMA ReadKeeps ==
  ASSUME NEW b \in Seq(Symbols), NEW r \in Nat, NEW n \in Nat, r + n <= Len(b),
         NEW s \in Seq(Symbols), NEW v \in Seq(Symbols), n <= Len(s)
  PROVE  ReadSome(b, r, s, v, n, Overwrite(b, r, SubSeq(s, 1, n)),
                  SubSeq(s, n + 1, Len(s)))
<1> DEFINE u == SubSeq(s, 1, n)
           t == SubSeq(s, n + 1, Len(s))
           a == Overwrite(b, r, u)
           m == Len(s) - n
           P == Pend(b, 0, r, s, v)
           Q == Pend(a, 0, r + n, t, v)
<1>1. u \in Seq(Symbols) /\ Len(u) = n /\ \A i \in 1 .. n : u[i] = s[i]
  <2>1. /\ SubSeq(s, 0 + 1, 0 + n) \in Seq(Symbols)
        /\ Len(SubSeq(s, 0 + 1, 0 + n)) = n
        /\ \A i \in 1 .. n : SubSeq(s, 0 + 1, 0 + n)[i] = s[0 + i]
    BY Cut
  <2>2. SubSeq(s, 0 + 1, 0 + n) = u /\ \A i \in 1 .. n : 0 + i = i
    OBVIOUS
  <2> QED
    BY <2>1, <2>2
<1>2. m \in Nat /\ n + m = Len(s) /\ Len(s) \in Nat
  OBVIOUS
<1> HIDE DEF m
<1>3. t \in Seq(Symbols) /\ Len(t) = m /\ \A i \in 1 .. m : t[i] = s[n + i]
  <2>1. /\ SubSeq(s, n + 1, n + m) \in Seq(Symbols)
        /\ Len(SubSeq(s, n + 1, n + m)) = m
        /\ \A i \in 1 .. m : SubSeq(s, n + 1, n + m)[i] = s[n + i]
    BY <1>2, Cut
  <2> QED
    BY <1>2, <2>1
<1> HIDE DEF u, t
<1>4. /\ a \in Seq(Symbols) /\ Len(a) = Len(b) /\ Len(b) \in Nat
      /\ \A i \in 1 .. r : a[i] = b[i]
      /\ \A i \in 1 .. n : a[r + i] = u[i]
  <2>1. r + Len(u) <= Len(b)
    BY <1>1
  <2> QED
    BY <1>1, <2>1, OverwriteIs
<1> HIDE DEF a
<1>5. /\ P \in Seq(Symbols) /\ Len(P) = r + Len(s) + Len(v) /\ Len(v) \in Nat
      /\ \A i \in 1 .. r : P[i] = b[0 + i]
      /\ \A i \in 1 .. Len(s) : P[r + i] = s[i]
      /\ \A i \in 1 .. Len(v) : P[r + Len(s) + i] = v[i]
  <2>1. 0 + r <= Len(b) /\ 0 \in Nat
    BY <1>4
  <2>2. Spells(P, b, 0, r, s, v)
    BY <2>1, PendIs
  <2> HIDE DEF P
  <2> QED
    BY <2>2 DEF Spells
<1>6. /\ Q \in Seq(Symbols) /\ Len(Q) = (r + n) + m + Len(v)
      /\ \A i \in 1 .. r + n : Q[i] = a[0 + i]
      /\ \A i \in 1 .. m : Q[(r + n) + i] = t[i]
      /\ \A i \in 1 .. Len(v) : Q[(r + n) + m + i] = v[i]
  <2>1. 0 + (r + n) <= Len(a) /\ r + n \in Nat
    BY <1>4
  <2>2. Spells(Q, a, 0, r + n, t, v)
    BY <1>3, <1>4, <2>1, PendIs
  <2> HIDE DEF Q
  <2> QED
    BY <1>3, <2>2 DEF Spells
<1> HIDE DEF P, Q
<1>7. Len(P) = Len(Q) /\ Len(P) = r + n + m + Len(v)
  <2> DEFINE l == Len(s)
             k == Len(v)
  <2>1. n + m = l /\ l \in Nat /\ m \in Nat /\ k \in Nat
    BY <1>2, <1>5
  <2>2. Len(P) = r + l + k /\ Len(Q) = (r + n) + m + k
    BY <1>5, <1>6
  <2> HIDE DEF l, k
  <2>3. Len(P) = Len(Q) /\ Len(P) = r + n + m + k
    BY <2>1, <2>2
  <2> QED
    BY <2>3 DEF k
<1>8. \A i \in 1 .. r : P[i] = Q[i]
  <2> TAKE i \in 1 .. r
  <2>1. i \in 1 .. r + n /\ 0 + i = i
    OBVIOUS
  <2> QED
    BY <1>4, <1>5, <1>6, <2>1
<1>9. \A i \in 1 .. n : P[r + i] = Q[r + i]
  <2> TAKE i \in 1 .. n
  <2>1. r + i \in 1 .. r + n /\ i \in 1 .. Len(s) /\ 0 + (r + i) = r + i
    BY <1>2
  <2>2. P[r + i] = s[i]
    BY <1>5, <2>1
  <2>3. Q[r + i] = a[r + i]
    BY <1>6, <2>1
  <2> QED
    BY <1>1, <1>4, <2>2, <2>3
<1>10. \A i \in 1 .. m : P[r + n + i] = Q[r + n + i]
  <2> TAKE i \in 1 .. m
  <2>1. n + i \in 1 .. Len(s) /\ r + (n + i) = r + n + i /\ (r + n) + i = r + n + i
    BY <1>2
  <2>2. P[r + n + i] = s[n + i]
    BY <1>5, <2>1
  <2> QED
    BY <1>3, <1>6, <2>2
<1>11. \A i \in 1 .. Len(v) : P[r + n + m + i] = Q[r + n + m + i]
  <2> TAKE i \in 1 .. Len(v)
  <2>1. r + Len(s) + i = r + n + m + i
    <3> DEFINE l == Len(s)
    <3>1. n + m = l /\ l \in Nat /\ m \in Nat /\ i \in Int
      BY <1>2
    <3> HIDE DEF l
    <3>2. r + l + i = r + n + m + i
      BY <3>1
    <3> QED
      BY <3>2 DEF l
  <2> QED
    BY <1>5, <1>6, <2>1
<1>12. \A i \in 1 .. Len(P) : P[i] = Q[i]
  <2> TAKE i \in 1 .. Len(P)
  <2>1. i \in 1 .. (r + n) + m + Len(v)
    BY <1>7
  <2>2. \/ i \in 1 .. r + n
        \/ i - (r + n) \in 1 .. m /\ i = r + n + (i - (r + n))
        \/ i - (r + n) - m \in 1 .. Len(v) /\ i = r + n + m + (i - (r + n) - m)
    BY <1>2, <1>5, <2>1
  <2>3. i \in 1 .. r + n => i \in 1 .. r \/ (i - r \in 1 .. n /\ i = r + (i - r))
    BY <2>1, <1>2, <1>5
  <2> QED
    BY <1>8, <1>9, <1>10, <1>11, <2>2, <2>3
<1>13. P = Q
  BY <1>5, <1>6, <1>7, <1>12, SeqEqual
<1> QED
  BY <1>3, <1>4, <1>13 DEF P, Q, a, u, t, m, ReadSome

(* A sequence is what comes first and the rest. *)
LEMMA Split ==
  ASSUME NEW s \in Seq(Symbols), NEW n \in Nat, n <= Len(s)
  PROVE  /\ SubSeq(s, 1, n) \in Seq(Symbols) /\ Len(SubSeq(s, 1, n)) = n
         /\ SubSeq(s, n + 1, Len(s)) \in Seq(Symbols)
         /\ SubSeq(s, 1, n) \o SubSeq(s, n + 1, Len(s)) = s
<1>1. Len(s) \in Nat /\ 0 + n <= Len(s) /\ 0 \in Nat
  OBVIOUS
<1> DEFINE p == SubSeq(s, 1, n)
           m == Len(s) - n
           t == SubSeq(s, n + 1, Len(s))
<1>2. p \in Seq(Symbols) /\ Len(p) = n /\ \A i \in 1 .. n : p[i] = s[i]
  <2>1. /\ SubSeq(s, 0 + 1, 0 + n) \in Seq(Symbols)
        /\ Len(SubSeq(s, 0 + 1, 0 + n)) = n
        /\ \A i \in 1 .. n : SubSeq(s, 0 + 1, 0 + n)[i] = s[0 + i]
    BY <1>1, Cut
  <2>2. SubSeq(s, 0 + 1, 0 + n) = p /\ \A i \in 1 .. n : 0 + i = i
    OBVIOUS
  <2> QED
    BY <2>1, <2>2
<1>3. m \in Nat /\ n + m = Len(s)
  BY <1>1
<1> HIDE DEF m
<1>4. t \in Seq(Symbols) /\ Len(t) = m /\ \A i \in 1 .. m : t[i] = s[n + i]
  <2>1. /\ SubSeq(s, n + 1, n + m) \in Seq(Symbols)
        /\ Len(SubSeq(s, n + 1, n + m)) = m
        /\ \A i \in 1 .. m : SubSeq(s, n + 1, n + m)[i] = s[n + i]
    BY <1>3, Cut
  <2> QED
    BY <1>3, <2>1
<1> HIDE DEF p, t
<1>5. /\ p \o t \in Seq(Symbols) /\ Len(p \o t) = n + m
      /\ \A i \in 1 .. n : (p \o t)[i] = p[i]
      /\ \A i \in 1 .. m : (p \o t)[n + i] = t[i]
  BY <1>2, <1>4, Joined
<1> DEFINE q == p \o t
<1>6. \A i \in 1 .. Len(s) : q[i] = s[i]
  <2> TAKE i \in 1 .. Len(s)
  <2>1. i \in 1 .. n \/ (i - n \in 1 .. m /\ i = n + (i - n))
    BY <1>1, <1>3
  <2> QED
    BY <1>2, <1>4, <1>5, <2>1
<1>7. q \in Seq(Symbols) /\ Len(q) = Len(s)
  BY <1>3, <1>5
<1>8. q = s
  <2> HIDE DEF q
  <2> QED
    BY <1>6, <1>7, SeqEqual
<1> QED
  BY <1>2, <1>4, <1>8 DEF p, t

Associates(s, t, u) == (s \o t) \o u = s \o (t \o u)

LEMMA Associative ==
  ASSUME NEW s \in Seq(Symbols), NEW t \in Seq(Symbols), NEW u \in Seq(Symbols)
  PROVE  Associates(s, t, u)
BY ConcatAssociative DEF Associates

(* A message is put on the iov. *)
Adds(b, c, r, s, x) ==
  /\ Pend(b, c, r, s, <<>>) \in Seq(Symbols)
  /\ Pend(b, c, r, s, x) = Pend(b, c, r, s, <<>>) \o x

LEMMA FormatAdds ==
  ASSUME NEW b \in Seq(Symbols), NEW c \in Nat, NEW r \in Nat, c + r <= Len(b),
         NEW s \in Seq(Symbols), NEW x \in Seq(Symbols)
  PROVE  Adds(b, c, r, s, x)
<1> DEFINE u == SubSeq(b, c + 1, c + r)
           w == u \o s
<1>1. u \in Seq(Symbols)
  BY Cut
<1> HIDE DEF u
<1>2. w \in Seq(Symbols)
  BY <1>1, Joined
<1> HIDE DEF w
<1>3. w \o <<>> = w
  BY <1>2, ConcatEmptySeq
<1> QED
  BY <1>2, <1>3 DEF Adds, Pend, w, u

(* P goes on behind Q. *)
CutTo(P, Q) ==
  /\ Q \in Seq(Symbols) /\ Q # <<>>
  /\ \E t \in Seq(Symbols) : P = Q \o t

(* n bytes have been sent: all the same, or the rest is given up. *)
SentSome(b, c, r, s, v, n, p, t) ==
  /\ t \in Seq(Symbols)
  /\ s \o p \in Seq(Symbols) /\ Len(s \o p) = Len(s) + n
  /\ Pend(b, c, r, s \o p, t) = Pend(b, c, r, s, v)
  /\ CutTo(Pend(b, c, r, s, v), Pend(b, c, r, s \o p, <<>>))

LEMMA SendKeeps ==
  ASSUME NEW b \in Seq(Symbols), NEW c \in Nat, NEW r \in Nat, c + r <= Len(b),
         NEW s \in Seq(Symbols), NEW v \in Seq(Symbols), NEW n \in 1 .. Len(v),
         NEW p, p = SubSeq(v, 1, n), NEW t, t = SubSeq(v, n + 1, Len(v))
  PROVE  SentSome(b, c, r, s, v, n, p, t)
<1> DEFINE u == SubSeq(b, c + 1, c + r)
<1>1. p \in Seq(Symbols) /\ t \in Seq(Symbols) /\ p \o t = v /\ Len(p) = n
  BY Split
<1>2. u \in Seq(Symbols)
  BY Cut
<1> HIDE DEF u
<1>3. s \o p \in Seq(Symbols) /\ Len(s \o p) = Len(s) + n
  BY <1>1, Joined
<1> DEFINE w == u \o (s \o p)
<1>4. w \in Seq(Symbols) /\ Len(w) = Len(u) + (Len(s) + n) /\ Len(u) \in Nat /\ Len(s) \in Nat
  BY <1>2, <1>3, Joined
<1>5. w = (u \o s) \o p /\ u \o s \in Seq(Symbols)
  <2>1. Associates(u, s, p)
    BY <1>1, <1>2, Associative
  <2>2. u \o s \in Seq(Symbols)
    BY <1>2, Joined
  <2> QED
    BY <2>1, <2>2 DEF Associates
<1>6. w \o t = (u \o s) \o v
  <2> DEFINE us == u \o s
  <2>1. us \in Seq(Symbols) /\ w = us \o p
    BY <1>5
  <2> HIDE DEF w, us
  <2>2. Associates(us, p, t)
    BY <1>1, <2>1, Associative
  <2>3. w \o t = us \o v
    BY <1>1, <2>1, <2>2 DEF Associates
  <2> QED
    BY <2>3 DEF us
<1>7. w \o <<>> = w /\ w # <<>>
  <2> HIDE DEF w
  <2> QED
    BY <1>4, ConcatEmptySeq
<1>8. /\ Pend(b, c, r, s \o p, t) = w \o t
      /\ Pend(b, c, r, s, v) = (u \o s) \o v
      /\ Pend(b, c, r, s \o p, <<>>) = w \o <<>>
  BY DEF Pend, u
<1> HIDE DEF w
<1>9. CutTo(Pend(b, c, r, s, v), Pend(b, c, r, s \o p, <<>>))
  <2> DEFINE P == Pend(b, c, r, s, v)
             Q == Pend(b, c, r, s \o p, <<>>)
  <2>1. Q = w /\ P = w \o t
    BY <1>6, <1>7, <1>8
  <2> HIDE DEF P, Q
  <2>2. CutTo(P, Q)
    BY <1>1, <1>4, <1>7, <2>1 DEF CutTo
  <2> QED
    BY <2>2 DEF P, Q
<1> QED
  BY <1>1, <1>3, <1>6, <1>8, <1>9 DEF SentSome

(* P is k symbols, and then Q. *)
Drops(P, Q, k) ==
  /\ Q \in Seq(Symbols)
  /\ \E x \in Seq(Symbols) : Len(x) = k /\ P = x \o Q

(* k bytes have been consumed, and what is behind them is as it was. *)
LEMMA TakeDrops ==
  ASSUME NEW b \in Seq(Symbols), NEW c \in Nat, NEW r \in Nat, c + r <= Len(b),
         NEW s \in Seq(Symbols), NEW v \in Seq(Symbols),
         NEW k \in Nat, k <= r, NEW a \in Seq(Symbols), Len(a) = Len(b),
         \A j \in Nat : c + k < j /\ j <= Len(b) => a[j] = b[j]
  PROVE  Drops(Pend(b, c, r, s, v), Pend(a, c + k, r - k, s, v), k)
<1> DEFINE x == SubSeq(b, c + 1, c + k)
           d == c + k
           m == r - k
           u == SubSeq(b, c + 1, c + r)
           y == SubSeq(a, d + 1, d + m)
<1>1. d \in Nat /\ m \in Nat /\ d + m = c + r /\ d <= Len(b) /\ k + m = r /\ Len(b) \in Nat
  OBVIOUS
<1>2. x \in Seq(Symbols) /\ Len(x) = k /\ \A i \in 1 .. k : x[i] = b[c + i]
  BY <1>1, Cut
<1>3. u \in Seq(Symbols) /\ Len(u) = r /\ \A i \in 1 .. r : u[i] = b[c + i]
  BY Cut
<1>4. y \in Seq(Symbols) /\ Len(y) = m /\ \A i \in 1 .. m : y[i] = a[d + i]
  <2> HIDE DEF d, m
  <2>1. d + m <= Len(a)
    BY <1>1
  <2> QED
    BY <1>1, <2>1, Cut
<1>5. \A i \in 1 .. m : y[i] = b[d + i]
  <2> TAKE i \in 1 .. m
  <2>1. d + i \in Nat /\ c + k < d + i /\ d + i <= Len(b)
    BY <1>1
  <2>2. a[d + i] = b[d + i]
    <3> DEFINE j == d + i
    <3>1. j \in Nat /\ c + k < j /\ j <= Len(b)
      BY <2>1
    <3> HIDE DEF j
    <3>2. a[j] = b[j]
      BY <3>1
    <3> QED
      BY <3>2 DEF j
  <2> QED
    BY <1>4, <2>2
<1> HIDE DEF x, u, y
<1> DEFINE z == x \o y
<1>6. /\ z \in Seq(Symbols) /\ Len(z) = k + m
      /\ \A i \in 1 .. k : z[i] = x[i]
      /\ \A i \in 1 .. m : z[k + i] = y[i]
  <2> HIDE DEF m
  <2>1. x \in Seq(Symbols) /\ y \in Seq(Symbols) /\ Len(x) = k /\ Len(y) = m
    BY <1>2, <1>4
  <2>2. /\ x \o y \in Seq(Symbols) /\ Len(x \o y) = Len(x) + Len(y)
        /\ \A i \in 1 .. Len(x) : (x \o y)[i] = x[i]
        /\ \A i \in 1 .. Len(y) : (x \o y)[Len(x) + i] = y[i]
    BY <2>1, Joined
  <2> QED
    BY <2>1, <2>2
<1>7. \A i \in 1 .. r : z[i] = u[i]
  <2> TAKE i \in 1 .. r
  <2>1. i \in 1 .. k \/ (i - k \in 1 .. m /\ i = k + (i - k) /\ d + (i - k) = c + i)
    BY <1>1
  <2> HIDE DEF z, d, m
  <2>2. u[i] = b[c + i]
    BY <1>3
  <2>3. i \in 1 .. k => z[i] = b[c + i]
    BY <1>2, <1>6
  <2>4. ASSUME i - k \in 1 .. m, i = k + (i - k), d + (i - k) = c + i PROVE z[i] = b[c + i]
    <3> DEFINE j == i - k
    <3>1. j \in 1 .. m /\ i = k + j /\ d + j = c + i
      BY <2>4
    <3> HIDE DEF j
    <3>2. z[k + j] = y[j] /\ y[j] = b[d + j]
      BY <1>5, <1>6, <3>1
    <3> QED
      BY <3>1, <3>2
  <2> QED
    BY <2>1, <2>2, <2>3, <2>4
<1> HIDE DEF m, d
<1>8. z = u
  <2> HIDE DEF z
  <2>1. Len(z) = r
    BY <1>1, <1>6
  <2> QED
    BY <1>3, <1>6, <1>7, <2>1, SeqEqual
<1> DEFINE ys == y \o s
           Q  == ys \o v
<1>9. ys \in Seq(Symbols) /\ Q \in Seq(Symbols)
  BY <1>4, Joined
<1>10. u \o s = x \o ys
  <2>1. Associates(x, y, s)
    BY <1>2, <1>4, Associative
  <2> QED
    BY <1>8, <2>1 DEF Associates
<1>11. (u \o s) \o v = x \o Q
  <2>1. ys \in Seq(Symbols) /\ u \o s = x \o ys
    BY <1>9, <1>10
  <2> HIDE DEF ys
  <2>2. Associates(x, ys, v)
    BY <1>2, <2>1, Associative
  <2> QED
    BY <2>1, <2>2 DEF Associates
<1>12. Q = Pend(a, d, m, s, v) /\ Pend(b, c, r, s, v) = (u \o s) \o v
  BY DEF Pend, y, u
<1> DEFINE P == (u \o s) \o v
<1>13. Drops(P, Q, k)
  <2>1. P = x \o Q /\ Q \in Seq(Symbols)
    BY <1>9, <1>11
  <2> HIDE DEF P, Q
  <2> QED
    BY <1>2, <2>1 DEF Drops
<1> HIDE DEF Q, P
<1> QED
  BY <1>12, <1>13 DEF d, m, P

-----------------------------------------------------------------------------
(* Where the reader stands: h messages are handled, n are sent, P is       *)
(* pending, u the head that waits for its body, c whether the last message *)
(* was cut short, m whether the reader has misread a head.                 *)

HeadOf(u, h, n) ==
  u # NoHead => h < n /\ u = [seq |-> h + 1, len |-> Len(Bodies[h + 1])]

PosOf(h, u) == IF u = NoHead THEN Off(h) ELSE Off(h) + 7

(* P is the stream of n messages from d on, all of it unless c. *)
AlignedAt(P, d, n, c) ==
  /\ d + Len(P) <= Off(n)
  /\ ~c => d + Len(P) = Off(n)
  /\ \A i \in 1 .. Len(P) : P[i] = Flat(n)[d + i]

DeafAt(P, u, c) ==
  /\ u = NoHead
  /\ P = <<>> => c
  /\ P # <<>> => P[1].k # "call"

Tracks(P, h, n, u, c, m) ==
  IF m THEN DeafAt(P, u, c)
  ELSE HeadOf(u, h, n) /\ AlignedAt(P, PosOf(h, u), n, c)

LEMMA PosTyped ==
  ASSUME NEW h \in 0 .. Count, NEW u PROVE PosOf(h, u) \in Nat
BY FlatTyped DEF PosOf

LEMMA AlignedFormat ==
  ASSUME NEW n \in 0 .. Count - 1, NEW d \in Nat, NEW P \in Seq(Symbols),
         AlignedAt(P, d, n, FALSE)
  PROVE  AlignedAt(P \o Bytes(n + 1), d, n + 1, FALSE)
<1> DEFINE B == Bytes(n + 1)
           F == Flat(n)
           Q == P \o B
<1>0. Count \in Nat
  BY StreamAssumption DEF Count
<1>1. n \in 0 .. Count /\ n + 1 \in 1 .. Count /\ n + 1 \in 0 .. Count
  BY <1>0
<1>2. F \in Seq(Symbols) /\ B \in Seq(Symbols) /\ Off(n) \in Nat /\ Off(n) = Len(F)
  BY <1>1, FlatTyped, BytesAre DEF Off
<1>3. Flat(n + 1) = F \o B
  BY FlatStep
<1> HIDE DEF B, F
<1>4. /\ Q \in Seq(Symbols) /\ Len(Q) = Len(P) + Len(B)
      /\ Len(P) \in Nat /\ Len(B) \in Nat
      /\ \A i \in 1 .. Len(P) : Q[i] = P[i]
      /\ \A i \in 1 .. Len(B) : Q[Len(P) + i] = B[i]
  BY <1>2, Joined
<1> DEFINE G == F \o B
<1>5. /\ Len(G) = Len(F) + Len(B)
      /\ \A i \in 1 .. Len(F) : G[i] = F[i]
      /\ \A i \in 1 .. Len(B) : G[Len(F) + i] = B[i]
  BY <1>2, Joined
<1>6. /\ d + Len(P) = Len(F)
      /\ \A i \in 1 .. Len(P) : P[i] = F[d + i]
  BY <1>2 DEF AlignedAt, F
<1> HIDE DEF Q, G
<1>L. /\ Len(P) \in Nat /\ Len(B) \in Nat /\ Len(F) \in Nat
      /\ d + Len(P) = Len(F) /\ Len(Q) = Len(P) + Len(B) /\ Len(G) = Len(F) + Len(B)
  <2>1. Len(F) \in Nat
    BY <1>2
  <2> QED
    BY <2>1, <1>4, <1>5, <1>6
<1>7. d + Len(Q) = Len(G)
  BY <1>L
<1>8. \A i \in 1 .. Len(Q) : Q[i] = G[d + i]
  <2> TAKE i \in 1 .. Len(Q)
  <2>1. CASE i \in 1 .. Len(P)
    <3>1. d + i \in 1 .. Len(F)
      BY <1>4, <1>6, <2>1
    <3> QED
      BY <1>4, <1>5, <1>6, <2>1, <3>1
  <2>2. CASE ~(i \in 1 .. Len(P))
    <3> DEFINE j == i - Len(P)
    <3>1. j \in 1 .. Len(B) /\ i = Len(P) + j /\ d + i = Len(F) + j
      BY <1>L, <2>2
    <3> HIDE DEF j
    <3> QED
      BY <1>4, <1>5, <3>1
  <2> QED
    BY <2>1, <2>2
<1>9. Off(n + 1) = Len(G)
  BY <1>3 DEF Off, G
<1>10. Len(G) \in Nat
  BY <1>L
<1>11. Flat(n + 1) = G
  BY <1>3 DEF G
<1>12. d + Len(Q) <= Off(n + 1) /\ d + Len(Q) = Off(n + 1)
  BY <1>7, <1>9, <1>10
<1>13. AlignedAt(Q, d, n + 1, FALSE)
  BY <1>8, <1>11, <1>12 DEF AlignedAt
<1> QED
  BY <1>13 DEF Q, B

LEMMA TracksFormat ==
  ASSUME NEW n \in 0 .. Count - 1, NEW h \in 0 .. n, NEW P \in Seq(Symbols),
         NEW u, NEW m, Tracks(P, h, n, u, FALSE, m)
  PROVE  Tracks(P \o Bytes(n + 1), h, n + 1, u, FALSE, m)
<1>0. Count \in Nat
  BY StreamAssumption DEF Count
<1>1. n + 1 \in 1 .. Count /\ h \in 0 .. Count
  BY <1>0
<1>2. Bytes(n + 1) \in Seq(Symbols)
  BY <1>1, BytesAre
<1> DEFINE B == Bytes(n + 1)
           Q == P \o B
<1> HIDE DEF B
<1>3. CASE m
  <2>1. u = NoHead /\ P # <<>> /\ P[1].k # "call"
    BY <1>3 DEF Tracks, DeafAt
  <2>2. 1 \in 1 .. Len(P)
    BY <2>1
  <2>3. Q[1] = P[1] /\ Len(Q) = Len(P) + Len(B) /\ Len(B) \in Nat
    BY <1>2, <2>2, Joined DEF B
  <2>4. Q # <<>>
    <3> HIDE DEF Q
    <3>1. Len(Q) # 0
      BY <2>2, <2>3
    <3> QED
      BY <3>1
  <2> HIDE DEF Q
  <2>5. DeafAt(Q, u, FALSE)
    BY <2>1, <2>3, <2>4 DEF DeafAt
  <2> QED
    BY <1>3, <2>5 DEF Tracks, Q, B
<1>4. CASE ~m
  <2>1. HeadOf(u, h, n) /\ AlignedAt(P, PosOf(h, u), n, FALSE)
    BY <1>4 DEF Tracks
  <2>2. PosOf(h, u) \in Nat
    BY <1>1, PosTyped
  <2>3. AlignedAt(Q, PosOf(h, u), n + 1, FALSE)
    BY <2>1, <2>2, AlignedFormat DEF B
  <2>4. HeadOf(u, h, n + 1)
    BY <2>1 DEF HeadOf
  <2> HIDE DEF Q
  <2> QED
    BY <1>4, <2>3, <2>4 DEF Tracks, Q, B
<1> QED
  BY <1>3, <1>4

LEMMA TracksCut ==
  ASSUME NEW n \in 0 .. Count, NEW h \in 0 .. n, NEW P, NEW Q, CutTo(P, Q),
         NEW u, NEW c, NEW m, Tracks(P, h, n, u, c, m)
  PROVE  Tracks(Q, h, n, u, TRUE, m)
<1>0. PICK t \in Seq(Symbols) : P = Q \o t
  BY DEF CutTo
<1>5. Q \in Seq(Symbols) /\ Q # <<>>
  BY DEF CutTo
<1>1. /\ Len(P) = Len(Q) + Len(t) /\ Len(Q) \in Nat /\ Len(t) \in Nat
      /\ \A i \in 1 .. Len(Q) : P[i] = Q[i]
  BY <1>0, <1>5, Joined
<1>2. 1 \in 1 .. Len(Q)
  BY <1>5
<1>3. CASE m
  <2>1. P # <<>>
    <3>1. Len(P) # 0
      BY <1>1, <1>2
    <3> QED
      BY <3>1
  <2> QED
    BY <1>1, <1>2, <1>3, <2>1 DEF Tracks, DeafAt
<1>4. CASE ~m
  <2> DEFINE d == PosOf(h, u)
  <2>0. Count \in Nat
    BY StreamAssumption DEF Count
  <2>1. d \in Nat /\ Off(n) \in Nat
    BY <2>0, PosTyped, FlatTyped
  <2>2. HeadOf(u, h, n) /\ AlignedAt(P, d, n, c)
    BY <1>4 DEF Tracks
  <2> HIDE DEF d
  <2>3. d + Len(Q) <= Off(n)
    BY <1>1, <2>1, <2>2 DEF AlignedAt
  <2>4. \A i \in 1 .. Len(Q) : Q[i] = Flat(n)[d + i]
    BY <1>1, <2>2 DEF AlignedAt
  <2>5. AlignedAt(Q, d, n, TRUE)
    BY <2>3, <2>4 DEF AlignedAt
  <2> QED
    BY <1>4, <2>2, <2>5 DEF Tracks, d
<1> QED
  BY <1>3, <1>4

LEMMA AlignedDrop ==
  ASSUME NEW n \in 0 .. Count, NEW d \in Nat, NEW k \in Nat, NEW P, NEW c,
         NEW x \in Seq(Symbols), NEW Q \in Seq(Symbols), P = x \o Q, Len(x) = k,
         AlignedAt(P, d, n, c)
  PROVE  AlignedAt(Q, d + k, n, c)
<1>1. /\ Len(P) = k + Len(Q) /\ Len(Q) \in Nat
      /\ \A i \in 1 .. Len(Q) : P[k + i] = Q[i]
  BY Joined
<1>2. Off(n) \in Nat
  BY FlatTyped
<1>3. (d + k) + Len(Q) = d + Len(P)
  BY <1>1
<1>4. \A i \in 1 .. Len(Q) : Q[i] = Flat(n)[(d + k) + i]
  <2> TAKE i \in 1 .. Len(Q)
  <2>1. k + i \in 1 .. Len(P) /\ d + (k + i) = (d + k) + i
    BY <1>1
  <2>2. P[k + i] = Flat(n)[d + (k + i)]
    BY <2>1 DEF AlignedAt
  <2> QED
    BY <1>1, <2>1, <2>2
<1>5. d + Len(P) <= Off(n) /\ (~c => d + Len(P) = Off(n))
  BY DEF AlignedAt
<1> QED
  BY <1>3, <1>4, <1>5 DEF AlignedAt

-----------------------------------------------------------------------------
(* The inductive invariant, in terms of the messages. *)

Types ==
  /\ sent \in 0 .. Count /\ cut \in BOOLEAN /\ misread \in BOOLEAN
  /\ iov \in Seq(Symbols) /\ sock \in Seq(Symbols) /\ Len(sock) <= SockSize
  /\ peer \in {"open", "closed", "reset"}
  /\ pc \in {"poll", "read", "handle", "closed", "crashed"}
  /\ rbuf \in Seq(Symbols) /\ rcurr \in Nat /\ rbytes \in Nat
  /\ rcurr + rbytes <= Len(rbuf)
  /\ num_allocs \in 0 .. MaxReallocs
  /\ unprocess \in [seq : Int, len : Nat]

Handled(h) == handled = [i \in 1 .. h |-> Message(i)]

Follows(h) == Handled(h) /\ Tracks(Pending, h, sent, unprocess, cut, misread)

Inductive ==
  /\ Types
  /\ cut => iov = <<>>
  /\ pc = "read" => rcurr = 0
  /\ \E h \in 0 .. sent : Follows(h)

LEMMA PendingIs == Pending = Pend(rbuf, rcurr, rbytes, sock, iov)
BY DEF Pending, Unread, Pend

LEMMA PendingIsNext == Pending' = Pend(rbuf', rcurr', rbytes', sock', iov')
BY DEF Pending, Unread, Pend

LEMMA NoHeadTyped == NoHead \in [seq : Int, len : Nat]
BY DEF NoHead

(* A step that leaves what is pending as it is. *)
LEMMA PendingKept ==
  ASSUME Inductive, Types', Pending' = Pending,
         UNCHANGED <<sent, cut, unprocess, handled, misread>>,
         cut' => iov' = <<>>, pc' = "read" => rcurr' = 0
  PROVE  Inductive'
<1>1. PICK h \in 0 .. sent : Follows(h)
  BY DEF Inductive
<1>2. Follows(h)'
  BY <1>1 DEF Follows, Handled
<1>3. h \in 0 .. sent'
  OBVIOUS
<1> QED
  BY <1>2, <1>3 DEF Inductive

LEMMA InitInductive == Init => Inductive
<1> SUFFICES ASSUME Init PROVE Inductive
  OBVIOUS
<1>1. PICK g \in Garbage : rbuf = [i \in 1 .. RSize |-> g]
  BY DEF Init
<1>2. RSize \in Nat /\ g \in Symbols /\ Count \in Nat /\ MaxReallocs \in Nat /\ SockSize \in Nat
  BY StreamAssumption DEF Count
<1>3. rbuf \in Seq(Symbols) /\ Len(rbuf) = RSize
  <2>1. rbuf \in [1 .. RSize -> Symbols]
    BY <1>1, <1>2
  <2> QED
    BY <1>2, <2>1, IsASeq
<1>4. Types
  <2>1. sent \in 0 .. Count /\ num_allocs \in 0 .. MaxReallocs
    BY <1>2 DEF Init
  <2>2. iov \in Seq(Symbols) /\ sock \in Seq(Symbols) /\ Len(sock) <= SockSize
    BY <1>2 DEF Init
  <2>3. rcurr \in Nat /\ rbytes \in Nat /\ rcurr + rbytes <= Len(rbuf)
    BY <1>2, <1>3 DEF Init
  <2>4. unprocess \in [seq : Int, len : Nat]
    BY NoHeadTyped DEF Init
  <2>5. /\ cut \in BOOLEAN /\ misread \in BOOLEAN
        /\ peer \in {"open", "closed", "reset"}
        /\ pc \in {"poll", "read", "handle", "closed", "crashed"}
    BY DEF Init
  <2> QED
    BY <1>3, <2>1, <2>2, <2>3, <2>4, <2>5 DEF Types
<1>5. Pending = <<>>
  <2>1. Pend(rbuf, 0, 0, <<>>, <<>>) \in Seq(Symbols)
        /\ Len(Pend(rbuf, 0, 0, <<>>, <<>>)) = 0
    <3>1. 0 + 0 <= Len(rbuf) /\ <<>> \in Seq(Symbols) /\ Len(<<>>) = 0
      BY <1>2, <1>3
    <3>2. Spells(Pend(rbuf, 0, 0, <<>>, <<>>), rbuf, 0, 0, <<>>, <<>>)
      BY <1>3, <3>1, PendIs
    <3> QED
      BY <3>1, <3>2 DEF Spells
  <2>2. Pending = Pend(rbuf, 0, 0, <<>>, <<>>)
    BY PendingIs DEF Init
  <2> QED
    BY <2>1, <2>2
<1>6. Follows(0)
  <2>1. Flat(0) = <<>> /\ Off(0) = 0
    BY FlatIs DEF Off
  <2>2. AlignedAt(<<>>, 0, 0, FALSE)
    BY <2>1 DEF AlignedAt
  <2>3. Tracks(<<>>, 0, 0, NoHead, FALSE, FALSE)
    BY <2>1, <2>2 DEF Tracks, HeadOf, PosOf
  <2>4. Tracks(Pending, 0, sent, unprocess, cut, misread)
    BY <1>5, <2>3 DEF Init
  <2>5. Handled(0)
    BY DEF Handled, Init
  <2> QED
    BY <2>4, <2>5 DEF Follows
<1>7. 0 \in 0 .. sent
  BY DEF Init
<1> QED
  BY <1>4, <1>6, <1>7 DEF Inductive, Init

LEMMA FormatInductive ==
  ASSUME Inductive, Format PROVE Inductive'
<1>1. PICK h \in 0 .. sent : Follows(h)
  BY DEF Inductive
<1>2. Types
  BY DEF Inductive
<1>3. /\ iov = <<>> /\ sent < Count /\ ~cut /\ sent' = sent + 1 /\ iov' = Bytes(sent + 1)
      /\ UNCHANGED <<cut, sock, peer, pc, rbuf, rcurr, rbytes, num_allocs, unprocess,
                     handled, misread>>
  BY DEF Format, bufVars
<1>4. Count \in Nat /\ sent \in 0 .. Count - 1 /\ sent + 1 \in 1 .. Count /\ h \in 0 .. sent
  BY <1>2, <1>3, StreamAssumption DEF Types, Count
<1>5. Bytes(sent + 1) \in Seq(Symbols)
  BY <1>4, BytesAre
<1>6. Types'
  BY <1>2, <1>3, <1>4, <1>5 DEF Types
<1>7. Pending \in Seq(Symbols) /\ Pending' = Pending \o Bytes(sent + 1)
  <2>1. /\ Pend(rbuf, rcurr, rbytes, sock, <<>>) \in Seq(Symbols)
        /\ Pend(rbuf, rcurr, rbytes, sock, Bytes(sent + 1))
             = Pend(rbuf, rcurr, rbytes, sock, <<>>) \o Bytes(sent + 1)
    <3> DEFINE x == Bytes(sent + 1)
    <3>1. /\ rbuf \in Seq(Symbols) /\ rcurr \in Nat /\ rbytes \in Nat
          /\ rcurr + rbytes <= Len(rbuf) /\ sock \in Seq(Symbols)
      BY <1>2 DEF Types
    <3>2. x \in Seq(Symbols)
      BY <1>5
    <3> HIDE DEF x
    <3>3. Adds(rbuf, rcurr, rbytes, sock, x)
      BY <3>1, <3>2, FormatAdds
    <3> QED
      BY <3>3 DEF Adds, x
  <2> QED
    BY <1>3, <2>1, PendingIs, PendingIsNext
<1>8. Tracks(Pending, h, sent, unprocess, FALSE, misread)
  <2>1. cut = FALSE
    BY <1>2, <1>3 DEF Types
  <2> QED
    BY <1>1, <2>1 DEF Follows
<1>9. Tracks(Pending \o Bytes(sent + 1), h, sent + 1, unprocess, FALSE, misread)
  <2>1. misread \in BOOLEAN
    BY <1>2 DEF Types
  <2> QED
    BY <1>4, <1>7, <1>8, <2>1, TracksFormat
<1>10. Follows(h)'
  <2>1. cut' = FALSE
    BY <1>2, <1>3 DEF Types
  <2>2. Handled(h)'
    BY <1>1, <1>3 DEF Follows, Handled
  <2> QED
    BY <1>3, <1>7, <1>9, <2>1, <2>2 DEF Follows
<1>11. h \in 0 .. sent'
  BY <1>3, <1>4
<1> QED
  BY <1>3, <1>6, <1>10, <1>11 DEF Inductive

LEMMA SendInductive ==
  ASSUME Inductive, NEW n \in 1 .. SockSize, SendMsg(n) PROVE Inductive'
<1> DEFINE p == SubSeq(iov, 1, n)
           t == SubSeq(iov, n + 1, Len(iov))
<1>1. PICK h \in 0 .. sent : Follows(h)
  BY DEF Inductive
<1>2. Types
  BY DEF Inductive
<1>3. /\ n <= Len(iov) /\ Len(sock) + n <= SockSize /\ sock' = sock \o p
      /\ cut' \in BOOLEAN /\ iov' = IF cut' THEN <<>> ELSE t
      /\ UNCHANGED <<sent, peer, pc, rbuf, rcurr, rbytes, num_allocs, unprocess,
                     handled, misread>>
  BY DEF SendMsg, bufVars
<1>4. n \in Nat /\ n \in 1 .. Len(iov) /\ Len(iov) > 0
  BY <1>2, <1>3, StreamAssumption DEF Types
<1>5. /\ t \in Seq(Symbols)
      /\ sock \o p \in Seq(Symbols) /\ Len(sock \o p) = Len(sock) + n
      /\ Pend(rbuf, rcurr, rbytes, sock \o p, t) = Pend(rbuf, rcurr, rbytes, sock, iov)
      /\ CutTo(Pend(rbuf, rcurr, rbytes, sock, iov),
               Pend(rbuf, rcurr, rbytes, sock \o p, <<>>))
  <2>1. /\ rbuf \in Seq(Symbols) /\ rcurr \in Nat /\ rbytes \in Nat
        /\ rcurr + rbytes <= Len(rbuf) /\ sock \in Seq(Symbols) /\ iov \in Seq(Symbols)
    BY <1>2 DEF Types
  <2>2. p = SubSeq(iov, 1, n) /\ t = SubSeq(iov, n + 1, Len(iov))
    OBVIOUS
  <2> HIDE DEF p, t
  <2> QED
    <3>1. SentSome(rbuf, rcurr, rbytes, sock, iov, n, p, t)
      BY <1>4, <2>1, <2>2, SendKeeps
    <3> QED
      BY <3>1 DEF SentSome
<1> HIDE DEF p, t
<1>6. Types'
  <2>1. iov' \in Seq(Symbols) /\ sock' \in Seq(Symbols) /\ Len(sock') <= SockSize
    BY <1>3, <1>5
  <2> QED
    BY <1>2, <1>3, <2>1 DEF Types
<1>7. CASE cut'
  <2>1. iov' = <<>>
    BY <1>3, <1>7
  <2>2. CutTo(Pending, Pending')
    BY <1>3, <1>5, <2>1, PendingIs, PendingIsNext
  <2>3. Tracks(Pending, h, sent, unprocess, cut, misread)
    BY <1>1 DEF Follows
  <2>4. Tracks(Pending', h, sent, unprocess, TRUE, misread)
    <3>1. h \in 0 .. sent /\ sent \in 0 .. Count
      BY <1>2 DEF Types
    <3> DEFINE P == Pending
               Q == Pending'
    <3>2. CutTo(P, Q)
      BY <2>2
    <3>3. Tracks(P, h, sent, unprocess, cut, misread)
      BY <2>3
    <3> HIDE DEF P, Q
    <3>4. Tracks(Q, h, sent, unprocess, TRUE, misread)
      BY <3>1, <3>2, <3>3, TracksCut
    <3> QED
      BY <3>4 DEF Q
  <2>5. cut' = TRUE
    BY <1>3, <1>7
  <2>6. Handled(h)'
    BY <1>1, <1>3 DEF Follows, Handled
  <2>7. Follows(h)'
    BY <1>3, <2>4, <2>5, <2>6 DEF Follows
  <2> QED
    BY <1>3, <1>6, <2>1, <2>7 DEF Inductive
<1>8. CASE ~cut'
  <2>1. iov' = t
    BY <1>3, <1>8
  <2>2. Pending' = Pending
    BY <1>3, <1>5, <2>1, PendingIs, PendingIsNext
  <2>3. ~cut
    <3>1. iov # <<>>
      BY <1>4
    <3> QED
      BY <3>1 DEF Inductive
  <2>4. cut' = cut
    BY <1>2, <1>3, <1>8, <2>3 DEF Types
  <2>5. pc' = "read" => rcurr' = 0
    BY <1>3 DEF Inductive
  <2> QED
    BY <1>3, <1>6, <1>8, <2>2, <2>4, <2>5, PendingKept
<1> QED
  BY <1>7, <1>8

LEMMA PeerInductive ==
  ASSUME Inductive, NEW how \in {"closed", "reset"}, PeerGoes(how) PROVE Inductive'
<1>1. /\ peer' = how
      /\ UNCHANGED <<sent, iov, cut, sock, pc, rbuf, rcurr, rbytes, num_allocs, unprocess,
                     handled, misread>>
  BY DEF PeerGoes, bufVars
<1>2. Types'
  BY <1>1 DEF Inductive, Types
<1>3. Pending' = Pending
  BY <1>1, PendingIs, PendingIsNext
<1> QED
  BY <1>1, <1>2, <1>3, PendingKept DEF Inductive

BufTyped ==
  /\ rbuf \in Seq(Symbols) /\ rcurr \in Nat /\ rbytes \in Nat
  /\ rcurr + rbytes <= Len(rbuf) /\ sock \in Seq(Symbols) /\ iov \in Seq(Symbols)

LEMMA ReadEventInductive ==
  ASSUME Inductive, ReadEvent PROVE Inductive'
<1>1. /\ rbuf' = Overwrite(rbuf, 0, SubSeq(rbuf, rcurr + 1, rcurr + rbytes))
      /\ rcurr' = 0 /\ num_allocs' = 0 /\ pc' = "read"
      /\ UNCHANGED <<sent, iov, cut, peer, sock, rbytes, unprocess, handled, misread>>
  BY DEF ReadEvent, Compacted, Unread, senderVars
<1>2. Types /\ BufTyped
  BY DEF Inductive, Types, BufTyped
<1> DEFINE a == Overwrite(rbuf, 0, SubSeq(rbuf, rcurr + 1, rcurr + rbytes))
<1>3. /\ a \in Seq(Symbols) /\ Len(a) = Len(rbuf)
      /\ Pend(a, 0, rbytes, sock, iov) = Pend(rbuf, rcurr, rbytes, sock, iov)
  BY <1>2, CompactKeeps DEF BufTyped
<1>4. rbuf' = a
  BY <1>1
<1> HIDE DEF a
<1>5. Types'
  <2>1. rbuf' \in Seq(Symbols) /\ rcurr' \in Nat /\ rbytes' \in Nat
        /\ rcurr' + rbytes' <= Len(rbuf')
    <3>1. Len(rbuf) \in Nat
      BY <1>2 DEF BufTyped
    <3> QED
      BY <1>1, <1>2, <1>3, <1>4, <3>1 DEF BufTyped
  <2>2. num_allocs' \in 0 .. MaxReallocs
    BY <1>1, StreamAssumption
  <2> QED
    BY <1>1, <1>2, <2>1, <2>2 DEF Types
<1>6. Pending' = Pending
  BY <1>1, <1>3, <1>4, PendingIs, PendingIsNext
<1> QED
  BY <1>1, <1>5, <1>6, PendingKept DEF Inductive

LEMMA GrowInductive ==
  ASSUME Inductive, Grow PROVE Inductive'
<1>1. PICK g \in Garbage : rbuf' = rbuf \o [i \in 1 .. Len(rbuf) |-> g]
  BY DEF Grow
<1>2. /\ num_allocs < MaxReallocs /\ num_allocs' = num_allocs + 1
      /\ UNCHANGED <<sent, iov, cut, peer, sock, pc, rcurr, rbytes, unprocess, handled,
                     misread>>
  BY DEF Grow, MayGrow, senderVars
<1>3. Types /\ BufTyped
  BY DEF Inductive, Types, BufTyped
<1> DEFINE x == [i \in 1 .. Len(rbuf) |-> g]
           a == rbuf \o x
<1>4. x \in Seq(Symbols)
  <2>1. g \in Symbols /\ Len(rbuf) \in Nat
    BY <1>3, StreamAssumption DEF BufTyped
  <2>2. x \in [1 .. Len(rbuf) -> Symbols]
    BY <2>1
  <2> HIDE DEF x
  <2> QED
    BY <2>1, <2>2, IsASeq
<1>5. rbuf' = a
  BY <1>1
<1> HIDE DEF x
<1>6. /\ a \in Seq(Symbols) /\ Len(a) >= Len(rbuf) /\ Len(a) \in Nat /\ Len(rbuf) \in Nat
      /\ \A i \in 1 .. Len(rbuf) : a[i] = rbuf[i]
  BY <1>3, <1>4, Joined DEF BufTyped
<1> HIDE DEF a
<1>7. Pend(a, rcurr, rbytes, sock, iov) = Pend(rbuf, rcurr, rbytes, sock, iov)
  BY <1>3, <1>6, GrowKeeps DEF BufTyped
<1>8. Types'
  <2>1. rbuf' \in Seq(Symbols) /\ rcurr' \in Nat /\ rbytes' \in Nat
        /\ rcurr' + rbytes' <= Len(rbuf')
    BY <1>2, <1>3, <1>5, <1>6 DEF BufTyped
  <2>2. num_allocs' \in 0 .. MaxReallocs
    BY <1>2, <1>3, StreamAssumption DEF Types
  <2> QED
    BY <1>2, <1>3, <2>1, <2>2 DEF Types
<1>9. Pending' = Pending
  BY <1>2, <1>5, <1>7, PendingIs, PendingIsNext
<1> QED
  BY <1>2, <1>8, <1>9, PendingKept DEF Inductive

LEMMA ReadInductive ==
  ASSUME Inductive, NEW n \in 1 .. SockSize, Read(n) PROVE Inductive'
<1> DEFINE a == Overwrite(rbuf, rbytes, SubSeq(sock, 1, n))
           t == SubSeq(sock, n + 1, Len(sock))
<1>1. /\ pc = "read" /\ n <= Len(sock) /\ n <= Len(rbuf) - rbytes
      /\ rbuf' = a /\ rbytes' = rbytes + n /\ sock' = t
      /\ pc' \in {"read", "handle"}
      /\ UNCHANGED <<sent, iov, cut, peer, rcurr, num_allocs, unprocess, handled, misread>>
  BY DEF Read, senderVars
<1>2. Types /\ BufTyped /\ rcurr = 0
  BY <1>1 DEF Inductive, Types, BufTyped
<1>3. n \in Nat /\ Len(rbuf) \in Nat /\ Len(sock) \in Nat /\ rbytes + n <= Len(rbuf)
  BY <1>1, <1>2, StreamAssumption DEF BufTyped
<1>4. /\ a \in Seq(Symbols) /\ Len(a) = Len(rbuf)
      /\ t \in Seq(Symbols) /\ Len(t) = Len(sock) - n
      /\ Pend(a, 0, rbytes + n, t, iov) = Pend(rbuf, 0, rbytes, sock, iov)
  <2>1. ReadSome(rbuf, rbytes, sock, iov, n, a, t)
    <3>1. /\ rbuf \in Seq(Symbols) /\ rbytes \in Nat /\ sock \in Seq(Symbols)
          /\ iov \in Seq(Symbols) /\ n <= Len(sock)
      BY <1>1, <1>2 DEF BufTyped
    <3> QED
      BY <1>3, <3>1, ReadKeeps
  <2> HIDE DEF a, t
  <2> QED
    BY <2>1 DEF ReadSome
<1> HIDE DEF a, t
<1>5. Types'
  <2>1. rbuf' \in Seq(Symbols) /\ rcurr' \in Nat /\ rbytes' \in Nat
        /\ rcurr' + rbytes' <= Len(rbuf')
    <3>1. rcurr' = 0 /\ rbytes' = rbytes + n /\ Len(rbuf') = Len(rbuf)
      BY <1>1, <1>2, <1>4
    <3> QED
      BY <1>1, <1>2, <1>3, <1>4, <3>1 DEF BufTyped
  <2>2. sock' \in Seq(Symbols) /\ Len(sock') <= SockSize
    <3>1. Len(sock) <= SockSize /\ SockSize \in Nat
      BY <1>2, StreamAssumption DEF Types
    <3> QED
      BY <1>1, <1>3, <1>4, <3>1
  <2> QED
    BY <1>1, <1>2, <2>1, <2>2 DEF Types
<1>6. Pending' = Pending
  BY <1>1, <1>2, <1>4, PendingIs, PendingIsNext
<1>7. pc' = "read" => rcurr' = 0
  BY <1>1, <1>2
<1> QED
  BY <1>1, <1>5, <1>6, <1>7, PendingKept DEF Inductive

(* The steps that change nothing but pc. *)
LEMMA PcInductive ==
  ASSUME Inductive, GiveUp \/ ReadEnd \/ WaitForMore PROVE Inductive'
<1>1. /\ pc' \in {"poll", "handle", "closed", "crashed"}
      /\ UNCHANGED <<sent, iov, cut, peer, sock, rbuf, rcurr, rbytes, num_allocs, unprocess,
                     handled, misread>>
  BY DEF GiveUp, ReadEnd, WaitForMore, senderVars, bufVars
<1>2. Types'
  BY <1>1 DEF Inductive, Types
<1>3. Pending' = Pending
  BY <1>1, PendingIs, PendingIsNext
<1> QED
  BY <1>1, <1>2, <1>3, PendingKept DEF Inductive

LEMMA StutterInductive ==
  ASSUME Inductive, UNCHANGED vars PROVE Inductive'
<1>1. UNCHANGED <<sent, iov, cut, sock, peer, pc, rbuf, rcurr, rbytes, num_allocs,
                  unprocess, handled, misread>>
  BY DEF vars
<1>2. Types'
  BY <1>1 DEF Inductive, Types
<1>3. Pending' = Pending
  BY <1>1, PendingIs, PendingIsNext
<1> QED
  BY <1>1, <1>2, <1>3, PendingKept DEF Inductive

-----------------------------------------------------------------------------
(* What the reader finds at the cursor. *)

LEMMA DropsAligned ==
  ASSUME NEW n \in 0 .. Count, NEW d \in Nat, NEW k \in Nat, NEW P, NEW Q, NEW c,
         Drops(P, Q, k), AlignedAt(P, d, n, c)
  PROVE  AlignedAt(Q, d + k, n, c)
<1>1. PICK x \in Seq(Symbols) : Len(x) = k /\ P = x \o Q
  BY DEF Drops
<1>2. Q \in Seq(Symbols)
  BY DEF Drops
<1> QED
  BY <1>1, <1>2, AlignedDrop

LEMMA DropsIs ==
  ASSUME NEW P, NEW Q, NEW k \in Nat, Drops(P, Q, k)
  PROVE  /\ Len(Q) \in Nat /\ Len(P) = k + Len(Q)
         /\ \A i \in 1 .. Len(Q) : P[k + i] = Q[i]
<1>1. PICK x \in Seq(Symbols) : Len(x) = k /\ P = x \o Q
  BY DEF Drops
<1>2. Q \in Seq(Symbols)
  BY DEF Drops
<1> QED
  BY <1>1, <1>2, Joined

(* What becomes of rbuf when k bytes have been taken. *)
Takes(k) ==
  /\ rbuf' \in Seq(Symbols) /\ Len(rbuf') = Len(rbuf)
  /\ \A j \in Nat : rcurr + k < j /\ j <= Len(rbuf) => rbuf'[j] = rbuf[j]
  /\ rcurr' = rcurr + k /\ rbytes' = rbytes - k
  /\ UNCHANGED <<sock, iov>>

LEMMA TakesDrops ==
  ASSUME BufTyped, NEW k \in Nat, k <= rbytes, Takes(k)
  PROVE  /\ Drops(Pending, Pending', k)
         /\ rcurr' \in Nat /\ rbytes' \in Nat /\ rcurr' + rbytes' <= Len(rbuf')
<1> DEFINE Q == Pend(rbuf', rcurr + k, rbytes - k, sock, iov)
           P == Pend(rbuf, rcurr, rbytes, sock, iov)
<1>1. /\ rbuf \in Seq(Symbols) /\ rcurr \in Nat /\ rbytes \in Nat
      /\ rcurr + rbytes <= Len(rbuf) /\ sock \in Seq(Symbols) /\ iov \in Seq(Symbols)
  BY DEF BufTyped
<1> DEFINE a == rbuf'
<1>2. /\ a \in Seq(Symbols) /\ Len(a) = Len(rbuf)
      /\ \A j \in Nat : rcurr + k < j /\ j <= Len(rbuf) => a[j] = rbuf[j]
  BY DEF Takes
<1>3. Drops(P, Q, k)
  <2>1. Drops(P, Pend(a, rcurr + k, rbytes - k, sock, iov), k)
    <3> HIDE DEF a
    <3> QED
      BY <1>1, <1>2, TakeDrops
  <2> QED
    BY <2>1
<1>4. Pending = P /\ Pending' = Q
  BY PendingIs, PendingIsNext DEF Takes
<1>5. Drops(Pending, Pending', k)
  <2> HIDE DEF Q, P
  <2> QED
    BY <1>3, <1>4
<1>6. rcurr' \in Nat /\ rbytes' \in Nat /\ rcurr' + rbytes' <= Len(rbuf')
  <2>1. rcurr' = rcurr + k /\ rbytes' = rbytes - k /\ Len(rbuf') = Len(rbuf)
    BY DEF Takes
  <2>2. Len(rbuf) \in Nat
    BY <1>1
  <2> QED
    BY <1>1, <2>1, <2>2
<1> QED
  BY <1>5, <1>6

LEMMA ByteAt ==
  ASSUME BufTyped, NEW d \in Nat, NEW n, NEW c, AlignedAt(Pending, d, n, c)
  PROVE  /\ rbytes <= Len(Pending) /\ Len(Pending) \in Nat
         /\ \A j \in 1 .. rbytes : rbuf[rcurr + j] = Flat(n)[d + j]
<1>1. Spells(Pending, rbuf, rcurr, rbytes, sock, iov)
  BY PendingIs, PendIs DEF BufTyped
<1>2. /\ Len(Pending) = rbytes + Len(sock) + Len(iov)
      /\ Len(sock) \in Nat /\ Len(iov) \in Nat
      /\ \A i \in 1 .. rbytes : Pending[i] = rbuf[rcurr + i]
  BY <1>1 DEF Spells
<1>3. rbytes \in Nat
  BY DEF BufTyped
<1>4. rbytes <= Len(Pending) /\ Len(Pending) \in Nat
  BY <1>2, <1>3
<1>5. \A j \in 1 .. rbytes : rbuf[rcurr + j] = Flat(n)[d + j]
  <2> TAKE j \in 1 .. rbytes
  <2>1. j \in 1 .. Len(Pending)
    BY <1>3, <1>4
  <2> QED
    BY <1>2, <2>1 DEF AlignedAt
<1> QED
  BY <1>4, <1>5

(* What is pending is of message h + 1. *)
LEMMA MessageAt ==
  ASSUME NEW n \in 0 .. Count, NEW h \in 0 .. n, NEW P, NEW c, NEW d \in Nat,
         Off(h) <= d, AlignedAt(P, d, n, c), Len(P) \in Nat, Len(P) > 0
  PROVE  h < n
<1>0. Count \in Nat
  BY StreamAssumption DEF Count
<1>1. Off(n) \in Nat /\ d + Len(P) <= Off(n)
  BY FlatTyped DEF AlignedAt
<1>2. h = n => FALSE
  BY <1>1
<1> QED
  BY <1>0, <1>2

(* An aligned reader finds the head of the next message at the cursor. *)
LEMMA HeadAt ==
  ASSUME BufTyped, rbytes > 0, NEW n \in 0 .. Count, NEW h \in 0 .. n, NEW c,
         AlignedAt(Pending, Off(h), n, c)
  PROVE  /\ h < n
         /\ HeadHere(h + 1)
         /\ \A j \in 1 .. Len(Bodies[h + 1]) :
              7 + j <= rbytes => rbuf[rcurr + (7 + j)] = Bodies[h + 1][j]
<1>0. Count \in Nat /\ h \in 0 .. Count
  BY StreamAssumption DEF Count
<1>1. Off(h) \in Nat
  BY <1>0, FlatTyped
<1>2. /\ rbytes <= Len(Pending) /\ Len(Pending) \in Nat /\ rbytes \in Nat
      /\ \A j \in 1 .. rbytes : rbuf[rcurr + j] = Flat(n)[Off(h) + j]
  BY <1>1, ByteAt DEF BufTyped
<1>3. h < n
  BY <1>1, <1>2, MessageAt
<1>4. h \in 0 .. Count - 1 /\ n \in h + 1 .. Count /\ h + 1 \in 1 .. Count
  BY <1>0, <1>3
<1>5. /\ Len(Bytes(h + 1)) = 7 + Len(Bodies[h + 1]) /\ Len(Bodies[h + 1]) \in Nat
      /\ \A j \in 1 .. 7 : Bytes(h + 1)[j] = HeadOf7(h + 1)[j]
      /\ \A j \in 1 .. Len(Bodies[h + 1]) : Bytes(h + 1)[7 + j] = Bodies[h + 1][j]
  BY <1>4, BytesAre
<1>6. \A j \in 1 .. Len(Bytes(h + 1)) : Flat(n)[Off(h) + j] = Bytes(h + 1)[j]
  BY <1>4, StreamAt
<1>7. ASSUME NEW j \in 1 .. 7, j <= rbytes
      PROVE  rbuf[rcurr + j] = HeadOf7(h + 1)[j]
  <2>1. j \in 1 .. rbytes /\ j \in 1 .. Len(Bytes(h + 1))
    <3>1. rbytes \in Nat /\ Len(Bodies[h + 1]) \in Nat
          /\ Len(Bytes(h + 1)) = 7 + Len(Bodies[h + 1])
      BY <1>2, <1>5
    <3> QED
      BY <1>7, <3>1
  <2> QED
    BY <1>2, <1>5, <1>6, <2>1
<1>8. HeadHere(h + 1)
  <2>1. /\ HeadOf7(h + 1)[1] = Sym("call", h + 1) /\ HeadOf7(h + 1)[2] = NL
        /\ HeadOf7(h + 1)[3] = Sym("seq", h + 1) /\ HeadOf7(h + 1)[4] = NL
        /\ HeadOf7(h + 1)[5] = Sym("len", Len(Bodies[h + 1]))
        /\ HeadOf7(h + 1)[6] = NL /\ HeadOf7(h + 1)[7] = NL
    BY DEF HeadOf7
  <2> QED
    BY <1>2, <1>7, <2>1 DEF HeadHere
<1>9. ASSUME NEW j \in 1 .. Len(Bodies[h + 1]), 7 + j <= rbytes
      PROVE  rbuf[rcurr + (7 + j)] = Bodies[h + 1][j]
  <2>1. 7 + j \in 1 .. rbytes /\ 7 + j \in 1 .. Len(Bytes(h + 1))
    <3> DEFINE l == Len(Bodies[h + 1])
               b == Len(Bytes(h + 1))
    <3>1. l \in Nat /\ b = 7 + l /\ j \in 1 .. l /\ rbytes \in Nat /\ 7 + j <= rbytes
      BY <1>2, <1>5, <1>9
    <3> HIDE DEF l, b
    <3>2. 7 + j \in 1 .. rbytes /\ 7 + j \in 1 .. b
      BY <3>1
    <3> QED
      BY <3>2 DEF b
  <2> QED
    BY <1>2, <1>5, <1>6, <2>1
<1> QED
  BY <1>3, <1>8, <1>9

-----------------------------------------------------------------------------
(* The steps of the loop in the read callback. *)

LEMMA InductiveTyped ==
  ASSUME Inductive
  PROVE  /\ Types /\ BufTyped /\ BufOK /\ Count \in Nat /\ sent \in 0 .. Count
         /\ \E h \in 0 .. sent : Follows(h)
BY StreamAssumption DEF Inductive, Types, BufTyped, BufOK, Count

(* A reader that is aligned, and awaits a head. *)
LEMMA AwaitsHead ==
  ASSUME Inductive, HeadReceived, ~misread, NEW h \in 0 .. sent, Follows(h)
  PROVE  /\ AlignedAt(Pending, Off(h), sent, cut)
         /\ h < sent /\ HeadHere(h + 1) /\ rbytes >= 2
         /\ \A j \in 1 .. Len(Bodies[h + 1]) :
              7 + j <= rbytes => rbuf[rcurr + (7 + j)] = Bodies[h + 1][j]
<1>1. Types /\ BufTyped /\ BufOK /\ Count \in Nat /\ sent \in 0 .. Count
  BY InductiveTyped
<1>2. unprocess = NoHead /\ rbytes > 0 /\ rbytes \in Nat
  BY <1>1 DEF HeadReceived, BufOK
<1>3. AlignedAt(Pending, Off(h), sent, cut)
  <2>1. Tracks(Pending, h, sent, unprocess, cut, misread)
    BY DEF Follows
  <2> QED
    BY <1>2, <2>1 DEF Tracks, PosOf
<1>4. /\ h < sent
      /\ HeadHere(h + 1)
      /\ \A j \in 1 .. Len(Bodies[h + 1]) :
           7 + j <= rbytes => rbuf[rcurr + (7 + j)] = Bodies[h + 1][j]
  BY <1>1, <1>2, <1>3, HeadAt
<1>5. rbytes >= 2
  <2>1. PICK g \in Garbage : ReceivedHead(g)
    BY DEF HeadReceived
  <2>2. PICK i \in Nat : i < rbytes /\ rbuf[rcurr + i + 1] = NL
    BY <1>1, <1>2, <2>1, ReceivedHasLine
  <2>3. rbytes = 1 => FALSE
    <3> SUFFICES ASSUME rbytes = 1 PROVE FALSE
      OBVIOUS
    <3>1. i = 0 /\ rcurr + i + 1 = rcurr + 1
      BY <1>1, <2>2 DEF BufOK
    <3>2. rbuf[rcurr + 1] = Sym("call", h + 1)
      BY <1>4 DEF HeadHere
    <3> QED
      BY <2>2, <3>1, <3>2, Symbol
  <2> QED
    BY <1>2, <2>3
<1> QED
  BY <1>3, <1>4, <1>5

LEMMA DeafReader ==
  ASSUME Inductive, misread, NEW h \in 0 .. sent, Follows(h)
  PROVE  /\ unprocess = NoHead
         /\ rbytes > 0 => rbuf[rcurr + 1].k # "call"
<1>1. Types /\ BufTyped
  BY InductiveTyped
<1>2. Tracks(Pending, h, sent, unprocess, cut, misread)
  BY DEF Follows
<1>3. unprocess = NoHead /\ (Pending # <<>> => Pending[1].k # "call")
  BY <1>2 DEF Tracks, DeafAt
<1>4. ASSUME rbytes > 0 PROVE Pending[1] = rbuf[rcurr + 1] /\ Pending # <<>>
  <2>1. Spells(Pending, rbuf, rcurr, rbytes, sock, iov)
    BY <1>1, PendingIs, PendIs DEF BufTyped
  <2>2. /\ Len(Pending) = rbytes + Len(sock) + Len(iov)
        /\ Len(sock) \in Nat /\ Len(iov) \in Nat
        /\ \A i \in 1 .. rbytes : Pending[i] = rbuf[rcurr + i]
    BY <2>1 DEF Spells
  <2>3. rbytes \in Nat /\ 1 \in 1 .. rbytes
    BY <1>1, <1>4 DEF BufTyped
  <2>4. Len(Pending) # 0
    BY <2>2, <2>3
  <2> QED
    BY <2>2, <2>3, <2>4
<1> QED
  BY <1>3, <1>4

(* A deaf reader's parser refuses what it is given. *)
LEMMA DeafRefuses ==
  ASSUME Inductive, HeadReceived, misread
  PROVE  /\ Parse.res = "Error" /\ Parse.p = rcurr /\ Parse.n = rbytes
         /\ Parse.buf \in Seq(Symbols) /\ Len(Parse.buf) = Len(rbuf)
         /\ Parse.buf[rcurr + 1].k # "call"
<1>1. PICK h \in 0 .. sent : Follows(h)
  BY InductiveTyped
<1>2. BufOK /\ rbytes > 0
  BY InductiveTyped DEF HeadReceived
<1>3. rbuf[rcurr + 1].k # "call"
  BY <1>1, <1>2, DeafReader
<1> QED
  BY <1>2, <1>3, ParseRefuses

(* The next message is handled, with its body. *)
LEMMA DeliverHandles ==
  ASSUME NEW h \in 0 .. Count - 1, Handled(h), NEW b \in Seq(Symbols), NEW p \in Nat,
         NEW n, p + Len(Bodies[h + 1]) <= Len(b),
         \A j \in 1 .. Len(Bodies[h + 1]) : b[p + j] = Bodies[h + 1][j],
         Deliver(b, p, n, [seq |-> h + 1, len |-> Len(Bodies[h + 1])])
  PROVE  Handled(h + 1)'
<1> DEFINE B == Bodies[h + 1]
           q == SubSeq(b, p + 1, p + Len(B))
<1>0. Count \in Nat
  BY StreamAssumption DEF Count
<1>1. B \in Seq(Symbols) /\ Len(B) \in Nat /\ h \in Nat
  BY <1>0, BytesAre
<1>2. handled' = Append(handled, [seq |-> h + 1, body |-> q])
  BY DEF Deliver
<1>3. q = B
  <2>1. \A j \in 1 .. Len(B) : b[p + j] = B[j]
    OBVIOUS
  <2> HIDE DEF B
  <2>2. p + Len(B) <= Len(b)
    BY DEF B
  <2>3. q \in Seq(Symbols) /\ Len(q) = Len(B) /\ \A i \in 1 .. Len(B) : q[i] = b[p + i]
    BY <1>1, <2>2, Cut
  <2> HIDE DEF q
  <2> QED
    BY <1>1, <2>1, <2>3, SeqEqual
<1> HIDE DEF q
<1>4. handled' = Append(handled, Message(h + 1))
  BY <1>2, <1>3 DEF Message
<1> DEFINE f == [i \in 1 .. h |-> Message(i)]
           g == [i \in 1 .. (h + 1) |-> Message(i)]
<1>5. Append(f, Message(h + 1)) = g
  <2> DEFINE M(i) == Message(i)
  <2>1. Append([i \in 1 .. h |-> M(i)], M(h + 1)) = [i \in 1 .. (h + 1) |-> M(i)]
    <3> HIDE DEF M
    <3> QED
      BY <1>1
  <2> QED
    BY <2>1
<1>6. handled = f
  BY DEF Handled
<1>7. handled' = g
  <2> HIDE DEF f, g
  <2> QED
    BY <1>4, <1>5, <1>6
<1> QED
  BY <1>7 DEF Handled

(* The types, when the loop has taken k bytes. *)
LEMMA TakesTyped ==
  ASSUME Inductive, NEW k \in Nat, k <= rbytes, Takes(k),
         unprocess' \in [seq : Int, len : Nat], misread' \in BOOLEAN,
         pc' \in {"poll", "handle"}, UNCHANGED <<sent, cut, peer, num_allocs>>
  PROVE  Types'
<1>1. Types /\ BufTyped
  BY InductiveTyped
<1>2. rcurr' \in Nat /\ rbytes' \in Nat /\ rcurr' + rbytes' <= Len(rbuf')
  BY <1>1, TakesDrops
<1>3. rbuf' \in Seq(Symbols) /\ sock' = sock /\ iov' = iov
  BY DEF Takes
<1> QED
  BY <1>1, <1>2, <1>3 DEF Types

(* Where message h + 1 ends, message h + 2 begins. *)
LEMMA NextAligned ==
  ASSUME NEW n \in 0 .. Count, NEW h \in 0 .. n, h < n, NEW d \in Nat, NEW k \in Nat,
         d + k = Off(h + 1), NEW P, NEW Q, NEW c, Drops(P, Q, k), AlignedAt(P, d, n, c)
  PROVE  Tracks(Q, h + 1, n, NoHead, c, FALSE)
<1>1. AlignedAt(Q, d + k, n, c)
  BY DropsAligned
<1>2. AlignedAt(Q, PosOf(h + 1, NoHead), n, c)
  BY <1>1 DEF PosOf
<1> QED
  BY <1>2 DEF Tracks, HeadOf

LEMMA HandleInductive ==
  ASSUME Inductive, HandleMessage PROVE Inductive'
<1>1. PICK h \in 0 .. sent : Follows(h)
  BY InductiveTyped
<1> DEFINE L == Len(Bodies[h + 1])
<1>2. Types /\ BufTyped /\ BufOK /\ Count \in Nat /\ sent \in 0 .. Count
  BY InductiveTyped
<1>3. /\ HeadReceived /\ Parse.res = "OK"
      /\ Deliver(Parse.buf, Parse.p, Parse.n, Parse.head)
      /\ pc' = "handle"
      /\ UNCHANGED <<sent, iov, cut, peer, sock, num_allocs, misread>>
  BY DEF HandleMessage, AfterMessage, senderVars
<1>4. ~misread
  BY <1>3, DeafRefuses
<1>5. /\ AlignedAt(Pending, Off(h), sent, cut)
      /\ h < sent /\ HeadHere(h + 1) /\ rbytes >= 2
      /\ \A j \in 1 .. L : 7 + j <= rbytes => rbuf[rcurr + (7 + j)] = Bodies[h + 1][j]
  BY <1>1, <1>3, <1>4, AwaitsHead
<1>6. h + 1 \in 1 .. Count /\ h \in 0 .. Count - 1 /\ h \in 0 .. Count /\ h + 1 \in 0 .. sent
  BY <1>2, <1>5
<1>7. L \in Nat /\ Off(h) \in Nat /\ Off(h + 1) = Off(h) + 7 + L
  BY <1>6, BytesAre, OffStep
<1>8. rcurr \in Nat /\ rbytes \in Nat /\ rcurr + rbytes <= Len(rbuf) /\ Len(rbuf) \in Nat
  BY <1>2 DEF BufOK
<1>9. rbytes >= 7
  <2>1. rbytes < 7 => Parse.res = "Error"
    BY <1>2, <1>5, <1>6, ParseFails
  <2> QED
    BY <1>3, <1>8, <2>1
<1>10. /\ Parse.res = IF rbytes - 7 >= L THEN "OK" ELSE "NeedData"
       /\ Parse.head = [seq |-> h + 1, len |-> L]
       /\ ParseLeaves(7)
  BY <1>2, <1>5, <1>6, <1>9, ParseReads
<1>11. rbytes - 7 >= L
  BY <1>3, <1>10
<1> HIDE DEF L
<1>12. /\ Parse.p = rcurr + 7 /\ Parse.n = rbytes - 7
       /\ Parse.buf \in Seq(Symbols) /\ Len(Parse.buf) = Len(rbuf)
       /\ \A j \in Nat : rcurr + 7 < j /\ j <= Len(rbuf) => Parse.buf[j] = rbuf[j]
  BY <1>10 DEF ParseLeaves
<1>13. /\ Deliver(Parse.buf, rcurr + 7, rbytes - 7, [seq |-> h + 1, len |-> L])
       /\ rbuf' = Parse.buf /\ rcurr' = (rcurr + 7) + L /\ rbytes' = (rbytes - 7) - L
       /\ unprocess' = NoHead
  <2>1. Deliver(Parse.buf, rcurr + 7, rbytes - 7, [seq |-> h + 1, len |-> L])
    BY <1>3, <1>10, <1>12
  <2> QED
    BY <2>1 DEF Deliver
<1>14. 7 + L \in Nat /\ 7 + L <= rbytes /\ (rcurr + 7) + L = rcurr + (7 + L)
       /\ (rbytes - 7) - L = rbytes - (7 + L)
  BY <1>7, <1>8, <1>11
<1>15. Takes(7 + L)
  <2>1. \A j \in Nat : rcurr + (7 + L) < j /\ j <= Len(rbuf) => rbuf'[j] = rbuf[j]
    <3> SUFFICES ASSUME NEW j \in Nat, rcurr + (7 + L) < j, j <= Len(rbuf)
                 PROVE  rbuf'[j] = rbuf[j]
      OBVIOUS
    <3>1. rcurr + 7 < j
      BY <1>7, <1>8
    <3> QED
      BY <1>12, <1>13, <3>1
  <2> QED
    BY <1>3, <1>12, <1>13, <1>14, <2>1 DEF Takes
<1>16. Handled(h + 1)'
  <2>1. Handled(h)
    BY <1>1 DEF Follows
  <2>2. rcurr + 7 \in Nat /\ rcurr + 7 + L <= Len(Parse.buf)
    BY <1>7, <1>8, <1>11, <1>12
  <2>3. \A j \in 1 .. L : Parse.buf[(rcurr + 7) + j] = Bodies[h + 1][j]
    <3> TAKE j \in 1 .. L
    <3>1. /\ (rcurr + 7) + j \in Nat /\ rcurr + 7 < (rcurr + 7) + j
          /\ (rcurr + 7) + j <= Len(rbuf) /\ 7 + j <= rbytes
          /\ (rcurr + 7) + j = rcurr + (7 + j)
      BY <1>7, <1>8, <1>11
    <3>2. rbuf[rcurr + (7 + j)] = Bodies[h + 1][j]
      BY <1>5, <3>1
    <3>3. Parse.buf[(rcurr + 7) + j] = rbuf[(rcurr + 7) + j]
      BY <1>12, <3>1
    <3> QED
      BY <3>1, <3>2, <3>3
  <2> DEFINE b == Parse.buf
             p == rcurr + 7
             n == rbytes - 7
  <2>4. /\ b \in Seq(Symbols) /\ p \in Nat /\ p + L <= Len(b)
        /\ \A j \in 1 .. L : b[p + j] = Bodies[h + 1][j]
        /\ Deliver(b, p, n, [seq |-> h + 1, len |-> L])
    BY <1>12, <1>13, <2>2, <2>3
  <2> HIDE DEF b, p, n
  <2> QED
    BY <1>6, <2>1, <2>4, DeliverHandles DEF L
<1>17. Drops(Pending, Pending', 7 + L)
  BY <1>2, <1>14, <1>15, TakesDrops
<1>18. Tracks(Pending', h + 1, sent, NoHead, cut, FALSE)
  <2>1. Off(h) + (7 + L) = Off(h + 1)
    BY <1>7
  <2> DEFINE P == Pending
             Q == Pending'
             k == 7 + L
  <2>2. /\ Drops(P, Q, k) /\ AlignedAt(P, Off(h), sent, cut) /\ k \in Nat
        /\ Off(h) + k = Off(h + 1)
    BY <1>5, <1>14, <1>17, <2>1
  <2> HIDE DEF P, Q, k
  <2>3. Tracks(Q, h + 1, sent, NoHead, cut, FALSE)
    BY <1>2, <1>5, <1>6, <1>7, <2>2, NextAligned
  <2> QED
    BY <2>3 DEF Q
<1>19. Follows(h + 1)'
  <2>1. misread' = FALSE
    BY <1>2, <1>3, <1>4 DEF Types
  <2> QED
    BY <1>3, <1>13, <1>16, <1>18, <2>1 DEF Follows
<1>20. Types'
  BY <1>2, <1>3, <1>13, <1>14, <1>15, NoHeadTyped, TakesTyped DEF Types
<1> QED
  BY <1>3, <1>6, <1>19, <1>20 DEF Inductive

LEMMA KeepInductive ==
  ASSUME Inductive, KeepHead PROVE Inductive'
<1>1. PICK h \in 0 .. sent : Follows(h)
  BY InductiveTyped
<1> DEFINE L == Len(Bodies[h + 1])
<1>2. Types /\ BufTyped /\ BufOK /\ Count \in Nat /\ sent \in 0 .. Count
  BY InductiveTyped
<1>3. /\ HeadReceived /\ Parse.res = "NeedData"
      /\ rbuf' = Parse.buf /\ rcurr' = Parse.p /\ rbytes' = Parse.n
      /\ unprocess' = Parse.head
      /\ pc' = "poll"
      /\ UNCHANGED <<sent, iov, cut, peer, sock, num_allocs, handled, misread>>
  BY DEF KeepHead, senderVars
<1>4. ~misread
  BY <1>3, DeafRefuses
<1>5. /\ AlignedAt(Pending, Off(h), sent, cut)
      /\ h < sent /\ HeadHere(h + 1) /\ rbytes >= 2
  BY <1>1, <1>3, <1>4, AwaitsHead
<1>6. h + 1 \in 1 .. Count /\ h \in 0 .. Count - 1 /\ h \in 0 .. Count
  BY <1>2, <1>5
<1>7. L \in Nat /\ Off(h) \in Nat
  BY <1>6, BytesAre, OffStep
<1>8. rcurr \in Nat /\ rbytes \in Nat
  BY <1>2 DEF BufOK
<1>9. rbytes >= 7
  <2>1. rbytes < 7 => Parse.res = "Error"
    BY <1>2, <1>5, <1>6, ParseFails
  <2> QED
    BY <1>3, <1>8, <2>1
<1>10. /\ Parse.head = [seq |-> h + 1, len |-> L]
       /\ ParseLeaves(7)
  BY <1>2, <1>5, <1>6, <1>9, ParseReads
<1> HIDE DEF L
<1>11. Takes(7)
  BY <1>3, <1>10 DEF Takes, ParseLeaves
<1>12. unprocess' = [seq |-> h + 1, len |-> L]
  BY <1>3, <1>10
<1>13. unprocess' # NoHead
  <2>1. h + 1 # -1
    BY <1>6
  <2>2. unprocess'.seq = h + 1 /\ NoHead.seq = -1
    BY <1>12 DEF NoHead
  <2> QED
    BY <2>1, <2>2
<1>14. Drops(Pending, Pending', 7)
  BY <1>2, <1>9, <1>11, TakesDrops
<1>15. AlignedAt(Pending', Off(h) + 7, sent, cut)
  <2> DEFINE P == Pending
             Q == Pending'
  <2>1. Drops(P, Q, 7) /\ AlignedAt(P, Off(h), sent, cut)
    BY <1>5, <1>14
  <2> HIDE DEF P, Q
  <2>2. AlignedAt(Q, Off(h) + 7, sent, cut)
    BY <1>2, <1>7, <2>1, DropsAligned
  <2> QED
    BY <2>2 DEF Q
<1>16. Tracks(Pending', h, sent, unprocess', cut, FALSE)
  <2>1. HeadOf(unprocess', h, sent)
    BY <1>5, <1>12 DEF HeadOf, L
  <2>2. PosOf(h, unprocess') = Off(h) + 7
    BY <1>13 DEF PosOf
  <2> QED
    BY <1>15, <2>1, <2>2 DEF Tracks
<1>17. Follows(h)'
  <2>1. misread' = FALSE
    BY <1>2, <1>3, <1>4 DEF Types
  <2>2. Handled(h)'
    BY <1>1, <1>3 DEF Follows, Handled
  <2> QED
    BY <1>3, <1>16, <2>1, <2>2 DEF Follows
<1>18. Types'
  <2>1. unprocess' \in [seq : Int, len : Nat]
    BY <1>6, <1>7, <1>12
  <2>2. misread' \in BOOLEAN
    BY <1>2, <1>3 DEF Types
  <2> QED
    BY <1>3, <1>9, <1>11, <2>1, <2>2, TakesTyped
<1> QED
  BY <1>3, <1>17, <1>18 DEF Inductive

(* After k symbols of its head a message goes on with one that opens none. *)
LEMMA HeadGoesOn ==
  ASSUME NEW n \in 0 .. Count, NEW h \in 0 .. n, h < n, NEW k \in {2, 4, 6}, NEW P, NEW Q,
         NEW c, Drops(P, Q, k), AlignedAt(P, Off(h), n, c)
  PROVE  DeafAt(Q, NoHead, c)
<1>0. Count \in Nat
  BY StreamAssumption DEF Count
<1>1. h \in 0 .. Count - 1 /\ n \in h + 1 .. Count /\ h + 1 \in 1 .. Count
      /\ h + 1 \in Nat /\ k \in Nat
  BY <1>0
<1>2. /\ Len(Q) \in Nat /\ Len(P) = k + Len(Q) /\ Q \in Seq(Symbols)
      /\ \A i \in 1 .. Len(Q) : P[k + i] = Q[i]
  BY <1>1, DropsIs DEF Drops
<1>3. /\ Off(h) \in Nat /\ Off(h + 1) = Off(h) + 7 + Len(Bodies[h + 1])
      /\ Off(h + 1) \in Nat /\ Off(n) \in Nat
  BY <1>1, OffStep, FlatTyped
<1>4. /\ Len(Bytes(h + 1)) = 7 + Len(Bodies[h + 1]) /\ Len(Bodies[h + 1]) \in Nat
      /\ \A j \in 1 .. 7 : Bytes(h + 1)[j] = HeadOf7(h + 1)[j]
  BY <1>1, BytesAre
<1>5. /\ Off(h + 1) <= Off(n)
      /\ \A j \in 1 .. Len(Bytes(h + 1)) : Flat(n)[Off(h) + j] = Bytes(h + 1)[j]
  BY <1>1, StreamAt
<1>6. /\ ~c => Off(h) + Len(P) = Off(n)
      /\ \A i \in 1 .. Len(P) : P[i] = Flat(n)[Off(h) + i]
  BY DEF AlignedAt
<1>7. ASSUME Q = <<>> PROVE c
  <2>1. Len(Q) = 0
    BY <1>7
  <2>2. Len(P) = k
    BY <1>1, <1>2, <2>1
  <2>3. ~(Off(h) + k = Off(n))
    <3> DEFINE l == Len(Bodies[h + 1])
    <3>1. l \in Nat /\ Off(h + 1) = Off(h) + 7 + l /\ Off(h + 1) <= Off(n)
      BY <1>3, <1>4, <1>5
    <3>2. Off(h) \in Nat /\ Off(n) \in Nat /\ k < 7
      BY <1>3
    <3> HIDE DEF l
    <3>3. Off(h) + 7 + l <= Off(n)
      BY <3>1
    <3> QED
      BY <1>1, <3>1, <3>2, <3>3
  <2> QED
    BY <1>6, <2>2, <2>3
<1>8. ASSUME Q # <<>> PROVE Q[1].k # "call"
  <2>1. 1 \in 1 .. Len(Q)
    BY <1>2, <1>8
  <2>2. k + 1 \in 1 .. Len(P) /\ k + 1 \in 1 .. 7 /\ k + 1 \in 1 .. Len(Bytes(h + 1))
    <3> DEFINE l == Len(Bodies[h + 1])
    <3>1. l \in Nat /\ Len(Bytes(h + 1)) = 7 + l
      BY <1>4
    <3>2. Len(P) = k + Len(Q) /\ Len(Q) \in Nat /\ Len(Q) > 0
      BY <1>2, <2>1
    <3> HIDE DEF l
    <3> QED
      BY <3>1, <3>2
  <2>3. Q[1] = P[k + 1] /\ P[k + 1] = Flat(n)[Off(h) + (k + 1)]
    BY <1>2, <1>6, <2>1, <2>2
  <2>4. Flat(n)[Off(h) + (k + 1)] = HeadOf7(h + 1)[k + 1]
    BY <1>4, <1>5, <2>2
  <2>5. /\ HeadOf7(h + 1)[3] = Sym("seq", h + 1)
        /\ HeadOf7(h + 1)[5] = Sym("len", Len(Bodies[h + 1]))
        /\ HeadOf7(h + 1)[7] = NL
    BY DEF HeadOf7
  <2>6. k + 1 \in {3, 5, 7}
    OBVIOUS
  <2>7. HeadOf7(h + 1)[k + 1].k # "call"
    BY <2>5, <2>6, Symbol
  <2> QED
    BY <2>3, <2>4, <2>7
<1> QED
  BY <1>7, <1>8 DEF DeafAt

LEMMA ErrorInductive ==
  ASSUME Inductive, ParseError PROVE Inductive'
<1>1. PICK h \in 0 .. sent : Follows(h)
  BY InductiveTyped
<1>2. Types /\ BufTyped /\ BufOK /\ Count \in Nat /\ sent \in 0 .. Count
  BY InductiveTyped
<1>3. /\ HeadReceived /\ Parse.res = "Error"
      /\ rbuf' = Parse.buf /\ rcurr' = Parse.p /\ rbytes' = Parse.n
      /\ misread' = TRUE /\ pc' = "poll" /\ unprocess = NoHead
      /\ UNCHANGED <<sent, iov, cut, peer, sock, num_allocs, unprocess, handled>>
  BY DEF ParseError, LeftBy, senderVars, HeadReceived
<1>4. rcurr \in Nat /\ rbytes \in Nat /\ rbytes > 0 /\ rcurr + rbytes <= Len(rbuf)
      /\ Len(rbuf) \in Nat
  BY <1>2, <1>3 DEF BufOK, HeadReceived
<1>5. unprocess' \in [seq : Int, len : Nat] /\ misread' \in BOOLEAN
  BY <1>2, <1>3 DEF Types
<1>6. Handled(h)'
  BY <1>1, <1>3 DEF Follows, Handled
<1>7. SUFFICES DeafAt(Pending', NoHead, cut) /\ Types'
  <2>1. ASSUME DeafAt(Pending', NoHead, cut) PROVE Follows(h)'
    <3>1. Tracks(Pending', h, sent, NoHead, cut, TRUE)
      BY <2>1 DEF Tracks
    <3> QED
      BY <1>3, <1>6, <3>1 DEF Follows
  <2> QED
    BY <1>3, <2>1 DEF Inductive
<1>8. CASE misread
  <2>1. /\ rcurr' = rcurr /\ rbytes' = rbytes
        /\ rbuf' \in Seq(Symbols) /\ Len(rbuf') = Len(rbuf) /\ rbuf'[rcurr + 1].k # "call"
    BY <1>3, <1>8, DeafRefuses
  <2> DEFINE b == rbuf'
             Q == Pend(b, rcurr, rbytes, sock, iov)
  <2>2. Pending' = Q
    BY <1>3, <2>1, PendingIsNext
  <2>3. b \in Seq(Symbols) /\ rcurr + rbytes <= Len(b)
    BY <1>4, <2>1
  <2> HIDE DEF b
  <2>4. Spells(Q, b, rcurr, rbytes, sock, iov)
    BY <1>2, <2>3, PendIs DEF BufTyped
  <2> HIDE DEF Q
  <2>5. /\ Len(Q) = rbytes + Len(sock) + Len(iov) /\ Len(sock) \in Nat /\ Len(iov) \in Nat
        /\ \A i \in 1 .. rbytes : Q[i] = b[rcurr + i]
    BY <2>4 DEF Spells
  <2>6. 1 \in 1 .. rbytes /\ Len(Q) # 0
    BY <1>4, <2>5
  <2>7. Q # <<>> /\ Q[1] = b[rcurr + 1]
    BY <2>5, <2>6
  <2>8. DeafAt(Q, NoHead, cut)
    BY <2>1, <2>7 DEF DeafAt, b
  <2>9. Types'
    BY <1>2, <1>3, <1>4, <1>5, <2>1 DEF Types
  <2> QED
    BY <2>2, <2>8, <2>9
<1>9. CASE ~misread
  <2>1. /\ AlignedAt(Pending, Off(h), sent, cut)
        /\ h < sent /\ HeadHere(h + 1) /\ rbytes >= 2
    BY <1>1, <1>3, <1>9, AwaitsHead
  <2>2. h + 1 \in 1 .. Count
    BY <1>2, <2>1
  <2>3. rbytes < 7
    <3>1. rbytes >= 7 => Parse.res \in {"OK", "NeedData"}
      BY <1>2, <2>1, <2>2, ParseReads
    <3> QED
      BY <1>3, <1>4, <3>1
  <2>4. PICK k \in {2, 4, 6} : k <= rbytes /\ ParseLeaves(k)
    BY <1>2, <2>1, <2>2, <2>3, ParseFails
  <2>5. Takes(k) /\ k \in Nat
    BY <1>3, <2>4 DEF Takes, ParseLeaves
  <2>6. Drops(Pending, Pending', k)
    BY <1>2, <2>4, <2>5, TakesDrops
  <2>7. DeafAt(Pending', NoHead, cut)
    <3> DEFINE P == Pending
               Q == Pending'
    <3>1. Drops(P, Q, k) /\ AlignedAt(P, Off(h), sent, cut)
      BY <2>1, <2>6
    <3> HIDE DEF P, Q
    <3>2. DeafAt(Q, NoHead, cut)
      BY <1>2, <2>1, <3>1, HeadGoesOn
    <3> QED
      BY <3>2 DEF Q
  <2>8. Types'
    BY <1>3, <1>5, <2>4, <2>5, TakesTyped
  <2> QED
    BY <2>7, <2>8
<1> QED
  BY <1>8, <1>9

LEMMA BodyInductive ==
  ASSUME Inductive, TakeBody PROVE Inductive'
<1>1. PICK h \in 0 .. sent : Follows(h)
  BY InductiveTyped
<1> DEFINE L == Len(Bodies[h + 1])
<1>2. Types /\ BufTyped /\ Count \in Nat /\ sent \in 0 .. Count
  BY InductiveTyped
<1>3. /\ rbytes > 0 /\ unprocess # NoHead /\ rbytes >= unprocess.len
      /\ pc = "handle" /\ Deliver(rbuf, rcurr, rbytes, unprocess)
      /\ UNCHANGED <<sent, iov, cut, peer, sock, pc, num_allocs, misread>>
  BY DEF TakeBody, senderVars
<1>4. ~misread
  BY <1>1, <1>3, DeafReader
<1>5. HeadOf(unprocess, h, sent) /\ AlignedAt(Pending, PosOf(h, unprocess), sent, cut)
  BY <1>1, <1>4 DEF Follows, Tracks
<1>6. h < sent /\ unprocess = [seq |-> h + 1, len |-> L]
  BY <1>3, <1>5 DEF HeadOf
<1>7. h + 1 \in 1 .. Count /\ h \in 0 .. Count - 1 /\ h \in 0 .. Count /\ h + 1 \in 0 .. sent
      /\ sent \in h + 1 .. Count
  BY <1>2, <1>6
<1>8. L \in Nat /\ Off(h) \in Nat /\ Off(h + 1) = Off(h) + 7 + L
  BY <1>7, BytesAre, OffStep
<1>9. AlignedAt(Pending, Off(h) + 7, sent, cut)
  BY <1>3, <1>5 DEF PosOf
<1>10. rcurr \in Nat /\ rbytes \in Nat /\ rcurr + rbytes <= Len(rbuf) /\ Len(rbuf) \in Nat
       /\ rbuf \in Seq(Symbols)
  BY <1>2 DEF BufTyped
<1>11. rbytes >= L
  BY <1>3, <1>6
<1>12. \A j \in 1 .. L : rbuf[rcurr + j] = Bodies[h + 1][j]
  <2> TAKE j \in 1 .. L
  <2>1. Off(h) + 7 \in Nat
    BY <1>8
  <2>2. \A i \in 1 .. rbytes : rbuf[rcurr + i] = Flat(sent)[(Off(h) + 7) + i]
    BY <1>2, <1>9, <2>1, ByteAt
  <2>3. j \in 1 .. rbytes
    BY <1>8, <1>10, <1>11
  <2>4. /\ Len(Bytes(h + 1)) = 7 + L
        /\ Bytes(h + 1)[7 + j] = Bodies[h + 1][j]
    BY <1>7, BytesAre
  <2>5. 7 + j \in 1 .. Len(Bytes(h + 1)) /\ (Off(h) + 7) + j = Off(h) + (7 + j)
    <3> DEFINE o == Off(h)
               b == Len(Bytes(h + 1))
    <3>1. L \in Nat /\ o \in Nat /\ b = 7 + L /\ j \in 1 .. L
      BY <1>8, <2>4
    <3> HIDE DEF L, o, b
    <3>2. 7 + j \in 1 .. b /\ (o + 7) + j = o + (7 + j)
      BY <3>1
    <3> QED
      BY <3>2 DEF o, b
  <2>6. Flat(sent)[Off(h) + (7 + j)] = Bytes(h + 1)[7 + j]
    BY <1>7, <2>5, StreamAt
  <2> QED
    BY <2>2, <2>3, <2>4, <2>5, <2>6
<1> HIDE DEF L
<1>13. /\ Deliver(rbuf, rcurr, rbytes, [seq |-> h + 1, len |-> L])
       /\ rbuf' = rbuf /\ rcurr' = rcurr + L /\ rbytes' = rbytes - L
       /\ unprocess' = NoHead
  <2>1. Deliver(rbuf, rcurr, rbytes, [seq |-> h + 1, len |-> L])
    BY <1>3, <1>6
  <2> QED
    BY <2>1 DEF Deliver
<1>14. Takes(L)
  BY <1>3, <1>10, <1>13 DEF Takes
<1>15. Handled(h + 1)'
  <2>1. Handled(h)
    BY <1>1 DEF Follows
  <2>2. rcurr + L <= Len(rbuf)
    BY <1>8, <1>10, <1>11
  <2> QED
    BY <1>7, <1>10, <1>12, <1>13, <2>1, <2>2, DeliverHandles DEF L
<1>16. Drops(Pending, Pending', L)
  BY <1>2, <1>8, <1>11, <1>14, TakesDrops
<1>17. Tracks(Pending', h + 1, sent, NoHead, cut, FALSE)
  <2> DEFINE P == Pending
             Q == Pending'
             d == Off(h) + 7
  <2>1. Drops(P, Q, L) /\ AlignedAt(P, d, sent, cut) /\ d \in Nat /\ d + L = Off(h + 1)
    BY <1>8, <1>9, <1>16
  <2> HIDE DEF P, Q, d
  <2>2. Tracks(Q, h + 1, sent, NoHead, cut, FALSE)
    BY <1>2, <1>6, <1>8, <2>1, NextAligned
  <2> QED
    BY <2>2 DEF Q
<1>18. Follows(h + 1)'
  <2>1. misread' = FALSE
    BY <1>2, <1>3, <1>4 DEF Types
  <2> QED
    BY <1>3, <1>13, <1>15, <1>17, <2>1 DEF Follows
<1>19. Types'
  <2>1. unprocess' \in [seq : Int, len : Nat] /\ misread' \in BOOLEAN
    BY <1>2, <1>3, <1>13, NoHeadTyped DEF Types
  <2>2. pc' \in {"poll", "handle"}
    BY <1>3
  <2> QED
    BY <1>3, <1>8, <1>11, <1>14, <2>1, <2>2, TakesTyped
<1> QED
  BY <1>3, <1>7, <1>18, <1>19 DEF Inductive

-----------------------------------------------------------------------------
(* What the inductive invariant says of the stream. *)

(* What is due starts where the reader stands. *)
LEMMA DueIs ==
  ASSUME NEW n \in 0 .. Count, NEW d \in Nat, d <= Off(n)
  PROVE  LET D == SubSeq(Flat(n), d + 1, Off(n))
         IN  /\ D \in Seq(Symbols) /\ Len(D) = Off(n) - d
             /\ \A i \in 1 .. Off(n) - d : D[i] = Flat(n)[d + i]
<1>1. Flat(n) \in Seq(Symbols) /\ Off(n) \in Nat /\ Len(Flat(n)) = Off(n)
  BY FlatTyped DEF Off
<1> DEFINE F == Flat(n)
           r == Off(n) - d
<1>2. r \in Nat /\ d + r = Off(n) /\ d + r <= Len(F)
  BY <1>1
<1> HIDE DEF r, F
<1>3. /\ SubSeq(F, d + 1, d + r) \in Seq(Symbols)
      /\ Len(SubSeq(F, d + 1, d + r)) = r
      /\ \A i \in 1 .. r : SubSeq(F, d + 1, d + r)[i] = F[d + i]
  <2>1. F \in Seq(Symbols)
    BY <1>1 DEF F
  <2> QED
    BY <1>2, <2>1, Cut
<1>4. /\ SubSeq(F, d + 1, Off(n)) \in Seq(Symbols)
      /\ Len(SubSeq(F, d + 1, Off(n))) = r
      /\ \A i \in 1 .. r : SubSeq(F, d + 1, Off(n))[i] = F[d + i]
  BY <1>2, <1>3
<1> QED
  BY <1>4 DEF F, r

LEMMA AlignedIsDue ==
  ASSUME NEW n \in 0 .. Count, NEW d \in Nat, NEW P \in Seq(Symbols), NEW c,
         AlignedAt(P, d, n, c)
  PROVE  LET D == SubSeq(Flat(n), d + 1, Off(n))
         IN  IsPrefix(P, D) /\ (~c => P = D)
<1> DEFINE D == SubSeq(Flat(n), d + 1, Off(n))
           r == Off(n) - d
<1>1. /\ d + Len(P) <= Off(n) /\ (~c => d + Len(P) = Off(n))
      /\ \A i \in 1 .. Len(P) : P[i] = Flat(n)[d + i]
  BY DEF AlignedAt
<1>2. Off(n) \in Nat /\ Len(P) \in Nat
  BY FlatTyped
<1>3. d <= Off(n) /\ r \in Nat /\ Len(P) <= r
  BY <1>1, <1>2
<1>4. /\ D \in Seq(Symbols) /\ Len(D) = r
      /\ \A i \in 1 .. r : D[i] = Flat(n)[d + i]
  BY <1>3, DueIs
<1>5. ~c => Len(P) = r
  BY <1>1, <1>2
<1> HIDE DEF D, r
<1>6. \A i \in 1 .. Len(P) : P[i] = D[i]
  <2> TAKE i \in 1 .. Len(P)
  <2>1. i \in 1 .. r
    BY <1>2, <1>3
  <2> QED
    BY <1>1, <1>4, <2>1
<1>7. ~c => P = D
  BY <1>4, <1>5, <1>6, SeqEqual
<1>8. IsPrefix(P, D)
  <2>1. SubSeq(P, 1, Len(P)) = [i \in 1 .. Len(P) |-> P[i]]
    BY <1>2
  <2>2. SubSeq(D, 1, Len(P)) = [i \in 1 .. Len(P) |-> D[i]]
    BY <1>2, <1>3, <1>4
  <2>3. Len(P) <= Len(D)
    BY <1>3, <1>4
  <2> QED
    BY <1>6, <2>1, <2>2, <2>3 DEF IsPrefix
<1> QED
  BY <1>7, <1>8 DEF D

LEMMA NextInductive == Inductive /\ [Next]_vars => Inductive'
<1> SUFFICES ASSUME Inductive, [Next]_vars PROVE Inductive'
  OBVIOUS
<1>1. CASE Sender
  <2>1. CASE Format
    BY <2>1, FormatInductive
  <2>2. ASSUME NEW n \in 1 .. SockSize, SendMsg(n) PROVE Inductive'
    BY <2>2, SendInductive
  <2> QED
    BY <1>1, <2>1, <2>2 DEF Sender
<1>2. CASE Peer
  BY <1>2, PeerInductive DEF Peer
<1>3. CASE Reader
  <2>1. CASE ReadEvent
    BY <2>1, ReadEventInductive
  <2>2. CASE Grow
    BY <2>2, GrowInductive
  <2>3. CASE GiveUp \/ ReadEnd \/ WaitForMore
    BY <2>3, PcInductive
  <2>4. ASSUME NEW n \in 1 .. SockSize, Read(n) PROVE Inductive'
    BY <2>4, ReadInductive
  <2>5. CASE HandleMessage
    BY <2>5, HandleInductive
  <2>6. CASE KeepHead
    BY <2>6, KeepInductive
  <2>7. CASE ParseError
    BY <2>7, ErrorInductive
  <2>8. CASE TakeBody
    BY <2>8, BodyInductive
  <2> QED
    BY <1>3, <2>1, <2>2, <2>3, <2>4, <2>5, <2>6, <2>7, <2>8 DEF Reader
<1>4. CASE UNCHANGED vars
  BY <1>4, StutterInductive
<1> QED
  BY <1>1, <1>2, <1>3, <1>4 DEF Next

(* The messages handled, and where the reader stands. *)
LEMMA FollowsGives ==
  ASSUME Inductive, NEW h \in 0 .. sent, Follows(h)
  PROVE  /\ Len(handled) = h /\ IsPrefix(handled, Sent)
         /\ Stream = Flat(sent)
         /\ HeadOf(unprocess, h, sent) => Consumed = PosOf(h, unprocess)
<1>1. Count \in Nat /\ sent \in 0 .. Count /\ h \in Nat /\ h <= sent /\ sent \in Nat
  BY InductiveTyped
<1>2. handled = [i \in 1 .. h |-> Message(i)]
  BY DEF Follows, Handled
<1>3. Len(handled) = h
  BY <1>1, <1>2
<1>4. IsPrefix(handled, Sent)
  <2>1. Len(Sent) = sent
    BY <1>1 DEF Sent
  <2>2. SubSeq(handled, 1, h) = [i \in 1 .. h |-> Message(i)]
    BY <1>1, <1>2
  <2>3. SubSeq(Sent, 1, h) = [i \in 1 .. h |-> Message(i)]
    BY <1>1 DEF Sent
  <2> QED
    BY <1>1, <1>3, <2>1, <2>2, <2>3 DEF IsPrefix
<1>5. Stream = Flat(sent)
  BY DEF Stream, Flat
<1>6. ASSUME HeadOf(unprocess, h, sent) PROVE Consumed = PosOf(h, unprocess)
  <2>1. Len(FlattenSeq([i \in 1 .. Len(handled) |-> Bytes(i)])) = Off(h)
    BY <1>3 DEF Off, Flat
  <2>2. Off(h) \in Nat
    BY <1>1, FlatTyped
  <2>3. CASE unprocess = NoHead
    BY <2>1, <2>2, <2>3 DEF Consumed, PosOf
  <2>4. CASE unprocess # NoHead
    <3>1. 1 \in 1 .. Count
      BY <1>1, <1>6, <2>4 DEF HeadOf
    <3>2. Len(Bodies[1]) \in Nat /\ Len(Bytes(1)) = 7 + Len(Bodies[1])
      BY <3>1, BytesAre
    <3>3. Len(Bytes(1)) - Len(Bodies[1]) = 7
      <4> DEFINE l == Len(Bodies[1])
                 b == Len(Bytes(1))
      <4> HIDE DEF l, b
      <4>1. l \in Nat /\ b = 7 + l
        BY <3>2 DEF l, b
      <4>2. b - l = 7
        BY <4>1
      <4> QED
        BY <4>2 DEF l, b
    <3> QED
      BY <2>1, <2>2, <2>4, <3>3 DEF Consumed, PosOf
  <2> QED
    BY <2>3, <2>4
<1> QED
  BY <1>3, <1>4, <1>5, <1>6

LEMMA InductiveGives == Inductive => IInv
<1> SUFFICES ASSUME Inductive PROVE IInv
  OBVIOUS
<1>1. PICK h \in 0 .. sent : Follows(h)
  BY InductiveTyped
<1>2. Types /\ BufTyped /\ BufOK /\ Count \in Nat /\ sent \in 0 .. Count
  BY InductiveTyped
<1>3. /\ Len(handled) = h /\ IsPrefix(handled, Sent) /\ Stream = Flat(sent)
      /\ HeadOf(unprocess, h, sent) => Consumed = PosOf(h, unprocess)
  BY <1>1, FollowsGives
<1>4. TypeOK
  <2>1. Len(handled) <= Count
    BY <1>2, <1>3
  <2> QED
    BY <1>2, <2>1 DEF TypeOK, Types
<1>5. Tracks(Pending, h, sent, unprocess, cut, misread) /\ h \in 0 .. Count
  BY <1>1, <1>2 DEF Follows
<1>6. ASSUME misread PROVE Deaf
  BY <1>5, <1>6 DEF Tracks, DeafAt, Deaf
<1>7. ASSUME ~misread PROVE Aligned /\ (~cut => Pending = Due)
  <2>1. HeadOf(unprocess, h, sent) /\ AlignedAt(Pending, PosOf(h, unprocess), sent, cut)
    BY <1>5, <1>7 DEF Tracks
  <2> DEFINE d == PosOf(h, unprocess)
             P == Pending
  <2>2. d \in Nat
    BY <1>5, PosTyped
  <2>3. P \in Seq(Symbols)
    <3>1. Spells(Pend(rbuf, rcurr, rbytes, sock, iov), rbuf, rcurr, rbytes, sock, iov)
      BY <1>2, PendIs DEF BufTyped
    <3> QED
      BY <3>1, PendingIs DEF Spells
  <2>4. Due = SubSeq(Flat(sent), d + 1, Off(sent))
    BY <1>3, <2>1 DEF Due, Off
  <2>5. AlignedAt(P, d, sent, cut)
    BY <2>1
  <2> HIDE DEF d, P
  <2>6. IsPrefix(P, Due) /\ (~cut => P = Due)
    BY <1>2, <2>2, <2>3, <2>4, <2>5, AlignedIsDue
  <2>7. unprocess # NoHead =>
          /\ Len(handled) < sent
          /\ unprocess = [seq |-> Len(handled) + 1,
                          len |-> Len(Bodies[Len(handled) + 1])]
    BY <1>3, <2>1 DEF HeadOf
  <2> QED
    BY <2>6, <2>7 DEF Aligned, P
<1>8. StreamIsKept
  BY <1>3, <1>7 DEF StreamIsKept
<1> QED
  BY <1>4, <1>6, <1>7, <1>8 DEF IInv, Inductive

-----------------------------------------------------------------------------
(* The theorems. *)

(* The inductive invariant holds of every reachable state, for messages of *)
(* any number and length and a buffer and a socket of any size: the reader *)
(* has handled the first h messages, and what it has not read yet, on its  *)
(* way through sendmsg, read and rbuf, follows on them.                    *)
THEOREM InductiveHolds == Spec => []Inductive
<1>1. Inductive /\ [Next]_vars => Inductive'
  BY NextInductive
<1> QED
  BY <1>1, InitInductive, PTL DEF Spec

(* The invariant that run conn_stream checks: what is unread lies within   *)
(* rbuf, the reader waits for the body of the message whose turn it is,    *)
(* and once it has misread a head it stands in the middle of one.          *)
THEOREM IInvHolds == Spec => []IInv
<1>1. Inductive => IInv
  BY InductiveGives
<1> QED
  BY <1>1, InductiveHolds, PTL

(* However read and sendmsg cut the stream up, compaction, growth and      *)
(* parsing lose, repeat and move no byte of it, and the service sees the   *)
(* messages in the order, and with the seq and body, they were sent with.  *)
THEOREM StreamStaysKept == Spec => []StreamIsKept
<1>1. IInv => StreamIsKept
  BY DEF IInv
<1> QED
  BY <1>1, IInvHolds, PTL

(* After its parser has failed once, a connection handles no message: the  *)
(* line the parser refuses is never consumed.                              *)
THEOREM MisreadStaysFinal == Spec => MisreadIsFinal
<1>1. Inductive /\ [Next]_vars => [misread => UNCHANGED handled]_vars
  <2> SUFFICES ASSUME Inductive, [Next]_vars, misread
               PROVE  handled' = handled
    OBVIOUS
  <2>1. CASE Sender
    BY <2>1 DEF Sender, Format, SendMsg
  <2>2. CASE Peer
    BY <2>2 DEF Peer, PeerGoes
  <2>3. CASE ReadEvent \/ Grow \/ GiveUp \/ (\E n \in 1 .. SockSize : Read(n))
             \/ ReadEnd \/ WaitForMore \/ KeepHead \/ ParseError
    BY <2>3 DEF ReadEvent, Grow, GiveUp, Read, ReadEnd, WaitForMore, KeepHead, ParseError
  <2>4. CASE HandleMessage
    <3>1. HeadReceived /\ Parse.res = "OK"
      BY <2>4 DEF HandleMessage
    <3>2. Parse.res = "Error"
      BY <3>1, DeafRefuses
    <3> QED
      BY <3>1, <3>2
  <2>5. CASE TakeBody
    <3>1. PICK h \in 0 .. sent : Follows(h)
      BY InductiveTyped
    <3>2. unprocess = NoHead
      BY <3>1, DeafReader
    <3> QED
      BY <2>5, <3>2 DEF TakeBody
  <2>6. CASE UNCHANGED vars
    BY <2>6 DEF vars
  <2> QED
    BY <2>1, <2>2, <2>3, <2>4, <2>5, <2>6 DEF Next, Reader
<1> QED
  BY <1>1, InductiveHolds, PTL DEF Spec, MisreadIsFinal
=============================================================================
