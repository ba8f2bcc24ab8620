--------------------------- MODULE DispatchProofs ---------------------------
(***************************************************************************)
(* The server's handover of connections, for any number of workers and     *)
(* connections.                                                            *)
(*                                                                         *)
(* 1. A worker never pops an empty queue.  PopFindsConnection is not       *)
(*    inductive: whether the queue holds a connection when the worker pops *)
(*    depends on what the eventfd counted when it was read.                *)
(*    NotifiedAreQueued carries that: the queue of a worker is at least as *)
(*    long as the notifications that are counted, being acted on, or about *)
(*    to be written.                                                       *)
(* 2. Each worker gets every WorkerLen-th connection, in order.  A step of *)
(*    the dispatcher keeps that only if the worker chosen is the one whose *)
(*    share the new connection lengthens (NextInTurn), and a step of a     *)
(*    worker only if it pops a real connection, which is 1.                *)
(* 3. A worker registers what it has unlinked, or what was pushed since: a *)
(*    push may refill the item it is about to read, but with a connection  *)
(*    that was not yet pushed when the item was unlinked (ItemsAreRead).   *)
(***************************************************************************)
EXTENDS Dispatch, TLAPS

(* What one handover step does to a queue keeps the types of the queues.   *)
LEMMA TailOfSeq ==
  ASSUME NEW S, NEW s \in Seq(S), s # <<>>
  PROVE  /\ Head(s) \in S
         /\ Tail(s) \in Seq(S)
         /\ Len(Tail(s)) = Len(s) - 1
         /\ Len(s) \in Nat \ {0}
OBVIOUS

LEMMA AppendToSeq ==
  ASSUME NEW S, NEW s \in Seq(S), NEW x \in S
  PROVE  /\ Append(s, x) \in Seq(S)
         /\ Len(Append(s, x)) = Len(s) + 1
         /\ Len(s) \in Nat
OBVIOUS

(* The next worker chosen by the dispatcher is one of the workers.         *)
LEMMA NextWorker ==
  ASSUME NEW t \in Workers \cup {-1}
  PROVE  (t + 1) % WorkerLen \in Workers
BY DispatchAssumption DEF Workers

(* What a push does to the workers that are about to read an item.         *)
LEMMA Filled ==
  ASSUME TypeOK, FillsAnItem, dispatcher.conn \in Conns
  PROVE  /\ worker' \in [Workers -> [pc : {"poll", "pop", "read"}, n : Nat,
                                    item : Conns \cup {NoConn}]]
         /\ \A w \in Workers :
              /\ worker'[w].pc = worker[w].pc
              /\ \/ worker'[w].item = worker[w].item
                 \/ worker'[w].item = dispatcher.conn
<1>1. worker \in [Workers -> [pc : {"poll", "pop", "read"}, n : Nat,
                             item : Conns \cup {NoConn}]]
  BY DEF TypeOK
<1>2. CASE UNCHANGED worker
  BY <1>1, <1>2
<1>3. ASSUME NEW c \in Conns, FillsItemOf(c)
      PROVE  /\ worker' \in [Workers -> [pc : {"poll", "pop", "read"}, n : Nat,
                                         item : Conns \cup {NoConn}]]
             /\ \A w \in Workers :
                  /\ worker'[w].pc = worker[w].pc
                  /\ \/ worker'[w].item = worker[w].item
                     \/ worker'[w].item = dispatcher.conn
  BY <1>1, <1>3 DEF FillsItemOf
<1> QED
  BY <1>2, <1>3 DEF FillsAnItem

(* What a worker does that finds a connection, and one that finds none.    *)
LEMMA PopsOne ==
  ASSUME NEW w \in Workers, PopConn(w), queue[w] # <<>>
  PROVE  /\ worker[w].pc = "pop"
         /\ queue' = [queue EXCEPT ![w] = Tail(@)]
         /\ taken' = [taken EXCEPT ![w] = Append(@, Head(queue[w]))]
         /\ since' = [since EXCEPT ![w] = Append(@, Pushed)]
         /\ worker' = [worker EXCEPT ![w] =
                         [@ EXCEPT !.pc = "read", !.item = Head(queue[w])]]
         /\ UNCHANGED <<backlog, accepted, last_thread, dispatcher, notify, served>>
BY Zenon DEF PopConn

LEMMA PopsNone ==
  ASSUME NEW w \in Workers, PopConn(w), queue[w] = <<>>
  PROVE  /\ worker[w].pc = "pop"
         /\ served' = [served EXCEPT ![w] = Append(@, NoConn)]
         /\ worker' = [worker EXCEPT ![w] = IdleWorker]
         /\ UNCHANGED <<backlog, accepted, last_thread, dispatcher, queue, notify,
                       taken, since>>
BY Zenon DEF PopConn

LEMMA ItemPut ==
  ASSUME NEW r \in [pc : {"poll", "pop", "read"}, n : Nat, item : Conns \cup {NoConn}],
         NEW c \in Conns
  PROVE  [r EXCEPT !.pc = "read", !.item = c]
           \in [pc : {"poll", "pop", "read"}, n : Nat, item : Conns \cup {NoConn}]
OBVIOUS

(* The types of the state (TypeOK) hold in every reachable state.          *)
THEOREM TypeCorrect == Spec => []TypeOK
<1>1. Init => TypeOK
  BY DispatchAssumption DEF Init, TypeOK, IdleDispatcher, IdleWorker, Workers
<1>2. TypeOK /\ [Next]_vars => TypeOK'
  <2> SUFFICES ASSUME TypeOK, [Next]_vars PROVE TypeOK'
    OBVIOUS
  <2> USE DEF TypeOK
  <2>1. ASSUME NEW c \in Conns, Connect(c) PROVE TypeOK'
    BY <2>1 DEF Connect
  <2>2. ASSUME NEW c \in Conns, Accept(c) PROVE TypeOK'
    <3>1. last_thread' \in Workers
      BY <2>2, NextWorker DEF Accept
    <3> QED
      BY <2>2, <3>1, AppendToSeq DEF Accept
  <2>3. CASE Push
    <3>1. queue' \in [Workers -> Seq(Conns)]
      BY <2>3, AppendToSeq DEF Push
    <3>2. worker' \in [Workers -> [pc : {"poll", "pop", "read"}, n : Nat,
                                  item : Conns \cup {NoConn}]]
      <4>1. FillsAnItem /\ dispatcher.conn \in Conns
        BY <2>3 DEF Push
      <4> QED
        BY <4>1, Filled
    <3> QED
      BY <2>3, <3>1, <3>2 DEF Push
  <2>4. CASE Notify
    <3>1. notify' \in [Workers -> Nat]
      BY <2>4 DEF Notify
    <3> QED
      BY <2>4, <3>1 DEF Notify, IdleDispatcher
  <2>5. ASSUME NEW w \in Workers, ReadNotify(w) PROVE TypeOK'
    BY <2>5 DEF ReadNotify
  <2>6. ASSUME NEW w \in Workers, PopConn(w) PROVE TypeOK'
    <3> DEFINE W == [pc : {"poll", "pop", "read"}, n : Nat, item : Conns \cup {NoConn}]
    <3>1. CASE queue[w] = <<>>
      <4>1. Append(served[w], NoConn) \in Seq(Conns \cup {NoConn})
        OBVIOUS
      <4>2. IdleWorker \in W
        BY DEF IdleWorker
      <4> HIDE DEF W
      <4>3. worker' \in [Workers -> W]
        BY <2>6, <3>1, <4>2, PopsNone DEF W
      <4>4. served' \in [Workers -> Seq(Conns \cup {NoConn})]
        BY <2>6, <3>1, <4>1, PopsNone
      <4> QED
        BY <2>6, <3>1, <4>3, <4>4, PopsNone DEF W
    <3>2. CASE queue[w] # <<>>
      <4>1. Head(queue[w]) \in Conns /\ Tail(queue[w]) \in Seq(Conns)
        BY <3>2, TailOfSeq
      <4>2. Append(taken[w], Head(queue[w])) \in Seq(Conns)
        BY <4>1
      <4>3. Append(since[w], Pushed) \in Seq(Int)
        BY DEF Pushed
      <4>4. [worker[w] EXCEPT !.pc = "read", !.item = Head(queue[w])] \in W
        <5>1. worker[w] \in W
          OBVIOUS
        <5> QED
          BY <4>1, <5>1, ItemPut
      <4>5. /\ queue \in [Workers -> Seq(Conns)] /\ taken \in [Workers -> Seq(Conns)]
            /\ since \in [Workers -> Seq(Int)] /\ worker \in [Workers -> W]
        OBVIOUS
      <4>6. queue[w] # <<>> => /\ backlog' = backlog /\ accepted' = accepted
                                /\ last_thread' = last_thread /\ dispatcher' = dispatcher
                                /\ notify' = notify /\ served' = served
        BY <2>6, PopsOne
      <4> HIDE DEF W, TypeOK
      <4>7. worker' \in [Workers -> W]
        BY <2>6, <3>2, <4>4, <4>5, PopsOne
      <4>8. queue' \in [Workers -> Seq(Conns)]
        BY <2>6, <3>2, <4>1, <4>5, PopsOne
      <4>9. taken' \in [Workers -> Seq(Conns)]
        BY <2>6, <3>2, <4>2, <4>5, PopsOne
      <4>10. since' \in [Workers -> Seq(Int)]
        BY <2>6, <3>2, <4>3, <4>5, PopsOne
      <4> QED
        BY <3>2, <4>7, <4>8, <4>9, <4>10, <4>6 DEF W, TypeOK
    <3> QED
      BY <3>1, <3>2
  <2>7. ASSUME NEW w \in Workers, ReadConn(w) PROVE TypeOK'
    <3>1. Append(served[w], worker[w].item) \in Seq(Conns \cup {NoConn})
      OBVIOUS
    <3> QED
      BY <2>7, <3>1 DEF ReadConn, IdleWorker
  <2>8. CASE UNCHANGED vars
    BY <2>8 DEF vars
  <2> QED
    BY <2>1, <2>2, <2>3, <2>4, <2>5, <2>6, <2>7, <2>8 DEF Next, Dispatcher, Worker
<1> QED
  BY <1>1, <1>2, PTL DEF Spec

(* NotifiedAreQueued is inductive, given the types.                        *)
LEMMA NotifiedAreQueuedStep ==
  TypeOK /\ TypeOK' /\ NotifiedAreQueued /\ [Next]_vars => NotifiedAreQueued'
<1> SUFFICES ASSUME TypeOK, TypeOK', NotifiedAreQueued, [Next]_vars,
                    NEW v \in Workers
             PROVE  Owed(v)' <= Len(queue'[v])
  BY DEF NotifiedAreQueued, Owed
<1>0. Owed(v) <= Len(queue[v]) /\ Len(queue[v]) \in Nat
  BY DEF NotifiedAreQueued, TypeOK
<1> USE DEF TypeOK, Owed
<1>1. ASSUME NEW c \in Conns, Connect(c) PROVE Owed(v)' <= Len(queue'[v])
  BY <1>0, <1>1 DEF Connect
<1>2. ASSUME NEW c \in Conns, Accept(c) PROVE Owed(v)' <= Len(queue'[v])
  BY <1>0, <1>2 DEF Accept
<1>3. CASE Push
  <2>0. worker'[v].pc = worker[v].pc
    BY <1>3, Filled DEF Push
  <2>1. CASE last_thread = v
    BY <1>0, <1>3, <2>0, <2>1, AppendToSeq DEF Push
  <2>2. CASE last_thread # v
    BY <1>0, <1>3, <2>0, <2>2 DEF Push
  <2> QED
    BY <2>1, <2>2
<1>4. CASE Notify
  BY <1>0, <1>4 DEF Notify, IdleDispatcher
<1>5. ASSUME NEW w \in Workers, ReadNotify(w) PROVE Owed(v)' <= Len(queue'[v])
  <2>1. CASE w = v
    <3>1. worker[v].pc = "poll" /\ worker'[v].pc = "pop" /\ notify'[v] = 0
      BY <1>5, <2>1 DEF ReadNotify
    <3> QED
      BY <1>0, <1>5, <2>1, <3>1 DEF ReadNotify
  <2>2. CASE w # v
    BY <1>0, <1>5, <2>2 DEF ReadNotify
  <2> QED
    BY <2>1, <2>2
<1>6. ASSUME NEW w \in Workers, PopConn(w) PROVE Owed(v)' <= Len(queue'[v])
  <2>0. worker[w].pc = "pop" /\ queue[w] # <<>>
    <3>1. worker[w].pc = "pop"
      BY <1>6 DEF PopConn
    <3>2. Owed(w) <= Len(queue[w])
      BY DEF NotifiedAreQueued
    <3>3. notify[w] \in Nat /\ Len(queue[w]) \in Nat
      OBVIOUS
    <3> HIDE DEF TypeOK
    <3>4. Owed(w) >= 1 /\ Owed(w) \in Nat
      BY <3>1, <3>3
    <3> HIDE DEF Owed
    <3>5. Len(queue[w]) # 0
      BY <3>2, <3>3, <3>4
    <3> QED
      BY <3>1, <3>5
  <2>a. /\ queue \in [Workers -> Seq(Conns)]
        /\ worker \in [Workers -> [pc : {"poll", "pop", "read"}, n : Nat,
                                   item : Conns \cup {NoConn}]]
        /\ notify[v] \in Nat
    OBVIOUS
  <2> HIDE DEF TypeOK, Owed
  <2>1. CASE w = v
    <3>1. Len(queue'[v]) = Len(queue[v]) - 1
      <4>1. queue'[v] = Tail(queue[v]) /\ queue[v] \in Seq(Conns)
        BY <1>6, <2>0, <2>1, <2>a, PopsOne
      <4> QED
        BY <2>0, <2>1, <4>1, TailOfSeq
    <3>2. worker'[v].pc = "read"
      <4>1. worker'[v] = [worker[v] EXCEPT !.pc = "read", !.item = Head(queue[v])]
        BY <1>6, <2>0, <2>1, <2>a, PopsOne
      <4>2. worker[v] \in [pc : {"poll", "pop", "read"}, n : Nat,
                           item : Conns \cup {NoConn}]
        BY <2>a
      <4> QED
        BY <4>1, <4>2
    <3>3. notify' = notify /\ dispatcher' = dispatcher /\ last_thread' = last_thread
      BY <1>6, <2>0, PopsOne
    <3> QED
      BY <1>0, <2>0, <2>1, <2>a, <3>1, <3>2, <3>3 DEF Owed
  <2>2. CASE w # v
    <3>1. queue'[v] = queue[v] /\ worker'[v] = worker[v]
      BY <1>6, <2>0, <2>2, <2>a, PopsOne
    <3>2. notify' = notify /\ dispatcher' = dispatcher /\ last_thread' = last_thread
      BY <1>6, <2>0, PopsOne
    <3> QED
      BY <1>0, <3>1, <3>2 DEF Owed
  <2> QED
    BY <2>1, <2>2
<1>7. ASSUME NEW w \in Workers, ReadConn(w) PROVE Owed(v)' <= Len(queue'[v])
  BY <1>0, <1>7 DEF ReadConn, IdleWorker
<1>8. CASE UNCHANGED vars
  BY <1>0, <1>8 DEF vars
<1> QED
  BY <1>1, <1>2, <1>3, <1>4, <1>5, <1>6, <1>7, <1>8 DEF Next, Dispatcher, Worker

(* The push comes before the write of the eventfd, so what a worker is     *)
(* owed is in its queue (NotifiedAreQueued).                               *)
THEOREM OwedConnectionsAreQueued == Spec => []NotifiedAreQueued
<1>1. Init => NotifiedAreQueued
  BY DEF Init, NotifiedAreQueued, Owed, IdleWorker, IdleDispatcher
<1> QED
  BY <1>1, NotifiedAreQueuedStep, TypeCorrect, PTL DEF Spec

LEMMA PopsOnlyQueued == TypeOK /\ NotifiedAreQueued => PopFindsConnection
BY DEF TypeOK, NotifiedAreQueued, Owed, PopFindsConnection

(* A worker never registers NULL, file descriptor 0, as a connection       *)
(* (PopFindsConnection), whatever notifications the eventfd merges.        *)
THEOREM PopsFindConnections == Spec => []PopFindsConnection
BY PopsOnlyQueued, TypeCorrect, OwedConnectionsAreQueued, PTL
-----------------------------------------------------------------------------
(* Division with remainder, as the shares of the workers need it.          *)
LEMMA DivMod ==
  ASSUME NEW W \in Nat \ {0}, NEW n \in Int
  PROVE  n = W * (n \div W) + (n % W)
OBVIOUS

LEMMA DivModTypes ==
  ASSUME NEW W \in Nat \ {0}, NEW n \in Int
  PROVE  n % W \in 0 .. (W - 1) /\ n \div W \in Int
OBVIOUS

LEMMA QuotientOfNat ==
  ASSUME NEW W \in Nat \ {0}, NEW n \in Nat
  PROVE  n \div W \in Nat
OBVIOUS

LEMMA TimesAtLeastOne ==
  ASSUME NEW W \in Nat \ {0}, NEW k \in Int, k >= 1
  PROVE  W * k >= W
OBVIOUS

LEMMA TimesDifference ==
  ASSUME NEW W \in Int, NEW k \in Int, NEW l \in Int
  PROVE  W * (k - l) = W * k - W * l
OBVIOUS

LEMMA DivisionIsUnique ==
  ASSUME NEW W \in Nat \ {0}, NEW q \in Int, NEW d \in Int,
         NEW s \in 0 .. (W - 1), NEW m \in 0 .. (W - 1), W * q + s = W * d + m
  PROVE  q = d /\ s = m
<1>1. W * (q - d) = m - s
  BY TimesDifference
<1>2. ~ (q - d >= 1)
  <2> SUFFICES ASSUME q - d >= 1 PROVE FALSE
    OBVIOUS
  <2>1. W * (q - d) >= W
    BY TimesAtLeastOne
  <2> QED
    BY <1>1, <2>1
<1>3. ~ (d - q >= 1)
  <2> SUFFICES ASSUME d - q >= 1 PROVE FALSE
    OBVIOUS
  <2>1. W * (d - q) >= W
    BY TimesAtLeastOne
  <2>2. W * (d - q) = s - m
    BY TimesDifference
  <2> QED
    BY <2>1, <2>2
<1> QED
  BY <1>2, <1>3

LEMMA DivisionIs ==
  ASSUME NEW W \in Nat \ {0}, NEW x \in Int, NEW q \in Int,
         NEW s \in 0 .. (W - 1), x = W * q + s
  PROVE  x \div W = q /\ x % W = s
BY DivMod, DivModTypes, DivisionIsUnique

(* What is added to a remainder is added to the number.                    *)
LEMMA NextRemainder ==
  ASSUME NEW W \in Nat \ {0}, NEW n \in Nat
  PROVE  ((n % W) + 1) % W = (n + 1) % W
<1> DEFINE q == n \div W
           r == n % W
<1>1. n = W * q + r /\ r \in 0 .. (W - 1) /\ q \in Int
  BY DivMod, DivModTypes
<1> HIDE DEF q, r
<1>2. CASE r + 1 < W
  <2>1. r + 1 = W * 0 + (r + 1) /\ r + 1 \in 0 .. (W - 1)
    BY <1>1, <1>2
  <2>2. n + 1 = W * q + (r + 1)
    BY <1>1
  <2>3. (r + 1) % W = r + 1
    BY <1>1, <2>1, DivisionIs
  <2>4. (n + 1) % W = r + 1
    BY <1>1, <2>1, <2>2, DivisionIs
  <2> QED
    BY <2>3, <2>4 DEF r
<1>3. CASE r + 1 = W
  <2>1. r + 1 = W * 1 + 0 /\ 0 \in 0 .. (W - 1)
    BY <1>1, <1>3
  <2>2. n + 1 = W * (q + 1) + 0
    BY <1>1, <1>3
  <2>3. (r + 1) % W = 0
    BY <1>1, <2>1, DivisionIs
  <2>4. (n + 1) % W = 0
    BY <1>1, <2>1, <2>2, DivisionIs
  <2> QED
    BY <2>3, <2>4 DEF r
<1> QED
  BY <1>1, <1>2, <1>3

(* One more connection lengthens the share of one worker, and only its.    *)
LEMMA ShareGrows ==
  ASSUME NEW W \in Nat \ {0}, NEW n \in Nat, NEW w \in 0 .. (W - 1)
  PROVE  /\ (n + W - 1 - w) \div W \in Nat
         /\ (n + 1 + W - 1 - w) \div W
              = IF n % W = w THEN (n + W - 1 - w) \div W + 1
                             ELSE (n + W - 1 - w) \div W
         /\ n % W = w => n = W * ((n + W - 1 - w) \div W) + w
<1> DEFINE q == n \div W
           r == n % W
<1>1. n = W * q + r /\ r \in 0 .. (W - 1) /\ q \in Nat
  <2>1. q \in Nat
    BY QuotientOfNat
  <2>2. n = W * q + r /\ r \in 0 .. (W - 1)
    BY DivMod, DivModTypes
  <2> QED
    BY <2>1, <2>2
<1> HIDE DEF q, r
<1>2. W * (q + 1) = W * q + W
  BY <1>1
<1>3. CASE w < r
  <2>1. (n + W - 1 - w) \div W = q + 1
    <3>1. n + W - 1 - w = W * (q + 1) + (r - 1 - w) /\ r - 1 - w \in 0 .. (W - 1)
      BY <1>1, <1>2, <1>3
    <3> QED
      BY <1>1, <3>1, DivisionIs
  <2>2. (n + 1 + W - 1 - w) \div W = q + 1
    <3>1. n + 1 + W - 1 - w = W * (q + 1) + (r - w) /\ r - w \in 0 .. (W - 1)
      BY <1>1, <1>2, <1>3
    <3> QED
      BY <1>1, <3>1, DivisionIs
  <2> QED
    BY <1>1, <1>3, <2>1, <2>2 DEF r
<1>4. CASE w >= r
  <2>1. (n + W - 1 - w) \div W = q
    <3>1. n + W - 1 - w = W * q + (r + W - 1 - w) /\ r + W - 1 - w \in 0 .. (W - 1)
      BY <1>1, <1>4
    <3> QED
      BY <1>1, <3>1, DivisionIs
  <2>2. CASE w = r
    <3>1. (n + 1 + W - 1 - w) \div W = q + 1
      <4>1. n + 1 + W - 1 - w = W * (q + 1) + 0 /\ 0 \in 0 .. (W - 1)
        BY <1>1, <1>2, <2>2
      <4> QED
        BY <1>1, <4>1, DivisionIs
    <3> QED
      BY <1>1, <2>1, <2>2, <3>1 DEF r
  <2>3. CASE w > r
    <3>1. (n + 1 + W - 1 - w) \div W = q
      <4>1. n + 1 + W - 1 - w = W * q + (r + W - w) /\ r + W - w \in 0 .. (W - 1)
        BY <1>1, <2>3
      <4> QED
        BY <1>1, <4>1, DivisionIs
    <3> QED
      BY <1>1, <2>1, <2>3, <3>1 DEF r
  <2> QED
    BY <1>1, <1>4, <2>2, <2>3
<1> QED
  BY <1>1, <1>3, <1>4

(* The connections of a share are among those accepted.                    *)
LEMMA ShareIsAccepted ==
  ASSUME NEW W \in Nat \ {0}, NEW n \in Nat, NEW w \in 0 .. (W - 1),
         NEW i \in 1 .. ((n + W - 1 - w) \div W)
  PROVE  (i - 1) * W + w + 1 \in 1 .. n
<1> DEFINE x == n + W - 1 - w
           q == x \div W
           r == x % W
<1>1. x = W * q + r /\ r \in 0 .. (W - 1) /\ q \in Int
  <2>1. x \in Int
    OBVIOUS
  <2> HIDE DEF x
  <2> QED
    BY <2>1, DivMod, DivModTypes
<1>2. i \in Int /\ 1 <= i /\ i <= q
  BY <1>1
<1>3. (i - 1) * W >= 0 /\ (i - 1) * W \in Int
  BY <1>2
<1>4. (i - 1) * W + W + (q - i) * W = W * q
  BY <1>1, <1>2
<1>5. (q - i) * W >= 0 /\ (q - i) * W \in Int
  BY <1>1, <1>2
<1>6. W * q = n + W - 1 - w - r /\ W * q \in Int
  BY <1>1
<1> HIDE DEF q, r
<1> QED
  BY <1>1, <1>3, <1>4, <1>5, <1>6

(* The share of a worker, as a function of the accepted connections.       *)
ShareOf(a, w) ==
  [i \in 1 .. ((Len(a) + WorkerLen - 1 - w) \div WorkerLen) |->
     a[(i - 1) * WorkerLen + w + 1]]

LEMMA AppendIs ==
  ASSUME NEW S, NEW s \in Seq(S), NEW x \in S
  PROVE  Append(s, x) = [i \in 1 .. (Len(s) + 1) |->
                           IF i <= Len(s) THEN s[i] ELSE x]
<1> DEFINE t == Append(s, x)
           n == Len(s) + 1
<1>1. t \in Seq(S) /\ Len(t) = n /\ n \in Nat
  OBVIOUS
<1>2. \A i \in 1 .. n : t[i] = IF i <= Len(s) THEN s[i] ELSE x
  OBVIOUS
<1>3. t = [i \in 1 .. n |-> t[i]]
  <2> HIDE DEF t, n
  <2> QED
    BY <1>1
<1> QED
  BY <1>2, <1>3

LEMMA ShareOfAppend ==
  ASSUME NEW a \in Seq(Conns), NEW c \in Conns, NEW w \in Workers
  PROVE  /\ ShareOf(a, w) \in Seq(Conns)
         /\ ShareOf(Append(a, c), w)
              = IF Len(a) % WorkerLen = w THEN Append(ShareOf(a, w), c)
                                          ELSE ShareOf(a, w)
<1> DEFINE W == WorkerLen
           n == Len(a)
           b == Append(a, c)
           k == (n + W - 1 - w) \div W
           At(i) == (i - 1) * W + w + 1
<1>1. W \in Nat \ {0} /\ w \in 0 .. (W - 1) /\ n \in Nat
  BY DispatchAssumption DEF Workers
<1>2. Len(b) = n + 1 /\ b = [i \in 1 .. (n + 1) |-> IF i <= n THEN a[i] ELSE c]
  BY AppendToSeq, AppendIs
<1>3. k \in Nat
  BY <1>1, ShareGrows
<1>4. \A i \in 1 .. k : At(i) \in 1 .. n
  BY <1>1, ShareIsAccepted
<1>5. \A i \in 1 .. k : b[At(i)] = a[At(i)] /\ a[At(i)] \in Conns
  <2> SUFFICES ASSUME NEW j \in 1 .. n PROVE b[j] = a[j] /\ a[j] \in Conns
    BY <1>4
  <2> HIDE DEF b
  <2> QED
    BY <1>1, <1>2
<1>6. ShareOf(a, w) = [i \in 1 .. k |-> a[At(i)]]
  BY DEF ShareOf
<1>7. ShareOf(a, w) \in Seq(Conns) /\ Len(ShareOf(a, w)) = k
  <2> HIDE DEF k, At
  <2> QED
    BY <1>3, <1>5, <1>6
<1>8. CASE n % W = w
  <2>1. (n + 1 + W - 1 - w) \div W = k + 1 /\ n = W * k + w
    BY <1>1, <1>8, ShareGrows
  <2>2. ShareOf(b, w) = [i \in 1 .. (k + 1) |-> b[At(i)]]
    BY <1>2, <2>1 DEF ShareOf
  <2>3. At(k + 1) = n + 1
    <3> HIDE DEF k
    <3> QED
      BY <1>1, <1>3, <2>1
  <2>4. b[At(k + 1)] = c
    <3> HIDE DEF b
    <3> QED
      BY <1>1, <1>2, <2>3
  <2>5. Append(ShareOf(a, w), c)
          = [i \in 1 .. (k + 1) |-> IF i <= k THEN ShareOf(a, w)[i] ELSE c]
    BY <1>7, AppendIs
  <2>6. ASSUME NEW i \in 1 .. (k + 1)
        PROVE  b[At(i)] = IF i <= k THEN ShareOf(a, w)[i] ELSE c
    <3> HIDE DEF k, At, b
    <3>1. CASE i <= k
      <4>1. i \in 1 .. k
        BY <1>3, <3>1
      <4> QED
        BY <1>5, <1>6, <3>1, <4>1
    <3>2. CASE i = k + 1
      BY <1>3, <2>4, <3>2
    <3> QED
      BY <1>3, <3>1, <3>2
  <2> HIDE DEF k, At, b
  <2>7. ShareOf(b, w) = Append(ShareOf(a, w), c)
    BY <2>2, <2>5, <2>6
  <2> QED
    BY <1>7, <1>8, <2>7 DEF b
<1>9. CASE n % W # w
  <2>1. (n + 1 + W - 1 - w) \div W = k
    BY <1>1, <1>9, ShareGrows
  <2>2. ShareOf(b, w) = [i \in 1 .. k |-> b[At(i)]]
    BY <1>2, <2>1 DEF ShareOf
  <2> HIDE DEF k, At, b
  <2>3. ShareOf(b, w) = ShareOf(a, w)
    BY <1>5, <1>6, <2>2
  <2> QED
    BY <1>7, <1>9, <2>3 DEF b
<1> QED
  BY <1>8, <1>9

(* What the handover steps do to the sequences of a worker.                *)
LEMMA Joined == ASSUME NEW S, NEW s \in Seq(S), NEW q \in Seq(S) PROVE s \o q \in Seq(S)
OBVIOUS

LEMMA NothingJoined == ASSUME NEW S, NEW s \in Seq(S) PROVE s \o <<>> = s
OBVIOUS

LEMMA OneJoined ==
  ASSUME NEW S, NEW s \in Seq(S), NEW x \in S
  PROVE  s \o <<x>> = Append(s, x)
OBVIOUS

LEMMA JoinedAppend ==
  ASSUME NEW S, NEW s \in Seq(S), NEW q \in Seq(S), NEW x \in S
  PROVE  s \o Append(q, x) = Append(s \o q, x)
OBVIOUS

LEMMA HeadMoved ==
  ASSUME NEW S, NEW s \in Seq(S), NEW q \in Seq(S), q # <<>>
  PROVE  Append(s, Head(q)) \o Tail(q) = s \o q
OBVIOUS

(* Whose turn it is follows the number of accepted connections, and the    *)
(* last of them is what is being pushed.                                   *)
LEMMA NextInTurnStep == TypeOK /\ NextInTurn /\ [Next]_vars => NextInTurn'
<1> SUFFICES ASSUME TypeOK, NextInTurn, [Next]_vars PROVE NextInTurn'
  OBVIOUS
<1>1. ASSUME NEW c \in Conns, Accept(c) PROVE NextInTurn'
  <2>1. last_thread' = Len(accepted) % WorkerLen /\ accepted \in Seq(Conns)
    BY <1>1 DEF Accept, NextInTurn, TypeOK
  <2>2. Len(accepted') = Len(accepted) + 1 /\ Len(accepted) \in Nat
    BY <1>1, <2>1, AppendToSeq DEF Accept
  <2>3. (last_thread' + 1) % WorkerLen = Len(accepted') % WorkerLen
    BY <2>1, <2>2, DispatchAssumption, NextRemainder
  <2>4. accepted' # <<>> /\ dispatcher'.conn = accepted'[Len(accepted')]
    BY <1>1, <2>1 DEF Accept
  <2> QED
    BY <2>3, <2>4 DEF NextInTurn
<1>2. CASE /\ UNCHANGED <<accepted, last_thread>>
           /\ dispatcher' = dispatcher \/ dispatcher'.pc # "push"
  BY <1>2 DEF NextInTurn
<1>3. CASE Push
  BY <1>2, <1>3 DEF Push
<1>4. CASE Notify
  BY <1>2, <1>4 DEF Notify, IdleDispatcher
<1>5. CASE UNCHANGED <<accepted, last_thread, dispatcher>>
  BY <1>2, <1>5
<1> QED
  BY <1>1, <1>3, <1>4, <1>5
  DEF Next, Dispatcher, Worker, Connect, ReadNotify, PopConn, ReadConn, vars

(* What worker w has got so far, is about to pop, and is about to be given *)
(* stays its share of the accepted connections.                            *)
TakesItsShare ==
  \A w \in Workers : taken[w] \o queue[w] \o BeingPushed(w) = Share(w)

LEMMA ShareStep ==
  /\ TypeOK /\ TypeOK' /\ NotifiedAreQueued /\ NextInTurn
  /\ TakesItsShare /\ [Next]_vars
  => TakesItsShare'
<1> DEFINE Got(w) == taken[w] \o queue[w]
           S == Conns
<1> SUFFICES ASSUME TypeOK, TypeOK', NotifiedAreQueued, NextInTurn,
                    TakesItsShare, [Next]_vars, NEW v \in Workers
             PROVE  Got(v)' \o BeingPushed(v)' = Share(v)'
  BY DEF TakesItsShare
<1>0. /\ taken[v] \in Seq(S) /\ queue[v] \in Seq(S) /\ Got(v) \in Seq(S)
      /\ accepted \in Seq(Conns)
      /\ Got(v) \o BeingPushed(v) = Share(v)
      /\ Share(v) = ShareOf(accepted, v)
      /\ Share(v)' = ShareOf(accepted', v)
  <2>1. taken[v] \in Seq(S) /\ queue[v] \in Seq(S) /\ accepted \in Seq(Conns)
    BY DEF TypeOK
  <2>2. Got(v) \in Seq(S)
    BY <2>1, Joined
  <2> QED
    BY <2>1, <2>2 DEF TakesItsShare, Share, ShareOf
<1>1. ASSUME NEW c \in Conns, Accept(c)
      PROVE  Got(v)' \o BeingPushed(v)' = Share(v)'
  <2>1. /\ accepted' = Append(accepted, c)
        /\ last_thread' = Len(accepted) % WorkerLen
        /\ dispatcher.pc = "accept" /\ dispatcher' = [pc |-> "push", conn |-> c]
        /\ Got(v)' = Got(v)
    BY <1>1 DEF Accept, NextInTurn
  <2>2. Got(v) = Share(v)
    <3>1. BeingPushed(v) = <<>>
      BY <2>1 DEF BeingPushed
    <3> QED
      <4> HIDE DEF Got, S
      <4> QED
        BY <1>0, <3>1, NothingJoined
  <2>3. CASE Len(accepted) % WorkerLen = v
    <3>1. BeingPushed(v)' = <<c>>
      BY <2>1, <2>3 DEF BeingPushed
    <3>2. Share(v)' = Append(Share(v), c)
      <4>1. accepted \in Seq(Conns)
        BY <1>0
      <4>2. ShareOf(Append(accepted, c), v) = Append(ShareOf(accepted, v), c)
        BY <2>3, <4>1, ShareOfAppend
      <4> QED
        BY <1>0, <2>1, <4>2, Zenon
    <3>3. Got(v) \o <<c>> = Append(Got(v), c)
      <4> HIDE DEF Got
      <4>1. c \in S
        OBVIOUS
      <4> HIDE DEF S
      <4> QED
        BY <1>0, <4>1, OneJoined
    <3> HIDE DEF Got
    <3> QED
      BY <2>1, <2>2, <3>1, <3>2, <3>3
  <2>4. CASE Len(accepted) % WorkerLen # v
    <3>1. BeingPushed(v)' = <<>>
      BY <2>1, <2>4 DEF BeingPushed
    <3>2. Share(v)' = Share(v)
      BY <1>0, <2>1, <2>4, ShareOfAppend
    <3>3. Got(v) \o <<>> = Got(v)
      <4> HIDE DEF Got, S
      <4> QED
        BY <1>0, NothingJoined
    <3> HIDE DEF Got
    <3> QED
      BY <2>1, <2>2, <3>1, <3>2, <3>3
  <2> QED
    BY <2>3, <2>4
<1>2. CASE Push
  <2> DEFINE c == dispatcher.conn
  <2>1. c \in S /\ last_thread \in Workers /\ Share(v)' = Share(v)
    <3>1. dispatcher.conn \in Conns /\ last_thread \in Workers
      BY <1>2 DEF Push, TypeOK
    <3> QED
      BY <1>0, <1>2, <3>1 DEF Push
  <2>2. BeingPushed(v)' = <<>>
    BY <1>2 DEF Push, BeingPushed
  <2>3. CASE last_thread = v
    <3>1. taken'[v] = taken[v] /\ queue'[v] = Append(queue[v], c)
      BY <1>2, <2>3 DEF Push, TypeOK
    <3>2. BeingPushed(v) = <<c>>
      BY <1>2, <2>3 DEF Push, BeingPushed
    <3> HIDE DEF c, S
    <3>3. Got(v)' = Append(Got(v), c)
      <4>1. taken[v] \o Append(queue[v], c) = Append(taken[v] \o queue[v], c)
        <5>1. taken[v] \in Seq(S) /\ queue[v] \in Seq(S) /\ c \in S
          BY <1>0, <2>1
        <5>2. \A s, q \in Seq(S), x \in S : s \o Append(q, x) = Append(s \o q, x)
          BY JoinedAppend
        <5> QED
          BY <5>1, <5>2, Zenon
      <4> QED
        BY <3>1, <4>1
    <3>4. Got(v) \o <<c>> = Append(Got(v), c) /\ Append(Got(v), c) \in Seq(S)
      <4> HIDE DEF Got
      <4> QED
        BY <1>0, <2>1, OneJoined, AppendToSeq
    <3> HIDE DEF Got
    <3>5. Append(Got(v), c) \o <<>> = Append(Got(v), c)
      BY <2>1, <3>4, NothingJoined
    <3> QED
      BY <1>0, <2>1, <2>2, <3>2, <3>3, <3>4, <3>5
  <2>4. CASE last_thread # v
    <3>1. taken'[v] = taken[v] /\ queue'[v] = queue[v]
      BY <1>2, <2>4 DEF Push, TypeOK
    <3>2. BeingPushed(v) = <<>>
      BY <2>4 DEF BeingPushed
    <3>3. Got(v)' = Got(v)
      BY <3>1
    <3> HIDE DEF Got
    <3> QED
      BY <1>0, <2>1, <2>2, <3>2, <3>3
  <2> QED
    BY <2>3, <2>4
<1>3. CASE Notify
  <2>1. /\ Got(v)' = Got(v) /\ Share(v)' = Share(v)
        /\ BeingPushed(v) = <<>> /\ BeingPushed(v)' = <<>>
    BY <1>0, <1>3 DEF Notify, BeingPushed, IdleDispatcher
  <2> HIDE DEF Got
  <2> QED
    BY <1>0, <2>1
<1>4. ASSUME NEW w \in Workers, PopConn(w)
      PROVE  Got(v)' \o BeingPushed(v)' = Share(v)'
  <2>0. queue[w] # <<>>
    BY <1>4, PopsOnlyQueued DEF PopConn, PopFindsConnection
  <2>1. Share(v)' = Share(v) /\ BeingPushed(v)' = BeingPushed(v)
    BY <1>0, <1>4, <2>0, PopsOne DEF BeingPushed
  <2>2. taken \in [Workers -> Seq(S)] /\ queue \in [Workers -> Seq(S)]
    BY DEF TypeOK
  <2>3. CASE w = v
    <3>1. /\ taken'[v] = Append(taken[v], Head(queue[v]))
          /\ queue'[v] = Tail(queue[v])
      BY <1>4, <2>0, <2>2, <2>3, PopsOne
    <3> HIDE DEF S
    <3>2. Append(taken[v], Head(queue[v])) \o Tail(queue[v]) = taken[v] \o queue[v]
      BY <1>0, <2>0, <2>3, HeadMoved
    <3>3. Got(v)' = Got(v)
      BY <3>1, <3>2
    <3> HIDE DEF Got
    <3> QED
      BY <1>0, <2>1, <3>3
  <2>4. CASE w # v
    <3>1. taken'[v] = taken[v] /\ queue'[v] = queue[v]
      BY <1>4, <2>0, <2>2, <2>4, PopsOne
    <3>2. Got(v)' = Got(v)
      BY <3>1
    <3> HIDE DEF Got
    <3> QED
      BY <1>0, <2>1, <3>2
  <2> QED
    BY <2>3, <2>4
<1>5. CASE UNCHANGED <<accepted, last_thread, dispatcher, queue, taken>>
  <2>1. /\ Got(v)' = Got(v) /\ Share(v)' = Share(v)
        /\ BeingPushed(v)' = BeingPushed(v)
    BY <1>0, <1>5 DEF BeingPushed
  <2> HIDE DEF Got
  <2> QED
    BY <1>0, <2>1
<1> QED
  BY <1>1, <1>2, <1>3, <1>4, <1>5
  DEF Next, Dispatcher, Worker, Connect, ReadNotify, ReadConn, vars

(* What worker w has unlinked is registered or being read, and what it     *)
(* registers is what it unlinked or was pushed later.                      *)
Reads(w) ==
  /\ Len(since[w]) = Len(taken[w])
  /\ \A i \in DOMAIN since[w] : since[w][i] <= Pushed
  /\ Len(taken[w]) = Len(served[w]) + (IF worker[w].pc = "read" THEN 1 ELSE 0)
  /\ worker[w].pc = "read" => MayRegister(w, Len(taken[w]), worker[w].item)
  /\ \A i \in DOMAIN served[w] :
       i \in DOMAIN taken[w] /\ MayRegister(w, i, served[w][i])

LEMMA ReadsIs ==
  WorkerGetsItsShare /\ ItemsAreRead <=> TakesItsShare /\ \A w \in Workers : Reads(w)
BY DEF WorkerGetsItsShare, ItemsAreRead, TakesItsShare, Reads

(* What a worker may register it may register later on.                    *)
LEMMA MayStay ==
  ASSUME NEW w, NEW i, NEW c, MayRegister(w, i, c), accepted \in Seq(Conns),
         taken'[w][i] = taken[w][i], since'[w][i] = since[w][i],
         accepted' = accepted \/ \E d \in Conns : accepted' = Append(accepted, d)
  PROVE  MayRegister(w, i, c)'
<1>1. ASSUME NEW k \in DOMAIN accepted
      PROVE  k \in DOMAIN accepted' /\ accepted'[k] = accepted[k]
  <2>1. CASE accepted' = accepted
    BY <2>1
  <2>2. ASSUME NEW d \in Conns, accepted' = Append(accepted, d)
        PROVE  k \in DOMAIN accepted' /\ accepted'[k] = accepted[k]
    BY <2>2
  <2> QED
    BY <2>1, <2>2
<1>2. CASE c = taken[w][i]
  BY <1>2 DEF MayRegister
<1>3. ASSUME NEW k \in DOMAIN accepted, k > since[w][i], accepted[k] = c
      PROVE  MayRegister(w, i, c)'
  BY <1>1, <1>3 DEF MayRegister
<1> QED
  BY <1>2, <1>3 DEF MayRegister

(* A step that leaves what the worker has unlinked and registered, and     *)
(* refills the item it is about to read with the last accepted, if at all. *)
LEMMA ReadsStay ==
  ASSUME TypeOK, TypeOK', NEW w \in Workers, Reads(w),
         taken'[w] = taken[w], since'[w] = since[w], served'[w] = served[w],
         accepted' = accepted \/ \E d \in Conns : accepted' = Append(accepted, d),
         Pushed <= Pushed',
         worker'[w].pc = "read" <=> worker[w].pc = "read",
         \/ worker'[w].pc # "read"
         \/ worker'[w].item = worker[w].item
         \/ MayRegister(w, Len(taken[w]), worker[w].item)'
  PROVE  Reads(w)'
<1>1. /\ since[w] \in Seq(Int) /\ accepted \in Seq(Conns) /\ accepted' \in Seq(Conns)
      /\ taken[w] \in Seq(Conns)
  BY DEF TypeOK
<1>2. Pushed \in Int /\ Pushed' \in Int
  BY <1>1 DEF Pushed
<1>3. \A i \in DOMAIN since'[w] : since'[w][i] <= Pushed'
  <2> SUFFICES ASSUME NEW i \in DOMAIN since[w] PROVE since[w][i] <= Pushed'
    OBVIOUS
  <2>1. since[w][i] \in Int /\ since[w][i] <= Pushed
    BY <1>1 DEF Reads
  <2> QED
    BY <1>2, <2>1
<1>4. \A i, c : MayRegister(w, i, c) => MayRegister(w, i, c)'
  BY <1>1, MayStay
<1>5. (worker[w].pc = "read" => MayRegister(w, Len(taken[w]), worker[w].item))'
  <2> SUFFICES ASSUME worker'[w].pc = "read"
               PROVE  MayRegister(w, Len(taken[w]), worker[w].item)'
    OBVIOUS
  <2>1. CASE worker'[w].item = worker[w].item
    <3>1. PICK n, c : n = Len(taken[w]) /\ c = worker[w].item
      OBVIOUS
    <3>2. MayRegister(w, n, c)
      BY <3>1 DEF Reads
    <3>3. MayRegister(w, n, c)'
      BY <3>2, <1>4
    <3>4. n = Len(taken'[w]) /\ c = worker'[w].item
      BY <2>1, <3>1
    <3> QED
      BY <3>3, <3>4
  <2> QED
    BY <2>1
<1>6. (\A i \in DOMAIN served[w] :
        i \in DOMAIN taken[w] /\ MayRegister(w, i, served[w][i]))'
  <2> SUFFICES ASSUME NEW i \in DOMAIN served[w]
               PROVE  i \in DOMAIN taken'[w] /\ MayRegister(w, i, served[w][i])'
    OBVIOUS
  <2>1. PICK c : c = served[w][i] /\ c = served'[w][i]
    OBVIOUS
  <2>2. i \in DOMAIN taken[w] /\ MayRegister(w, i, c)
    BY <2>1 DEF Reads
  <2>3. MayRegister(w, i, c)'
    BY <2>2, <1>4
  <2> QED
    BY <2>1, <2>2, <2>3
<1>7. Len(since'[w]) = Len(taken'[w])
  BY DEF Reads
<1>8. Len(taken'[w]) = Len(served'[w]) + (IF worker'[w].pc = "read" THEN 1 ELSE 0)
  BY DEF Reads
<1> QED
  BY <1>3, <1>5, <1>6, <1>7, <1>8 DEF Reads

(* What is pushed now is pushed after whatever was unlinked.               *)
LEMMA LastPushed ==
  ASSUME TypeOK, NextInTurn, NEW w \in Workers, Reads(w), dispatcher.pc = "push",
         worker[w].pc = "read"
  PROVE  MayRegister(w, Len(taken[w]), dispatcher.conn)
<1>1. /\ accepted \in Seq(Conns) /\ since[w] \in Seq(Int) /\ taken[w] \in Seq(Conns)
      /\ accepted # <<>> /\ dispatcher.conn = accepted[Len(accepted)]
  BY DEF TypeOK, NextInTurn
<1>2. Len(taken[w]) = Len(since[w]) /\ Len(taken[w]) >= 1
  <2>1. served[w] \in Seq(Conns \cup {NoConn})
    BY DEF TypeOK
  <2> QED
    BY <1>1, <2>1 DEF Reads
<1>3. since[w][Len(taken[w])] <= Pushed /\ since[w][Len(taken[w])] \in Int
  BY <1>1, <1>2 DEF Reads
<1>4. Len(accepted) \in DOMAIN accepted /\ Len(accepted) > Pushed /\ Pushed \in Int
  BY <1>1 DEF Pushed
<1>5. Len(accepted) > since[w][Len(taken[w])]
  BY <1>1, <1>3, <1>4
<1> QED
  BY <1>1, <1>4, <1>5 DEF MayRegister

LEMMA PopReads ==
  ASSUME TypeOK, TypeOK', NEW w \in Workers, Reads(w), PopConn(w), queue[w] # <<>>
  PROVE  Reads(w)'
<1>1. /\ accepted \in Seq(Conns) /\ since[w] \in Seq(Int) /\ taken[w] \in Seq(Conns)
      /\ served[w] \in Seq(Conns \cup {NoConn})
      /\ taken \in [Workers -> Seq(Conns)] /\ since \in [Workers -> Seq(Int)]
      /\ worker \in [Workers -> [pc : {"poll", "pop", "read"}, n : Nat,
                                 item : Conns \cup {NoConn}]]
  BY DEF TypeOK
<1>2. Head(queue[w]) \in Conns
  BY TailOfSeq DEF TypeOK
<1>3. /\ Pushed' = Pushed /\ Pushed \in Int /\ served' = served /\ accepted' = accepted
      /\ worker[w].pc = "pop"
  <2>1. /\ served' = served /\ accepted' = accepted /\ dispatcher' = dispatcher
        /\ worker[w].pc = "pop"
    BY PopsOne
  <2> QED
    BY <1>1, <2>1 DEF Pushed
<1> DEFINE n == Len(taken[w]) + 1
           h == Head(queue[w])
<1>4. /\ taken'[w] = Append(taken[w], h) /\ since'[w] = Append(since[w], Pushed)
      /\ worker'[w] = [worker[w] EXCEPT !.pc = "read", !.item = h]
  BY <1>1, PopsOne
<1>5. worker'[w].pc = "read" /\ worker'[w].item = h
  <2>1. worker[w] \in [pc : {"poll", "pop", "read"}, n : Nat, item : Conns \cup {NoConn}]
    BY <1>1
  <2> QED
    BY <1>4, <2>1
<1> HIDE DEF h
<1>6. Len(taken[w]) = Len(served[w]) /\ Len(since[w]) = Len(taken[w])
  BY <1>1, <1>3 DEF Reads
<1>7. /\ Len(taken'[w]) = n /\ Len(since'[w]) = n /\ taken'[w][n] = h
      /\ \A i \in DOMAIN taken[w] :
           i \in DOMAIN taken'[w] /\ taken'[w][i] = taken[w][i] /\ since'[w][i] = since[w][i]
  BY <1>1, <1>2, <1>3, <1>4, <1>6 DEF h
<1>8. (\A i \in DOMAIN since[w] : since[w][i] <= Pushed)'
  <2> SUFFICES ASSUME NEW i \in DOMAIN since'[w] PROVE since'[w][i] <= Pushed
    BY <1>3
  <2>1. CASE i \in DOMAIN since[w]
    BY <1>1, <1>3, <1>4, <2>1 DEF Reads
  <2>2. CASE i \notin DOMAIN since[w]
    BY <1>1, <1>3, <1>4, <2>2
  <2> QED
    BY <2>1, <2>2
<1>9. MayRegister(w, Len(taken[w]), worker[w].item)'
  BY <1>5, <1>7 DEF MayRegister
<1>10. (\A i \in DOMAIN served[w] :
         i \in DOMAIN taken[w] /\ MayRegister(w, i, served[w][i]))'
  <2> SUFFICES ASSUME NEW i \in DOMAIN served[w]
               PROVE  i \in DOMAIN taken'[w] /\ MayRegister(w, i, served[w][i])'
    BY <1>3
  <2>1. PICK c : c = served[w][i] /\ c = served'[w][i]
    BY <1>3
  <2>2. i \in DOMAIN taken[w] /\ MayRegister(w, i, c)
    BY <2>1 DEF Reads
  <2>3. MayRegister(w, i, c)'
    BY <2>2, <1>1, <1>3, <1>7, MayStay
  <2> QED
    BY <2>1, <2>2, <2>3, <1>7
<1>11. Len(taken'[w]) = Len(served'[w]) + (IF worker'[w].pc = "read" THEN 1 ELSE 0)
  BY <1>3, <1>5, <1>6, <1>7
<1> QED
  BY <1>7, <1>8, <1>9, <1>10, <1>11 DEF Reads

LEMMA ReadReads ==
  ASSUME TypeOK, TypeOK', NEW w \in Workers, Reads(w), ReadConn(w)
  PROVE  Reads(w)'
<1>1. /\ accepted \in Seq(Conns) /\ since[w] \in Seq(Int) /\ taken[w] \in Seq(Conns)
      /\ served[w] \in Seq(Conns \cup {NoConn})
      /\ served \in [Workers -> Seq(Conns \cup {NoConn})]
      /\ worker[w].item \in Conns \cup {NoConn}
  BY DEF TypeOK
<1>2. /\ worker[w].pc = "read" /\ worker'[w].pc = "poll"
      /\ served'[w] = Append(served[w], worker[w].item)
      /\ taken' = taken /\ since' = since /\ accepted' = accepted /\ Pushed' = Pushed
  BY <1>1 DEF ReadConn, IdleWorker, Pushed, TypeOK
<1>3. Len(taken[w]) = Len(served[w]) + 1 /\ Len(since[w]) = Len(taken[w])
  BY <1>2 DEF Reads
<1>4. \A i, c : MayRegister(w, i, c) => MayRegister(w, i, c)'
  BY <1>1, <1>2, MayStay
<1>5. (\A i \in DOMAIN served[w] :
        i \in DOMAIN taken[w] /\ MayRegister(w, i, served[w][i]))'
  <2> SUFFICES ASSUME NEW i \in DOMAIN served'[w]
               PROVE  i \in DOMAIN taken[w] /\ MayRegister(w, i, served[w][i])'
    BY <1>2
  <2>1. PICK c : c = served'[w][i]
    OBVIOUS
  <2>2. CASE i \in DOMAIN served[w]
    <3>1. c = served[w][i]
      BY <1>1, <1>2, <2>1, <2>2
    <3>2. i \in DOMAIN taken[w] /\ MayRegister(w, i, c)
      BY <3>1, <2>2 DEF Reads
    <3>3. MayRegister(w, i, c)'
      BY <3>2, <1>4
    <3> QED
      BY <2>1, <3>2, <3>3
  <2>3. CASE i \notin DOMAIN served[w]
    <3>1. i = Len(taken[w]) /\ c = worker[w].item
      BY <1>1, <1>2, <1>3, <2>1, <2>3
    <3>2. MayRegister(w, i, c)
      BY <1>2, <3>1 DEF Reads
    <3>3. MayRegister(w, i, c)'
      BY <3>2, <1>4
    <3>4. i \in DOMAIN taken[w]
      BY <1>1, <1>3, <3>1
    <3> QED
      BY <2>1, <3>3, <3>4
  <2> QED
    BY <2>2, <2>3
<1>6. Len(taken[w]) = Len(served'[w])
  BY <1>1, <1>2, <1>3
<1>7. (\A i \in DOMAIN since[w] : since[w][i] <= Pushed)'
  BY <1>2 DEF Reads
<1> QED
  BY <1>2, <1>3, <1>5, <1>6, <1>7 DEF Reads

LEMMA ReadStep ==
  ASSUME TypeOK, TypeOK', NotifiedAreQueued, NextInTurn, [Next]_vars,
         NEW v \in Workers, Reads(v)
  PROVE  Reads(v)'
<1>1. accepted \in Seq(Conns) /\ Len(accepted) \in Nat
  BY DEF TypeOK
<1>2. ASSUME /\ UNCHANGED <<taken, since, served, worker>>
             /\ accepted' = accepted \/ \E d \in Conns : accepted' = Append(accepted, d)
             /\ Pushed <= Pushed'
      PROVE  Reads(v)'
  BY <1>2, ReadsStay
<1>3. Pushed \in Int
  BY <1>1 DEF Pushed
<1>4. ASSUME NEW c \in Conns, Connect(c) PROVE Reads(v)'
  BY <1>2, <1>3, <1>4 DEF Connect, Pushed
<1>5. ASSUME NEW c \in Conns, Accept(c) PROVE Reads(v)'
  <2>1. Pushed' = Pushed /\ accepted' = Append(accepted, c)
    BY <1>1, <1>5 DEF Accept, Pushed
  <2> QED
    BY <1>2, <1>3, <1>5, <2>1 DEF Accept
<1>6. CASE Push
  <2>1. /\ taken' = taken /\ since' = since /\ served' = served /\ accepted' = accepted
        /\ dispatcher.pc = "push" /\ dispatcher'.pc = "notify" /\ FillsAnItem
    BY <1>6 DEF Push
  <2>2. Pushed <= Pushed'
    BY <1>1, <2>1 DEF Pushed
  <2>3. /\ worker'[v].pc = worker[v].pc
        /\ worker'[v].item = worker[v].item \/ worker'[v].item = dispatcher.conn
    BY <2>1, Filled DEF TypeOK
  <2>4. CASE worker'[v].pc # "read" \/ worker'[v].item = worker[v].item
    BY <2>1, <2>2, <2>3, <2>4, ReadsStay
  <2>5. CASE worker'[v].pc = "read" /\ worker'[v].item = dispatcher.conn
    <3>1. PICK n, c : n = Len(taken[v]) /\ c = dispatcher.conn
      OBVIOUS
    <3>2. MayRegister(v, n, c)
      BY <2>1, <2>3, <2>5, <3>1, LastPushed
    <3>3. MayRegister(v, n, c)'
      BY <1>1, <2>1, <3>2, MayStay
    <3>4. n = Len(taken'[v]) /\ c = worker'[v].item
      BY <2>1, <2>5, <3>1
    <3>5. MayRegister(v, Len(taken[v]), worker[v].item)'
      BY <3>3, <3>4
    <3> QED
      BY <2>1, <2>2, <2>3, <3>5, ReadsStay
  <2> QED
    BY <2>3, <2>4, <2>5
<1>7. CASE Notify
  BY <1>1, <1>2, <1>3, <1>7 DEF Notify, IdleDispatcher, Pushed
<1>8. ASSUME NEW w \in Workers, ReadNotify(w) PROVE Reads(v)'
  <2>1. /\ taken' = taken /\ since' = since /\ served' = served /\ accepted' = accepted
        /\ Pushed' = Pushed
    BY <1>8 DEF ReadNotify, Pushed
  <2>2. worker'[v] = worker[v] \/ (worker[v].pc # "read" /\ worker'[v].pc # "read")
    BY <1>8 DEF ReadNotify, TypeOK
  <2> QED
    BY <1>3, <2>1, <2>2, ReadsStay
<1>9. ASSUME NEW w \in Workers, PopConn(w) PROVE Reads(v)'
  <2>1. queue[w] # <<>>
    BY <1>9, PopsOnlyQueued DEF PopConn, PopFindsConnection
  <2>2. CASE w = v
    BY <1>9, <2>1, <2>2, PopReads
  <2>3. CASE w # v
    <3>1. /\ accepted' = accepted /\ dispatcher' = dispatcher /\ served' = served
          /\ taken'[v] = taken[v] /\ since'[v] = since[v] /\ worker'[v] = worker[v]
      <4>1. /\ taken \in [Workers -> Seq(Conns)] /\ since \in [Workers -> Seq(Int)]
            /\ worker \in [Workers -> [pc : {"poll", "pop", "read"}, n : Nat,
                                       item : Conns \cup {NoConn}]]
        BY DEF TypeOK
      <4> QED
        BY <1>9, <2>1, <2>3, <4>1, PopsOne
    <3>2. Pushed' = Pushed
      BY <3>1 DEF Pushed
    <3> QED
      BY <1>3, <3>1, <3>2, ReadsStay
  <2> QED
    BY <2>2, <2>3
<1>10. ASSUME NEW w \in Workers, ReadConn(w) PROVE Reads(v)'
  <2>1. CASE w = v
    BY <1>10, <2>1, ReadReads
  <2>2. CASE w # v
    <3>1. /\ accepted' = accepted /\ taken' = taken /\ since' = since /\ Pushed' = Pushed
          /\ served'[v] = served[v] /\ worker'[v] = worker[v]
      BY <1>10, <2>2 DEF ReadConn, TypeOK, Pushed
    <3> QED
      BY <1>3, <3>1, ReadsStay
  <2> QED
    BY <2>1, <2>2
<1>11. CASE UNCHANGED vars
  BY <1>2, <1>3, <1>11 DEF vars, Pushed
<1> QED
  BY <1>4, <1>5, <1>6, <1>7, <1>8, <1>9, <1>10, <1>11 DEF Next, Dispatcher, Worker

(* Every reachable state satisfies the inductive invariant IInv.           *)
THEOREM IInvHolds == Spec => []IInv
<1> DEFINE J == NextInTurn /\ WorkerGetsItsShare /\ ItemsAreRead
<1>1. Init => J
  <2> SUFFICES ASSUME Init PROVE J
    OBVIOUS
  <2>1. NextInTurn
    BY DispatchAssumption DEF Init, NextInTurn, IdleDispatcher
  <2>2. ASSUME NEW w \in Workers
        PROVE  taken[w] \o queue[w] \o BeingPushed(w) = Share(w)
    <3>1. Share(w) = [i \in 1 .. ((WorkerLen - 1 - w) \div WorkerLen) |->
                        accepted[(i - 1) * WorkerLen + w + 1]]
      BY DispatchAssumption DEF Init, Share, Workers
    <3>2. (WorkerLen - 1 - w) \div WorkerLen = 0
      <4>1. /\ WorkerLen \in Nat \ {0} /\ WorkerLen - 1 - w \in 0 .. (WorkerLen - 1)
            /\ WorkerLen - 1 - w = WorkerLen * 0 + (WorkerLen - 1 - w)
        BY DispatchAssumption DEF Workers
      <4> QED
        BY <4>1, DivisionIs
    <3>3. Share(w) = <<>>
      BY <3>1, <3>2
    <3>4. taken[w] = <<>> /\ queue[w] = <<>> /\ BeingPushed(w) = <<>>
      BY DEF Init, BeingPushed, IdleDispatcher
    <3> QED
      BY <3>3, <3>4
  <2>3. ASSUME NEW w \in Workers PROVE Reads(w)
    BY DEF Init, Reads, IdleWorker
  <2> QED
    BY <2>1, <2>2, <2>3, ReadsIs DEF TakesItsShare
<1>2. TypeOK /\ TypeOK' /\ NotifiedAreQueued /\ J /\ [Next]_vars => J'
  <2> SUFFICES ASSUME TypeOK, TypeOK', NotifiedAreQueued, J, [Next]_vars PROVE J'
    OBVIOUS
  <2>1. TakesItsShare /\ \A w \in Workers : Reads(w)
    BY ReadsIs
  <2>2. NextInTurn' /\ TakesItsShare'
    BY <2>1, NextInTurnStep, ShareStep
  <2>3. ASSUME NEW w \in Workers PROVE Reads(w)'
    BY <2>1, ReadStep
  <2>4. (TakesItsShare /\ \A w \in Workers : Reads(w))'
    BY <2>2, <2>3
  <2>5. (WorkerGetsItsShare /\ ItemsAreRead)'
    BY <2>4 DEF WorkerGetsItsShare, ItemsAreRead, TakesItsShare, Reads
  <2> QED
    BY <2>2, <2>5
<1>3. TypeOK /\ NotifiedAreQueued /\ J => IInv
  BY DEF IInv
<1> QED
  BY <1>1, <1>2, <1>3, TypeCorrect, OwedConnectionsAreQueued, PTL DEF Spec

(* The connections are dealt out in turn, and every worker unlinks those   *)
(* of its share once and in the order they were accepted; it registers     *)
(* each of them, or one pushed between the unlinking and the reading       *)
(* (WorkerGetsItsShare), for any number of workers and connections.        *)
THEOREM SharesAreKept == Spec => []WorkerGetsItsShare
<1>1. IInv => WorkerGetsItsShare
  BY DEF IInv
<1> QED
  BY <1>1, IInvHolds, PTL
=============================================================================
