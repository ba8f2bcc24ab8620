--------------------------- MODULE ConnPoolProofs ---------------------------
(***************************************************************************)
(* That connections have one owner, that the free list hands out a         *)
(* connection in use only in the ways named, and when a message goes to a  *)
(* stranger, for any number of workers, sockets, descriptors and           *)
(* structures and any size of the free list.                               *)
(*                                                                         *)
(* The invariant has layers.  Core and LivePeersAreConnected hold whatever *)
(* happens; Owned (one use of a descriptor, a sender is the thread of its  *)
(* connection) and Reached (a worker's descriptor leads to its peer) need  *)
(* that no write failed; Listed (what is on the free list is free)         *)
(* needs also that the list never held three.  Each layer is preserved     *)
(* with the help of those before it.                                       *)
(***************************************************************************)
EXTENDS ConnPool, FiniteSetTheorems, TLAPS

(* How many entries an array has. *)
LEMMA Interval == ASSUME NEW n \in Nat PROVE Cardinality(0 .. (n - 1)) = n
<1>1. CASE n = 0
  BY <1>1, FS_EmptySet
<1>2. CASE n # 0
  <2>1. 0 \in Int /\ n - 1 \in Int /\ 0 <= n - 1
    BY <1>2
  <2>2. Cardinality(0 .. (n - 1)) = (n - 1) - 0 + 1
    BY <2>1, FS_Interval
  <2> QED
    BY <2>2
<1> QED
  BY <1>1, <1>2

(* What a push leaves in the free list.                                    *)
LEMMA PushResult ==
  ASSUME TypeOK, NEW c \in Conns, Push(c)
  PROVE  /\ FreeTotalNow' \in Nat \ {0} /\ freecurr' \in 0 .. FreeTotalNow'
         /\ data' \in [0 .. (FreeTotalNow' - 1) -> Conns \cup {NULL, Wild}]
         /\ freecurr' \in {freecurr, freecurr + 1} /\ popped' = FALSE
         /\ \A i \in 0 .. (freecurr - 1) : i \in DOMAIN data /\ data'[i] = data[i]
         /\ freecurr' = freecurr + 1 => data'[freecurr] = c
         /\ \A i \in DOMAIN data' : data'[i] \in Conns =>
              \/ i = freecurr /\ freecurr' = freecurr + 1 /\ data'[i] = c
              \/ i \in DOMAIN data /\ data'[i] = data[i]
         /\ freecurr' <= 1 =>
              \A i \in DOMAIN data' : i >= 1 => i \in DOMAIN data /\ data'[i] = data[i]
<1> DEFINE n == FreeTotalNow
           V == Conns \cup {NULL, Wild}
<1>1. /\ n \in Nat \ {0} /\ freecurr \in 0 .. n /\ data \in [0 .. (n - 1) -> V]
      /\ FreeTotalNow' = Cardinality(DOMAIN data')
      /\ NULL \notin Conns /\ Wild \notin Conns
  BY ConnAssumption DEF TypeOK, FreeTotalNow
<1>2. CASE freecurr < n /\ data' = [data EXCEPT ![freecurr] = c] /\ freecurr' = freecurr + 1
  <2>1. FreeTotalNow' = n
    BY <1>1, <1>2 DEF FreeTotalNow
  <2> HIDE DEF n
  <2> QED
    BY <1>1, <1>2, <2>1 DEF Push
<1>3. ASSUME freecurr = n, freecurr' = freecurr + 1, NEW junk \in {NULL, Wild},
             data' = [i \in 0 .. (2 * n - 1) |->
               IF i < freecurr THEN data[i] ELSE IF i = freecurr THEN c ELSE junk]
      PROVE  /\ FreeTotalNow' = 2 * n
             /\ data' \in [0 .. (FreeTotalNow' - 1) -> V]
             /\ \A i \in 0 .. (freecurr - 1) : i \in DOMAIN data /\ data'[i] = data[i]
             /\ data'[freecurr] = c
             /\ \A i \in DOMAIN data' : data'[i] \in Conns =>
                  \/ i = freecurr /\ data'[i] = c
                  \/ i \in DOMAIN data /\ data'[i] = data[i]
  <2>1. DOMAIN data' = 0 .. (2 * n - 1) /\ 2 * n \in Nat
    BY <1>1, <1>3
  <2>2. FreeTotalNow' = 2 * n
    BY <1>1, <2>1, Interval
  <2> HIDE DEF n
  <2>3. data' \in [0 .. (2 * n - 1) -> V]
    BY <1>1, <1>3
  <2>4. \A i \in 0 .. (freecurr - 1) : i \in DOMAIN data /\ data'[i] = data[i]
    BY <1>1, <1>3
  <2>5. data'[freecurr] = c
    BY <1>1, <1>3
  <2>6. ASSUME NEW i \in DOMAIN data', data'[i] \in Conns
        PROVE  \/ i = freecurr /\ data'[i] = c
               \/ i \in DOMAIN data /\ data'[i] = data[i]
    BY <1>1, <1>3, <2>1, <2>6
  <2> QED
    BY <2>2, <2>3, <2>4, <2>5, <2>6
<1>4. CASE UNCHANGED <<data, freecurr>>
  BY <1>1, <1>4 DEF Push, FreeTotalNow
<1>5. CASE freecurr = n /\ freecurr' = freecurr + 1 /\ \E junk \in {NULL, Wild} :
             data' = [i \in 0 .. (2 * n - 1) |->
               IF i < freecurr THEN data[i] ELSE IF i = freecurr THEN c ELSE junk]
  <2>1. freecurr' >= 2 /\ freecurr' \in 0 .. (2 * n) /\ 2 * n \in Nat \ {0}
    BY <1>1, <1>5
  <2> HIDE DEF n, V
  <2>2. /\ FreeTotalNow' = 2 * n
        /\ data' \in [0 .. (FreeTotalNow' - 1) -> V]
        /\ \A i \in 0 .. (freecurr - 1) : i \in DOMAIN data /\ data'[i] = data[i]
        /\ data'[freecurr] = c
        /\ \A i \in DOMAIN data' : data'[i] \in Conns =>
             \/ i = freecurr /\ data'[i] = c
             \/ i \in DOMAIN data /\ data'[i] = data[i]
    BY <1>3, <1>5
  <2> QED
    BY <1>1, <1>5, <2>1, <2>2 DEF Push, V
<1> QED
  BY <1>2, <1>4, <1>5 DEF Push

(* What a pop may find.                                                    *)
LEMMA PopResult ==
  ASSUME TypeOK, ListIsWritten, NEW got \in PopResults
  PROVE  /\ got \in Conns => freecurr \in DOMAIN data /\ freecurr > 0 /\ got = data[freecurr]
         /\ got \in malloced \cup {NULL, Wild}
         /\ CountAfterPop \in 0 .. FreeTotalNow
         /\ CountAfterPop = IF freecurr = 0 THEN 0 ELSE freecurr - 1
<1>1. /\ FreeTotalNow \in Nat /\ freecurr \in 0 .. FreeTotalNow
      /\ data \in [0 .. (FreeTotalNow - 1) -> Conns \cup {NULL, Wild}]
      /\ NULL \notin Conns /\ Wild \notin Conns
      /\ \A i \in DOMAIN data : data[i] \in Conns => data[i] \in malloced
  BY ConnAssumption DEF TypeOK, ListIsWritten
<1> HIDE DEF FreeTotalNow
<1>2. CASE freecurr = 0
  BY <1>1, <1>2 DEF PopResults, CountAfterPop
<1>3. CASE freecurr # 0
  BY <1>1, <1>3 DEF PopResults, CountAfterPop
<1> QED
  BY <1>2, <1>3

(* A fresh structure is a new one. *)
LEMMA FreshIsNew ==
  ASSUME NEW c \in Fresh PROVE c \in Conns /\ c \notin malloced
BY DEF Fresh

-----------------------------------------------------------------------------
(* What always holds, and what holds as long as no write failed.           *)
Core ==
  /\ TypeOK /\ WatchersAgree /\ PeersHaveOneSocket /\ SendersKnowTheirPeer
  /\ ListIsWritten

Owned ==
  "write_failed" \notin upset => DescriptorsHaveOneUse /\ SendersAreWatching

Reached ==
  "write_failed" \notin upset => WorkersReachTheirPeer

Listed ==
  "write_failed" \notin upset /\ "three_listed" \notin upset => ListedAreFree

(* A watcher is of a loop, a structure and a descriptor. *)
LEMMA WatcherParts ==
  ASSUME TypeOK, NEW w \in watchers
  PROVE  /\ w[1] \in Loops /\ w[2] \in Conns /\ w[3] \in Fds
         /\ w = <<w[1], w[2], w[3]>> /\ w[2] \in Watched
BY DEF TypeOK, Watched

(* A watched structure is malloced and has a loop and a descriptor. *)
LEMMA WatchedHasDescriptor ==
  ASSUME TypeOK, WatchersAgree, NEW c \in Watched
  PROVE  c \in Conns /\ c \in malloced /\ sfd[c] \in Fds /\ loop[c] \in Loops
<1>1. PICK w \in watchers : c = w[2]
  BY DEF Watched
<1> QED
  BY <1>1, WatcherParts DEF WatchersAgree

(* What the closing of a connection leaves.                                *)
LEMMA CloseResult ==
  ASSUME TypeOK, WatchersAgree, PeersHaveOneSocket,
         NEW c \in malloced, NEW why, Close(c, why), UNCHANGED <<malloced, sfd, seen>>
  PROVE  /\ watchers' = {w \in watchers : w[2] # c}
         /\ Watched' = Watched \ {c}
         /\ sock' \in [Fds -> Peers \cup {None}]
         /\ sfd[c] \in Fds => sock'[sfd[c]] = None
         /\ \A f \in Fds : sock'[f] # sock[f] => f = sfd[c] /\ sock'[f] = None
         /\ loop' \in [Conns -> Loops \cup {NULL}]
         /\ \A d \in Conns : d # c => loop'[d] = loop[d]
         /\ WatchersAgree' /\ PeersHaveOneSocket'
<1>1. /\ c \in Conns /\ sfd \in [Conns -> Fds \cup {None}]
      /\ sock \in [Fds -> Peers \cup {None}] /\ loop \in [Conns -> Loops \cup {NULL}]
      /\ None \notin Fds
  BY DEF TypeOK, None, Fds
<1>2. watchers' = {w \in watchers : w[2] # c}
  BY DEF Close, Unwatched, WatchersAgree
<1>3. Watched' = Watched \ {c}
  BY <1>2 DEF Watched
<1>4. sock' = SocksWithout(c) /\ loop' = [loop EXCEPT ![c] = NULL]
  BY DEF Close
<1>5. /\ sock' \in [Fds -> Peers \cup {None}]
      /\ sfd[c] \in Fds => sock'[sfd[c]] = None
      /\ \A f \in Fds : sock'[f] # sock[f] => f = sfd[c] /\ sock'[f] = None
  BY <1>1, <1>4 DEF SocksWithout
<1>6. /\ loop' \in [Conns -> Loops \cup {NULL}]
      /\ \A d \in Conns : d # c => loop'[d] = loop[d]
  BY <1>1, <1>4
<1>7. WatchersAgree'
  BY <1>2, <1>6, WatcherParts DEF WatchersAgree
<1>8. PeersHaveOneSocket'
  BY <1>5 DEF PeersHaveOneSocket
<1> QED
  BY <1>2, <1>3, <1>5, <1>6, <1>7, <1>8

(* A way to a peer stays one, unless it is the connection that is closed:  *)
(* then the peer is disconnected for good.                                 *)
LEMMA CloseKeepsWays ==
  ASSUME TypeOK, WatchersAgree, PeersHaveOneSocket,
         NEW c \in malloced, NEW why, Close(c, why), UNCHANGED <<malloced, sfd, seen>>,
         NEW d, NEW p, IsWayTo(d, p)
  PROVE  IsWayTo(d, p)' /\ (d = c \/ ~ Connected(p) => ~ Connected(p)')
<1>1. d \in malloced /\ p \in seen /\ p # None
  BY DEF IsWayTo, TypeOK, Peers, None
<1>2. ASSUME NEW f \in Fds, sock'[f] = p
      PROVE  sock[f] = p /\ d \in Watched /\ f = sfd[d] /\ d # c
  <2>1. sock[f] = p
    BY <1>1, <1>2, CloseResult
  <2>2. d \in Watched /\ sock[sfd[d]] = p
    BY <2>1 DEF IsWayTo, Connected
  <2>3. f = sfd[d]
    BY <1>1, <2>1, <2>2, WatchedHasDescriptor DEF PeersHaveOneSocket
  <2>4. d # c
    BY <1>1, <1>2, <2>3, CloseResult
  <2> QED
    BY <2>1, <2>2, <2>3, <2>4
<1>3. Connected(p)' => d \in Watched' /\ sock'[sfd'[d]] = p
  <2>1. Watched' = Watched \ {c}
    BY CloseResult
  <2> QED
    BY <1>2, <2>1 DEF Connected
<1>4. IsWayTo(d, p)'
  BY <1>1, <1>3 DEF IsWayTo
<1>5. d = c \/ ~ Connected(p) => ~ Connected(p)'
  BY <1>2 DEF Connected
<1> QED
  BY <1>4, <1>5

(* The free list after a push.                                             *)
LEMMA CloseKeepsList ==
  ASSUME TypeOK, ListIsWritten,
         NEW c \in malloced, NEW why, Close(c, why), UNCHANGED malloced
  PROVE  /\ FreeTotalNow' \in Nat \ {0} /\ freecurr' \in 0 .. FreeTotalNow'
         /\ data' \in [0 .. (FreeTotalNow' - 1) -> Conns \cup {NULL, Wild}]
         /\ popped' = FALSE
         /\ ListIsWritten'
<1>1. c \in Conns /\ Push(c)
  BY DEF TypeOK, Close
<1>2. /\ freecurr \in Nat
      /\ \A i \in 0 .. (freecurr - 1) : data[i] \in Conns
      /\ \A i \in DOMAIN data : data[i] \in Conns => data[i] \in malloced
  <2>1. FreeTotalNow \in Nat /\ freecurr \in 0 .. FreeTotalNow
    BY DEF TypeOK
  <2> HIDE DEF FreeTotalNow
  <2>2. freecurr \in Nat
    BY <2>1
  <2> QED
    BY <2>2 DEF ListIsWritten
<1>3. upset \subseteq upset' /\ (freecurr' > 1 => "two_listed" \in upset')
      /\ (freecurr' > 2 => "three_listed" \in upset')
  BY DEF Close
<1>4. /\ FreeTotalNow' \in Nat \ {0} /\ freecurr' \in 0 .. FreeTotalNow'
      /\ data' \in [0 .. (FreeTotalNow' - 1) -> Conns \cup {NULL, Wild}]
      /\ freecurr' \in {freecurr, freecurr + 1} /\ popped' = FALSE
      /\ \A i \in 0 .. (freecurr - 1) : i \in DOMAIN data /\ data'[i] = data[i]
      /\ freecurr' = freecurr + 1 => data'[freecurr] = c
      /\ \A i \in DOMAIN data' : data'[i] \in Conns =>
           \/ i = freecurr /\ freecurr' = freecurr + 1 /\ data'[i] = c
           \/ i \in DOMAIN data /\ data'[i] = data[i]
      /\ freecurr' <= 1 =>
           \A i \in DOMAIN data' : i >= 1 => i \in DOMAIN data /\ data'[i] = data[i]
  BY <1>1, PushResult
<1> HIDE DEF FreeTotalNow
<1>9. PICK old \in Nat, new \in Nat :
        old = freecurr /\ new = freecurr' /\ (new = old \/ new = old + 1)
  BY <1>2, <1>4
<1>5. \A i \in 0 .. (freecurr' - 1) : data'[i] \in Conns
  <2> SUFFICES ASSUME NEW i \in 0 .. (freecurr' - 1) PROVE data'[i] \in Conns
    OBVIOUS
  <2>1. CASE i \in 0 .. (freecurr - 1)
    BY <1>2, <1>4, <2>1
  <2>2. CASE i = freecurr /\ freecurr' = freecurr + 1
    BY <1>1, <1>4, <2>2
  <2> QED
    <3>1. i \in 0 .. (new - 1) /\ (new = old \/ new = old + 1)
      BY <1>9
    <3>2. i \in 0 .. (old - 1) \/ (i = old /\ new = old + 1)
      BY <3>1
    <3> QED
      BY <1>9, <2>1, <2>2, <3>2
<1>6. \A i \in DOMAIN data' : data'[i] \in Conns => data'[i] \in malloced'
  BY <1>2, <1>4
<1>7. "two_listed" \notin upset' =>
        freecurr' <= 1 /\ \A i \in DOMAIN data' : i >= 1 => data'[i] = NULL
  <2> SUFFICES ASSUME "two_listed" \notin upset'
               PROVE  freecurr' <= 1 /\ \A i \in DOMAIN data' : i >= 1 => data'[i] = NULL
    OBVIOUS
  <2>1. freecurr' <= 1
    <3>1. new <= 1
      BY <1>3, <1>9
    <3> QED
      BY <1>9, <3>1
  <2>2. \A i \in DOMAIN data : i >= 1 => data[i] = NULL
    BY <1>3 DEF ListIsWritten
  <2> QED
    BY <1>4, <2>1, <2>2
<1>8. "three_listed" \notin upset' =>
        /\ freecurr' <= 2 /\ \A i \in DOMAIN data' : i >= 2 => data'[i] \notin Conns
        /\ popped' => freecurr' <= 1
  <2> SUFFICES ASSUME "three_listed" \notin upset'
               PROVE  freecurr' <= 2 /\ \A i \in DOMAIN data' : i >= 2 => data'[i] \notin Conns
    BY <1>4
  <2>1. freecurr' <= 2
    <3>1. new <= 2
      BY <1>3, <1>9
    <3> QED
      BY <1>9, <3>1
  <2>2. \A i \in DOMAIN data : i >= 2 => data[i] \notin Conns
    BY <1>3 DEF ListIsWritten
  <2>3. ASSUME NEW i \in DOMAIN data', i >= 2 PROVE data'[i] \notin Conns
    <3>1. CASE i = freecurr /\ freecurr' = freecurr + 1
      <4>1. new <= 2 /\ i = old /\ new = old + 1
        BY <1>9, <2>1, <3>1
      <4> QED
        BY <2>3, <4>1
    <3>2. CASE i \in DOMAIN data /\ data'[i] = data[i]
      BY <2>2, <2>3, <3>2
    <3> QED
      BY <1>4, <3>1, <3>2
  <2> QED
    BY <2>1, <2>3
<1> QED
  BY <1>4, <1>5, <1>6, <1>7, <1>8 DEF ListIsWritten

-----------------------------------------------------------------------------
(* Core, step by step.                                                     *)

(* Accept gives a free descriptor to a new peer. *)
LEMMA AcceptCore == ASSUME Core, NEW t \in Workers, Accept(t) PROVE Core'
<1> PICK p \in Peers \ seen, f \in {g \in Fds : sock[g] = None} :
      /\ seen' = seen \cup {p} /\ sock' = [sock EXCEPT ![f] = p]
      /\ queue' = [queue EXCEPT ![t] = Append(@, f)]
      /\ notify' = notify \cup {t}
      /\ UNCHANGED <<listVars, connVars, asked, gone, req_conns, th, upset, crashed>>
  BY DEF Accept
<1> USE DEF Core, listVars, connVars
<1>1. p # None /\ p \notin seen /\ f \in Fds /\ sock[f] = None /\ None \notin Peers
      /\ sock \in [Fds -> Peers \cup {None}] /\ seen \subseteq Peers
  BY DEF Peers, None, TypeOK
<1>2. TypeOK'
  <2>1. queue' \in [Workers -> Seq(Fds)]
    BY <1>1 DEF TypeOK
  <2> QED
    BY <1>1, <2>1 DEF TypeOK, FreeTotalNow
<1>3. WatchersAgree' /\ ListIsWritten'
  BY DEF WatchersAgree, ListIsWritten
<1>4. PeersHaveOneSocket'
  BY <1>1 DEF PeersHaveOneSocket
<1>5. ASSUME NEW d, NEW q, IsWayTo(d, q)
      PROVE  IsWayTo(d, q)' /\ (~ Connected(q) => ~ Connected(q)')
  <2>1. q \in seen /\ q # p /\ q # None
    BY <1>1, <1>5 DEF IsWayTo
  <2>2. \A g \in Fds : sock'[g] = q <=> sock[g] = q
    BY <1>1, <2>1
  <2>3. Connected(q)' <=> Connected(q)
    BY <2>2 DEF Connected
  <2>4. Watched' = Watched
    BY DEF Watched
  <2>5. Connected(q) => sock'[sfd'[d]] = q
    BY <1>5, <2>2, WatchedHasDescriptor DEF IsWayTo
  <2> QED
    BY <1>5, <2>3, <2>4, <2>5 DEF IsWayTo
<1>6. SendersKnowTheirPeer'
  BY <1>5 DEF SendersKnowTheirPeer
<1> QED
  BY <1>2, <1>3, <1>4, <1>6

(* Steps that leave descriptors, watchers and the free list alone.         *)
LEMMA QuietCore ==
  ASSUME Core, UNCHANGED <<listVars, connVars, sock, seen, queue, req_conns, upset>>
  PROVE  /\ WatchersAgree' /\ PeersHaveOneSocket' /\ ListIsWritten'
         /\ \A d, q : IsWayTo(d, q) => IsWayTo(d, q)'
         /\ \A q : Connected(q)' <=> Connected(q)
         /\ FreeTotalNow' = FreeTotalNow /\ Watched' = Watched
<1> USE DEF Core, listVars, connVars
<1>1. WatchersAgree' /\ PeersHaveOneSocket' /\ ListIsWritten'
  BY DEF WatchersAgree, PeersHaveOneSocket, ListIsWritten
<1>2. Watched' = Watched /\ FreeTotalNow' = FreeTotalNow
  BY DEF Watched, FreeTotalNow
<1>3. \A q : Connected(q)' <=> Connected(q)
  BY DEF Connected
<1>4. \A d, q : IsWayTo(d, q) => IsWayTo(d, q)'
  BY <1>2, <1>3 DEF IsWayTo
<1> QED
  BY <1>1, <1>2, <1>3, <1>4

(* A peer that hangs up keeps its descriptor here. *)
LEMMA HangUpCore == ASSUME Core, NEW p \in Peers, HangUp(p) PROVE Core'
<1>1. UNCHANGED <<listVars, connVars, sock, seen, queue, notify, req_conns, upset, th, asked,
                  crashed>>
      /\ gone' = gone \cup {p} /\ p \in seen
  BY DEF HangUp
<1>2. TypeOK'
  BY <1>1, QuietCore DEF TypeOK, Core, listVars, connVars
<1>3. SendersKnowTheirPeer'
  BY <1>1, QuietCore DEF SendersKnowTheirPeer, Core
<1> QED
  BY <1>1, <1>2, <1>3, QuietCore DEF Core

(* Threads take something to send, or have sent it. *)
LEMMA ThreadCore ==
  ASSUME Core, UNCHANGED <<listVars, connVars, sock, seen, queue, notify, gone, req_conns,
                           upset, crashed>>,
         asked' \subseteq seen, NEW t \in Threads,
         \/ th' = th \/ th' = [th EXCEPT ![t] = Idle]
         \/ \E c, p : IsWayTo(c, p) /\ th' = [th EXCEPT ![t] = Sending(c, p)]
  PROVE  Core'
<1> DEFINE R == [pc : {"idle", "send"}, conn : Conns \cup {NULL},
                 peer : Peers \cup {None}, failed : BOOLEAN]
<1>1. th \in [Threads -> R]
  BY DEF Core, TypeOK
<1>2. Idle \in R
  BY DEF Idle
<1>3. ASSUME NEW c, NEW p, IsWayTo(c, p)
      PROVE  /\ Sending(c, p) \in R /\ Sending(c, p).pc = "send"
             /\ Sending(c, p).conn = c /\ Sending(c, p).peer = p
             /\ Sending(c, p).failed = FALSE
  <2>1. c \in Conns /\ p \in Peers
    BY <1>3 DEF IsWayTo, Core, TypeOK
  <2> QED
    BY <2>1 DEF Sending
<1>4. /\ th' \in [Threads -> R]
      /\ \A u \in Threads : \/ th'[u] = th[u] \/ th'[u] = Idle
                            \/ \E c, p : IsWayTo(c, p) /\ th'[u] = Sending(c, p)
  <2> HIDE DEF R
  <2>1. CASE th' = th
    BY <1>1, <2>1
  <2>2. CASE th' = [th EXCEPT ![t] = Idle]
    BY <1>1, <1>2, <2>2
  <2>3. ASSUME NEW c, NEW p, IsWayTo(c, p), th' = [th EXCEPT ![t] = Sending(c, p)]
        PROVE  /\ th' \in [Threads -> R]
               /\ \A u \in Threads : th'[u] = th[u] \/ th'[u] = Sending(c, p)
    <3>1. Sending(c, p) \in R
      BY <1>3, <2>3
    <3> QED
      BY <1>1, <2>3, <3>1
  <2> QED
    BY <2>1, <2>2, <2>3
<1>5. TypeOK'
  BY <1>4, QuietCore DEF TypeOK, Core, listVars, connVars
<1>6. SendersKnowTheirPeer'
  <2>1. \A e \in req_conns' : IsWayTo(e[1], e[2])'
    BY QuietCore DEF SendersKnowTheirPeer, Core
  <2>2. ASSUME NEW u \in Threads
        PROVE  /\ th'[u].pc = "idle" => th'[u] = Idle
               /\ th'[u].pc = "send" =>
                    /\ IsWayTo(th[u].conn, th[u].peer)'
                    /\ th'[u].failed => ~ Connected(th[u].peer)'
    <3>1. CASE th'[u] = th[u]
      BY <3>1, QuietCore DEF SendersKnowTheirPeer, Core
    <3>2. CASE th'[u] = Idle
      <4>1. Idle.pc = "idle"
        BY DEF Idle
      <4> QED
        BY <3>2, <4>1
    <3>3. CASE \E c, p : IsWayTo(c, p) /\ th'[u] = Sending(c, p)
      <4>1. PICK c, p : IsWayTo(c, p) /\ th'[u] = Sending(c, p)
        BY <3>3
      <4>2. IsWayTo(c, p)'
        BY <4>1, QuietCore
      <4>3. th'[u].pc = "send" /\ th'[u].conn = c /\ th'[u].peer = p /\ th'[u].failed = FALSE
        BY <4>1 DEF Sending
      <4> QED
        BY <4>2, <4>3 DEF IsWayTo, Connected, Watched
    <3> QED
      BY <1>4, <3>1, <3>2, <3>3
  <2> QED
    BY <2>1, <2>2 DEF SendersKnowTheirPeer
<1> QED
  BY <1>5, <1>6, QuietCore DEF Core

(* The write thread takes a connection of the client. *)
LEMMA SendRequestCore == ASSUME Core, SendRequest PROVE Core'
<1>1. PICK e \in req_conns : th' = [th EXCEPT ![Writer] = Sending(e[1], e[2])]
  BY DEF SendRequest
<1>2. IsWayTo(e[1], e[2])
  BY DEF Core, SendersKnowTheirPeer
<1>3. UNCHANGED <<listVars, connVars, sock, seen, queue, notify, asked, gone, req_conns, upset,
                  crashed>>
  BY DEF SendRequest, netVars
<1>4. asked' \subseteq seen /\ Writer \in Threads
  BY <1>3 DEF Core, TypeOK, Threads
<1> QED
  BY <1>1, <1>2, <1>3, <1>4, ThreadCore

(* A message has been sent. *)
LEMMA SentCore == ASSUME Core, NEW t \in Threads, Sent(t) PROVE Core'
<1>1. UNCHANGED <<listVars, connVars, sock, seen, queue, notify, asked, gone, req_conns,
                  upset, crashed>>
      /\ th' = [th EXCEPT ![t] = Idle]
  BY DEF Sent, netVars
<1>2. asked' \subseteq seen
  BY <1>1 DEF Core, TypeOK
<1> QED
  BY <1>1, <1>2, ThreadCore

(* A worker has read a request and answers on the same connection. *)
LEMMA ReadMessageCore ==
  ASSUME Core, NEW t \in Threads, NEW w \in watchers, ReadMessage(t, w) PROVE Core'
<1>1. PICK c, p : c = w[2] /\ p = sock[sfd[c]]
  OBVIOUS
<1>2. UNCHANGED <<listVars, connVars, sock, seen, queue, notify, gone, req_conns,
                  upset, crashed>>
      /\ p # None /\ asked' = asked \cup {p}
      /\ (th' = th \/ th' = [th EXCEPT ![t] = Sending(c, p)])
  BY <1>1 DEF ReadMessage
<1>3. c \in Watched /\ c \in malloced /\ sfd[c] \in Fds
  BY <1>1, WatcherParts, WatchedHasDescriptor DEF Core
<1>4. p \in seen
  BY <1>1, <1>2, <1>3 DEF Core, PeersHaveOneSocket
<1>5. IsWayTo(c, p) /\ asked' \subseteq seen
  BY <1>1, <1>2, <1>3, <1>4 DEF IsWayTo, Core, TypeOK
<1> QED
  BY <1>2, <1>5, ThreadCore

(* A connection is closed: by its loop, or by a thread that fails to send. *)
LEMMA CloseCore ==
  ASSUME Core, NEW c \in malloced, NEW why, Close(c, why),
         UNCHANGED <<malloced, sfd, netVars>>, crashed' \in BOOLEAN,
         \/ th' = th
         \/ \E t \in Threads : th[t].pc = "send" /\ th[t].conn = c /\ th' = AfterError(t)
  PROVE  Core'
<1> DEFINE R == [pc : {"idle", "send"}, conn : Conns \cup {NULL},
                 peer : Peers \cup {None}, failed : BOOLEAN]
<1>1. TypeOK /\ WatchersAgree /\ PeersHaveOneSocket /\ SendersKnowTheirPeer /\ ListIsWritten
      /\ UNCHANGED <<seen, queue, notify, asked, gone, req_conns>>
  BY DEF Core, netVars
<1>2. /\ th' \in [Threads -> R]
      /\ \A u \in Threads :
           \/ th'[u] = th[u]
           \/ /\ th[u].pc = "send" /\ th[u].conn = c
              /\ th'[u].pc = "send" /\ th'[u].conn = c /\ th'[u].peer = th[u].peer
  <2>1. th \in [Threads -> R]
    BY <1>1 DEF TypeOK
  <2>2. CASE th' = th
    BY <2>1, <2>2
  <2>3. ASSUME NEW t \in Threads, th[t].pc = "send", th[t].conn = c, th' = AfterError(t)
        PROVE  /\ th' \in [Threads -> R]
               /\ th'[t].pc = "send" /\ th'[t].conn = c /\ th'[t].peer = th[t].peer
               /\ \A u \in Threads : u # t => th'[u] = th[u]
    <3> DEFINE x == [th[t] EXCEPT !.failed = TRUE]
    <3>1. th' = [th EXCEPT ![t] = x]
      BY <2>3 DEF AfterError
    <3>2. th[t] \in R
      BY <2>1
    <3>3. x \in R /\ x.pc = th[t].pc /\ x.conn = th[t].conn /\ x.peer = th[t].peer
      BY <3>2
    <3> HIDE DEF x, R
    <3> QED
      BY <2>1, <2>3, <3>1, <3>3
  <2> HIDE DEF R
  <2> QED
    BY <2>2, <2>3
<1>3. /\ watchers' = {w \in watchers : w[2] # c}
      /\ sock' \in [Fds -> Peers \cup {None}]
      /\ loop' \in [Conns -> Loops \cup {NULL}]
      /\ WatchersAgree' /\ PeersHaveOneSocket'
  BY <1>1, CloseResult
<1>4. /\ FreeTotalNow' \in Nat \ {0} /\ freecurr' \in 0 .. FreeTotalNow'
      /\ data' \in [0 .. (FreeTotalNow' - 1) -> Conns \cup {NULL, Wild}]
      /\ popped' = FALSE /\ ListIsWritten'
  BY <1>1, CloseKeepsList
<1>5. TypeOK'
  <2> HIDE DEF FreeTotalNow
  <2> QED
    BY <1>1, <1>2, <1>3, <1>4 DEF TypeOK
<1>6. \A d, p : IsWayTo(d, p) =>
        IsWayTo(d, p)' /\ (d = c \/ ~ Connected(p) => ~ Connected(p)')
  BY <1>1, CloseKeepsWays
<1>7. SendersKnowTheirPeer'
  <2>1. \A e \in req_conns' : IsWayTo(e[1], e[2])'
    BY <1>1, <1>6 DEF SendersKnowTheirPeer
  <2>2. ASSUME NEW u \in Threads
        PROVE  /\ th'[u].pc = "idle" => th'[u] = Idle
               /\ th'[u].pc = "send" =>
                    /\ IsWayTo(th[u].conn, th[u].peer)'
                    /\ th'[u].failed => ~ Connected(th[u].peer)'
    <3>1. CASE th'[u] = th[u]
      BY <1>1, <1>6, <3>1 DEF SendersKnowTheirPeer
    <3>2. CASE /\ th[u].pc = "send" /\ th[u].conn = c
               /\ th'[u].pc = "send" /\ th'[u].conn = c /\ th'[u].peer = th[u].peer
      <4>1. PICK p : p = th[u].peer
        OBVIOUS
      <4>2. IsWayTo(c, p)
        BY <1>1, <3>2, <4>1 DEF SendersKnowTheirPeer
      <4>3. IsWayTo(c, p)' /\ ~ Connected(p)'
        BY <1>6, <4>2
      <4>4. th'[u].peer = p
        BY <3>2, <4>1
      <4> QED
        BY <3>2, <4>3, <4>4 DEF IsWayTo, Connected, Watched
    <3> QED
      BY <1>2, <3>1, <3>2
  <2> QED
    BY <2>1, <2>2 DEF SendersKnowTheirPeer
<1> QED
  BY <1>3, <1>4, <1>5, <1>7 DEF Core

(* A loop closes a connection. *)
LEMMA ReadFailsCore ==
  ASSUME Core, NEW t \in Threads, NEW w \in watchers, ReadFails(t, w) PROVE Core'
<1>1. w[2] \in malloced
  BY WatcherParts DEF Core, WatchersAgree
<1>2. Close(w[2], {}) /\ UNCHANGED <<malloced, sfd, netVars, th>> /\ crashed' \in BOOLEAN
  BY DEF ReadFails
<1> QED
  BY <1>1, <1>2, CloseCore

(* A thread that sends closes its connection and goes on. *)
LEMMA SendFailsCore == ASSUME Core, NEW t \in Threads, SendFails(t) PROVE Core'
<1>1. th[t].pc = "send" /\ th[t].conn \in malloced
  BY DEF SendFails, Core, SendersKnowTheirPeer, IsWayTo
<1>2. Close(th[t].conn, {"write_failed"}) /\ UNCHANGED <<malloced, sfd, netVars>>
      /\ th' = AfterError(t)
  BY DEF SendFails
<1>3. crashed' \in BOOLEAN
  BY DEF SendFails
<1> QED
  BY <1>1, <1>2, <1>3, CloseCore

(* What a worker that takes a descriptor from its queue does to the list   *)
(* and to the structures.                                                  *)
LEMMA NewConnResult ==
  ASSUME Core, NEW t \in Workers, NewConn(t)
  PROVE  /\ queue[t] # <<>> /\ Head(queue[t]) \in Fds
         /\ queue' = [queue EXCEPT ![t] = Tail(queue[t])] /\ queue' \in [Workers -> Seq(Fds)]
         /\ data' = data /\ freecurr' = CountAfterPop /\ popped' = TRUE
         /\ crashed' \in BOOLEAN /\ notify' = notify \ {t}
         /\ UNCHANGED <<sock, seen, asked, gone, req_conns, th, upset>>
         /\ \E got \in PopResults :
              \/ crashed' /\ (got = Wild \/ got \in Watched) /\ UNCHANGED connVars
              \/ crashed' = crashed /\ \E c \in Conns :
                    /\ c = got \/ c \notin malloced
                    /\ c \notin Watched
                    /\ malloced' = malloced \cup {c}
                    /\ sfd' = [sfd EXCEPT ![c] = Head(queue[t])]
                    /\ loop' = [loop EXCEPT ![c] = t]
                    /\ watchers' = watchers \cup {<<t, c, Head(queue[t])>>}
<1>1. /\ queue[t] # <<>> /\ queue' = [queue EXCEPT ![t] = Tail(queue[t])]
      /\ notify' = notify \ {t}
      /\ data' = data /\ freecurr' = CountAfterPop /\ popped' = TRUE
      /\ UNCHANGED <<sock, seen, asked, gone, req_conns, th, upset>>
  BY DEF NewConn
<1>2. /\ queue \in [Workers -> Seq(Fds)] /\ crashed \in BOOLEAN
      /\ TypeOK /\ ListIsWritten /\ WatchersAgree
  BY DEF Core, TypeOK
<1>3. Head(queue[t]) \in Fds /\ queue' \in [Workers -> Seq(Fds)]
  <2>1. queue[t] \in Seq(Fds) /\ queue[t] # <<>>
    BY <1>1, <1>2
  <2>2. Head(queue[t]) \in Fds /\ Tail(queue[t]) \in Seq(Fds)
    BY <2>1
  <2> QED
    BY <1>1, <1>2, <2>2
<1>4. Watched \subseteq malloced
  BY <1>2, WatchedHasDescriptor
<1>5. PICK got \in PopResults :
       IF got = Wild \/ got \in Watched
       THEN crashed' = TRUE /\ UNCHANGED connVars
       ELSE \E c \in (IF got = NULL THEN Fresh ELSE {got}) :
              /\ malloced' = malloced \cup {c}
              /\ sfd' = [sfd EXCEPT ![c] = Head(queue[t])]
              /\ loop' = [loop EXCEPT ![c] = t]
              /\ watchers' = watchers \cup {<<t, c, Head(queue[t])>>}
              /\ UNCHANGED crashed
  BY DEF NewConn
<1>6. CASE got = Wild \/ got \in Watched
  <2>1. crashed' = TRUE /\ UNCHANGED connVars
    BY <1>5, <1>6
  <2> QED
    BY <1>1, <1>3, <1>5, <1>6, <2>1
<1>7. CASE ~ (got = Wild \/ got \in Watched)
  <2>1. PICK c \in (IF got = NULL THEN Fresh ELSE {got}) :
              /\ malloced' = malloced \cup {c}
              /\ sfd' = [sfd EXCEPT ![c] = Head(queue[t])]
              /\ loop' = [loop EXCEPT ![c] = t]
              /\ watchers' = watchers \cup {<<t, c, Head(queue[t])>>}
              /\ UNCHANGED crashed
    BY <1>5, <1>7
  <2>2. c \in Conns /\ (c = got \/ c \notin malloced) /\ c \notin Watched
    <3>1. CASE got = NULL
      BY <1>4, <2>1, <3>1, FreshIsNew
    <3>2. CASE got # NULL
      <4>1. got \in malloced
        BY <1>2, <1>7, <3>2, PopResult
      <4> QED
        BY <1>2, <1>7, <2>1, <3>2, <4>1 DEF TypeOK
    <3> QED
      BY <3>1, <3>2
  <2> QED
    BY <1>1, <1>2, <1>3, <1>5, <2>1, <2>2
<1> QED
  BY <1>6, <1>7

(* A structure that is given out was not watched. *)
LEMMA NewConnCore == ASSUME Core, NEW t \in Workers, NewConn(t) PROVE Core'
<1>1. /\ Head(queue[t]) \in Fds /\ queue' \in [Workers -> Seq(Fds)]
      /\ data' = data /\ freecurr' = CountAfterPop /\ popped' = TRUE
      /\ crashed' \in BOOLEAN /\ notify' = notify \ {t}
      /\ UNCHANGED <<sock, seen, asked, gone, req_conns, th, upset>>
  BY NewConnResult
<1>2. TypeOK /\ WatchersAgree /\ PeersHaveOneSocket /\ SendersKnowTheirPeer /\ ListIsWritten
  BY DEF Core
<1>3. \/ UNCHANGED connVars
      \/ \E c \in Conns :
           /\ c \notin Watched
           /\ malloced' = malloced \cup {c}
           /\ sfd' = [sfd EXCEPT ![c] = Head(queue[t])]
           /\ loop' = [loop EXCEPT ![c] = t]
           /\ watchers' = watchers \cup {<<t, c, Head(queue[t])>>}
  BY NewConnResult
<1>4. /\ malloced \subseteq malloced' /\ malloced' \subseteq Conns
      /\ sfd' \in [Conns -> Fds \cup {None}] /\ loop' \in [Conns -> Loops \cup {NULL}]
      /\ watchers' \subseteq Loops \X Conns \X Fds
      /\ WatchersAgree'
      /\ Watched \subseteq Watched'
      /\ \A d \in Watched : sfd'[d] = sfd[d]
  <2>1. CASE UNCHANGED connVars
    BY <1>2, <2>1 DEF connVars, TypeOK, WatchersAgree, Watched
  <2>2. ASSUME NEW c \in Conns, c \notin Watched,
               malloced' = malloced \cup {c},
               sfd' = [sfd EXCEPT ![c] = Head(queue[t])],
               loop' = [loop EXCEPT ![c] = t],
               watchers' = watchers \cup {<<t, c, Head(queue[t])>>}
        PROVE  <1>4!:
    <3>1. PICK f \in Fds : f = Head(queue[t])
      BY <1>1
    <3>2. /\ malloced \subseteq Conns /\ sfd \in [Conns -> Fds \cup {None}]
          /\ loop \in [Conns -> Loops \cup {NULL}]
          /\ watchers \subseteq Loops \X Conns \X Fds /\ t \in Loops
      BY <1>2 DEF TypeOK, Loops
    <3>3. /\ malloced \subseteq malloced' /\ malloced' \subseteq Conns
          /\ sfd' \in [Conns -> Fds \cup {None}] /\ loop' \in [Conns -> Loops \cup {NULL}]
          /\ watchers' \subseteq Loops \X Conns \X Fds
          /\ \A d \in Conns : d # c => sfd'[d] = sfd[d] /\ loop'[d] = loop[d]
          /\ sfd'[c] = f /\ loop'[c] = t /\ c \in malloced'
      BY <2>2, <3>1, <3>2
    <3>4. Watched \subseteq Watched' /\ Watched \subseteq Conns
      BY <1>2, <2>2, WatchedHasDescriptor DEF Watched
    <3>5. ASSUME NEW w \in watchers'
          PROVE  w[2] \in malloced' /\ loop'[w[2]] = w[1] /\ sfd'[w[2]] = w[3]
      <4>1. CASE w \in watchers
        <5>1. w[2] \in Conns /\ w[2] # c
          BY <1>2, <2>2, <4>1, WatcherParts
        <5> QED
          BY <1>2, <3>3, <4>1, <5>1 DEF WatchersAgree
      <4>2. CASE w = <<t, c, f>>
        BY <3>3, <4>2
      <4> QED
        BY <2>2, <3>1, <3>5, <4>1, <4>2
    <3>6. WatchersAgree'
      BY <3>5 DEF WatchersAgree
    <3> QED
      BY <2>2, <3>3, <3>4, <3>6
  <2> QED
    BY <1>3, <2>1, <2>2
<1>5. PICK n \in Nat, m \in Nat :
        /\ n = freecurr /\ m = freecurr' /\ (m = IF n = 0 THEN 0 ELSE n - 1)
  <2>1. PICK k \in Nat : k = FreeTotalNow
    BY <1>2 DEF TypeOK
  <2>2. freecurr \in 0 .. k /\ freecurr' = IF freecurr = 0 THEN 0 ELSE freecurr - 1
    BY <1>1, <1>2, <2>1, PopResult, NewConnResult DEF TypeOK
  <2> QED
    BY <2>1, <2>2
<1>6. ListIsWritten'
  <2>1. \A i \in 0 .. (m - 1) : i \in 0 .. (n - 1)
    BY <1>5
  <2>2. /\ n <= 2 => m <= 1
        /\ n <= 1 => m <= 1
    BY <1>5
  <2>3. \A i \in 0 .. (m - 1) : data[i] \in Conns
    BY <1>2, <1>5, <2>1 DEF ListIsWritten
  <2>4. m <= 1 => m <= 2
    BY <1>5
  <2> QED
    BY <1>1, <1>2, <1>4, <1>5, <2>2, <2>3, <2>4 DEF ListIsWritten
<1>7. TypeOK'
  <2>1. FreeTotalNow' = FreeTotalNow
    BY <1>1 DEF FreeTotalNow
  <2>2. freecurr' \in 0 .. FreeTotalNow'
    <3>1. PICK k \in Nat : k = FreeTotalNow
      BY <1>2 DEF TypeOK
    <3>2. n \in 0 .. k
      BY <1>2, <1>5, <3>1 DEF TypeOK
    <3>3. m \in 0 .. k
      BY <1>5, <3>1, <3>2
    <3> QED
      BY <1>5, <2>1, <3>1, <3>3
  <2> HIDE DEF FreeTotalNow
  <2> QED
    BY <1>1, <1>2, <1>4, <2>1, <2>2 DEF TypeOK
<1>8. \A d, p : IsWayTo(d, p) => IsWayTo(d, p)'
  <2>1. \A p : Connected(p)' <=> Connected(p)
    BY <1>1 DEF Connected
  <2> QED
    BY <1>1, <1>4, <2>1 DEF IsWayTo
<1>9. SendersKnowTheirPeer'
  <2>1. \A p : Connected(p)' <=> Connected(p)
    BY <1>1 DEF Connected
  <2> QED
    BY <1>1, <1>2, <1>8, <2>1 DEF SendersKnowTheirPeer
<1>10. PeersHaveOneSocket'
  BY <1>1, <1>2 DEF PeersHaveOneSocket
<1> QED
  BY <1>4, <1>6, <1>7, <1>9, <1>10 DEF Core

(* Whoever has not hung up keeps the socket: only descriptors of peers     *)
(* that are gone are closed, whatever the closing thread thinks it closes. *)
LEMMA InitLive == ASSUME Init PROVE LivePeersAreConnected /\ Reached
<1>1. /\ NClient \in Nat /\ NFds \in Nat /\ NClient <= NFds
      /\ seen = 1 .. NClient /\ sock = [f \in Fds |-> IF f <= NClient THEN f ELSE None]
      /\ th = [t \in Threads |-> Idle]
  BY ConnAssumption DEF Init
<1>2. \A p \in seen : p \in Fds /\ sock[p] = p
  BY <1>1 DEF Fds
<1>3. WorkersReachTheirPeer
  BY <1>1 DEF WorkersReachTheirPeer, Threads, Idle
<1> QED
  BY <1>2, <1>3 DEF LivePeersAreConnected, Connected, Reached

LEMMA LiveStep ==
  ASSUME Core, LivePeersAreConnected, [Next]_vars PROVE LivePeersAreConnected'
<1>1. sock \in [Fds -> Peers \cup {None}] /\ seen \subseteq Peers /\ None \notin Peers
      /\ None \notin Fds
  BY DEF Core, TypeOK, Peers, Fds, None
<1>2. ASSUME UNCHANGED <<sock, seen>>, gone \subseteq gone' PROVE LivePeersAreConnected'
  BY <1>2 DEF LivePeersAreConnected, Connected
<1>3. ASSUME NEW t \in Workers, Accept(t) PROVE LivePeersAreConnected'
  <2> PICK p \in Peers \ seen, f \in {g \in Fds : sock[g] = None} :
        seen' = seen \cup {p} /\ sock' = [sock EXCEPT ![f] = p] /\ gone' = gone
    BY <1>3 DEF Accept
  <2>1. ASSUME NEW q \in seen' \ gone' PROVE \E g \in Fds : sock'[g] = q
    <3>1. CASE q = p
      BY <1>1, <3>1
    <3>2. CASE q # p
      <4>1. PICK g \in Fds : sock[g] = q
        BY <3>2 DEF LivePeersAreConnected, Connected
      <4>2. g # f
        BY <1>1, <3>2, <4>1
      <4> QED
        BY <1>1, <4>1, <4>2
    <3> QED
      BY <3>1, <3>2
  <2> QED
    BY <2>1 DEF LivePeersAreConnected, Connected
<1>4. ASSUME NEW c \in malloced, NEW why, Close(c, why),
             UNCHANGED <<malloced, sfd, netVars>>,
             sfd[c] \in Fds => sock[sfd[c]] \in gone \cup {None}
      PROVE  LivePeersAreConnected'
  <2>1. \A f \in Fds : sock'[f] # sock[f] => sock[f] \in gone \cup {None}
    BY <1>4, CloseResult DEF netVars, Core
  <2>2. seen' = seen /\ gone' = gone
    BY <1>4 DEF netVars
  <2>3. ASSUME NEW q \in seen \ gone PROVE \E g \in Fds : sock'[g] = q
    <3>1. PICK g \in Fds : sock[g] = q
      BY DEF LivePeersAreConnected, Connected
    <3> QED
      BY <1>1, <2>1, <3>1
  <2> QED
    BY <2>2, <2>3 DEF LivePeersAreConnected, Connected
<1>5. ASSUME NEW t \in Threads, NEW w \in watchers, ReadFails(t, w)
      PROVE  LivePeersAreConnected'
  <2>1. w[2] \in malloced
    BY WatcherParts DEF Core, WatchersAgree
  <2> QED
    BY <1>4, <1>5, <2>1 DEF ReadFails
<1>6. ASSUME NEW t \in Threads, SendFails(t) PROVE LivePeersAreConnected'
  <2>1. th[t].conn \in malloced
    BY <1>6 DEF SendFails, Core, SendersKnowTheirPeer, IsWayTo
  <2>2. sfd[th[t].conn] \in Fds => sock[sfd[th[t].conn]] \in gone \cup {None}
    BY <1>1, <1>6 DEF SendFails, Target
  <2>3. Close(th[t].conn, {"write_failed"}) /\ UNCHANGED <<malloced, sfd, netVars>>
    BY <1>6 DEF SendFails
  <2> QED
    BY <1>4, <2>1, <2>2, <2>3
<1>7. ASSUME NEW t \in Threads, Thread(t) PROVE LivePeersAreConnected'
  BY <1>2, <1>5, <1>6, <1>7 DEF Thread, NewConn, Sent, ReadMessage, netVars
<1>8. CASE UNCHANGED vars
  BY <1>2, <1>8 DEF vars, netVars
<1>9. CASE SendRequest \/ \E p \in Peers : HangUp(p)
  BY <1>2, <1>9 DEF SendRequest, HangUp, netVars
<1> QED
  BY <1>3, <1>7, <1>8, <1>9 DEF Next

(* The structures of the client exist: the assumption on Conns. *)
LEMMA FirstConnsAreDistinct ==
  /\ FirstConns \in [1 .. NClient -> Conns]
  /\ \A i, j \in 1 .. NClient : i # j => FirstConns[i] # FirstConns[j]
<1>1. \E f \in [1 .. NClient -> Conns] :
         \A i, j \in 1 .. NClient : i # j => f[i] # f[j]
  BY ConnAssumption
<1> QED
  BY <1>1 DEF FirstConns

(* What holds at the start of the connections of the client.               *)
LEMMA InitParts ==
  ASSUME Init
  PROVE  /\ freecurr = 0 /\ data = [i \in 0 .. (FreeTotal - 1) |-> NULL]
         /\ malloced = {FirstConns[i] : i \in 1 .. NClient}
         /\ sfd \in [Conns -> Fds \cup {None}] /\ loop \in [Conns -> Loops \cup {NULL}]
         /\ watchers = {<<Reader, FirstConns[i], i>> : i \in 1 .. NClient}
         /\ \A i \in 1 .. NClient :
              /\ FirstConns[i] \in Conns /\ i \in Fds /\ i \in Peers
              /\ sfd[FirstConns[i]] = i /\ loop[FirstConns[i]] = Reader
<1> DEFINE mine == {FirstConns[i] : i \in 1 .. NClient}
           number(c) == CHOOSE i \in 1 .. NClient : FirstConns[i] = c
<1>1. /\ NClient \in Nat /\ MaxPeers \in Nat /\ NFds \in Nat
      /\ NClient <= MaxPeers /\ NClient <= NFds
  BY ConnAssumption
<1>2. \A i \in 1 .. NClient : FirstConns[i] \in Conns /\ i \in Fds /\ i \in Peers
  BY <1>1, FirstConnsAreDistinct DEF Fds, Peers
<1>3. /\ malloced = mine
      /\ sfd = [c \in Conns |-> IF c \in mine THEN number(c) ELSE None]
      /\ loop = [c \in Conns |-> IF c \in mine THEN Reader ELSE NULL]
      /\ watchers = {<<Reader, FirstConns[i], i>> : i \in 1 .. NClient}
      /\ freecurr = 0 /\ data = [i \in 0 .. (FreeTotal - 1) |-> NULL]
  BY DEF Init
<1>4. \A c \in mine : number(c) \in Fds
  <2> SUFFICES ASSUME NEW i \in 1 .. NClient PROVE number(FirstConns[i]) \in Fds
    OBVIOUS
  <2> QED
    BY <1>2
<1>5. \A i \in 1 .. NClient : number(FirstConns[i]) = i
  BY FirstConnsAreDistinct
<1>6. \A i \in 1 .. NClient : FirstConns[i] \in mine
  OBVIOUS
<1>7. sfd \in [Conns -> Fds \cup {None}] /\ loop \in [Conns -> Loops \cup {NULL}]
  <2> HIDE DEF mine, number
  <2> QED
    BY <1>3, <1>4 DEF Loops
<1>8. \A i \in 1 .. NClient : sfd[FirstConns[i]] = i /\ loop[FirstConns[i]] = Reader
  <2> HIDE DEF mine, number
  <2> QED
    BY <1>2, <1>3, <1>5, <1>6
<1> QED
  BY <1>2, <1>3, <1>7, <1>8

(* At the start nothing is on the list and nobody sends. *)
LEMMA InitCore == ASSUME Init PROVE Core
<1>1. /\ NClient \in Nat /\ MaxPeers \in Nat /\ NFds \in Nat /\ FreeTotal \in Nat \ {0}
      /\ NClient <= MaxPeers /\ NClient <= NFds /\ NULL \notin Conns
  BY ConnAssumption
<1>2. /\ sock = [f \in Fds |-> IF f <= NClient THEN f ELSE None]
      /\ seen = 1 .. NClient /\ queue = [t \in Workers |-> <<>>] /\ asked = {} /\ gone = {}
      /\ notify = {} /\ req_conns = {<<FirstConns[i], i>> : i \in 1 .. NClient}
      /\ th = [t \in Threads |-> Idle]
      /\ popped = FALSE /\ crashed = FALSE
  BY DEF Init
<1>3. FreeTotalNow = FreeTotal
  BY <1>1, InitParts, Interval DEF FreeTotalNow
<1>4. seen \subseteq Peers /\ malloced \subseteq Conns
      /\ watchers \subseteq Loops \X Conns \X Fds
  BY <1>1, <1>2, InitParts DEF Peers, Loops
<1>5. sock \in [Fds -> Peers \cup {None}]
  BY <1>1, <1>2 DEF Fds, Peers, None
<1>6. th \in [Threads -> [pc : {"idle", "send"}, conn : Conns \cup {NULL},
                          peer : Peers \cup {None}, failed : BOOLEAN]]
  BY <1>2 DEF Idle
<1>7. TypeOK
  <2>1. queue \in [Workers -> Seq(Fds)]
    BY <1>2
  <2>2. FreeTotalNow \in Nat \ {0} /\ freecurr \in 0 .. FreeTotalNow
    BY <1>1, <1>3, InitParts
  <2>3. data \in [0 .. (FreeTotalNow - 1) -> Conns \cup {NULL, Wild}]
    BY <1>3, InitParts
  <2> HIDE DEF FreeTotalNow
  <2> QED
    BY <1>2, <1>4, <1>5, <1>6, <2>1, <2>2, <2>3, InitParts DEF TypeOK
<1>8. WatchersAgree
  BY InitParts DEF WatchersAgree
<1>9. PeersHaveOneSocket
  BY <1>1, <1>2 DEF PeersHaveOneSocket, Fds, None
<1>10. \A i \in 1 .. NClient : IsWayTo(FirstConns[i], i)
  <2> SUFFICES ASSUME NEW i \in 1 .. NClient PROVE IsWayTo(FirstConns[i], i)
    OBVIOUS
  <2>1. FirstConns[i] \in malloced /\ i \in seen
    BY <1>2, InitParts
  <2>2. sfd[FirstConns[i]] = i /\ i \in Fds /\ i <= NClient
    BY InitParts
  <2>3. sock[sfd[FirstConns[i]]] = i
    BY <1>2, <2>2
  <2>4. <<Reader, FirstConns[i], i>> \in watchers
    BY InitParts
  <2> QED
    BY <2>1, <2>3, <2>4 DEF IsWayTo, Watched
<1>11. SendersKnowTheirPeer
  <2>1. \A t \in Threads : th[t] = Idle /\ th[t].pc = "idle"
    BY <1>2 DEF Idle
  <2> QED
    BY <1>2, <1>10, <2>1 DEF SendersKnowTheirPeer
<1>12. ListIsWritten
  BY <1>1, <1>2, InitParts DEF ListIsWritten
<1> QED
  BY <1>7, <1>8, <1>9, <1>11, <1>12 DEF Core

(* At the start each descriptor is in one watcher. *)
LEMMA InitOwned == ASSUME Init PROVE Owned /\ Listed
<1>1. /\ freecurr = 0 /\ popped = FALSE /\ NClient \in Nat /\ NClient <= NFds
      /\ watchers = {<<Reader, FirstConns[i], i>> : i \in 1 .. NClient}
      /\ queue = [t \in Workers |-> <<>>] /\ th = [t \in Threads |-> Idle]
      /\ sock = [f \in Fds |-> IF f <= NClient THEN f ELSE None]
  BY ConnAssumption DEF Init
<1>2. \A w \in watchers : sock[w[3]] # None
  BY <1>1, InitParts DEF None
<1>3. \A t \in Workers : Len(queue[t]) = 0
  BY <1>1
<1>4. DescriptorsHaveOneUse
  BY <1>1, <1>2, <1>3 DEF DescriptorsHaveOneUse
<1>5. SendersAreWatching
  BY <1>1 DEF SendersAreWatching, Threads, Idle
<1>6. ListedAreFree
  BY <1>1 DEF ListedAreFree
<1> QED
  BY <1>4, <1>5, <1>6 DEF Owned, Listed

(* Core is preserved by every step. *)
LEMMA CoreStep == ASSUME Core, [Next]_vars PROVE Core'
<1>1. CASE UNCHANGED vars
  <2>1. UNCHANGED <<listVars, connVars, sock, seen, queue, notify, asked, gone, req_conns,
                    th, upset, crashed>>
    BY <1>1 DEF vars, netVars
  <2>2. asked' \subseteq seen /\ Writer \in Threads
    BY <2>1 DEF Core, TypeOK, Threads
  <2> QED
    BY <2>1, <2>2, ThreadCore
<1>2. CASE \E t \in Threads : Thread(t)
  BY <1>2, NewConnCore, SentCore, SendFailsCore, ReadMessageCore, ReadFailsCore DEF Thread
<1>3. CASE \E t \in Workers : Accept(t)
  BY <1>3, AcceptCore
<1>4. CASE \E p \in Peers : HangUp(p)
  BY <1>4, HangUpCore
<1>5. CASE SendRequest
  BY <1>5, SendRequestCore
<1> QED
  BY <1>1, <1>2, <1>3, <1>4, <1>5 DEF Next

-----------------------------------------------------------------------------
(* One owner, as long as no write failed.                                  *)

(* It is enough that queues are as they were, watchers are fewer and the   *)
(* descriptors in use stay open.                                           *)
LEMMA UseStays ==
  ASSUME DescriptorsHaveOneUse, UNCHANGED queue, watchers' \subseteq watchers,
         \A w \in watchers' : sock'[w[3]] # None,
         \A t \in Workers : \A i \in 1 .. Len(queue[t]) : sock'[queue[t][i]] # None
  PROVE  DescriptorsHaveOneUse'
BY DEF DescriptorsHaveOneUse

(* The lowest free descriptor is in no watcher and in no queue. *)
LEMMA AcceptUse ==
  ASSUME Core, DescriptorsHaveOneUse, NEW t \in Workers, Accept(t)
  PROVE  DescriptorsHaveOneUse'
<1> PICK p \in Peers \ seen, f \in {g \in Fds : sock[g] = None} :
      /\ sock' = [sock EXCEPT ![f] = p]
      /\ queue' = [queue EXCEPT ![t] = Append(@, f)]
      /\ UNCHANGED connVars
  BY DEF Accept
<1>1. p # None /\ f \in Fds /\ sock[f] = None /\ sock \in [Fds -> Peers \cup {None}]
      /\ queue \in [Workers -> Seq(Fds)] /\ watchers' = watchers
  BY DEF Peers, None, Core, TypeOK, connVars
<1>2. \A g \in Fds : sock[g] # None => sock'[g] # None
  BY <1>1
<1>3. \A w \in watchers : w[3] \in Fds /\ w[3] # f
  BY <1>1, WatcherParts DEF Core, DescriptorsHaveOneUse
<1>4. \A u \in Workers : \A i \in 1 .. Len(queue[u]) :
         queue[u][i] \in Fds /\ queue[u][i] # f
  BY <1>1 DEF DescriptorsHaveOneUse
<1>5. ASSUME NEW u \in Workers, NEW i \in 1 .. Len(queue'[u])
      PROVE  \/ i \in 1 .. Len(queue[u]) /\ queue'[u][i] = queue[u][i]
             \/ u = t /\ i = Len(queue[t]) + 1 /\ queue'[u][i] = f
  <2>1. CASE u # t
    BY <1>1, <1>5, <2>1
  <2>2. CASE u = t
    <3>1. queue[t] \in Seq(Fds) /\ queue'[t] = Append(queue[t], f)
      BY <1>1
    <3>2. PICK s \in Seq(Fds) : s = queue[t]
      BY <3>1
    <3>3. i \in 1 .. Len(Append(s, f))
      BY <1>5, <2>2, <3>1, <3>2
    <3>4. \/ i \in 1 .. Len(s) /\ Append(s, f)[i] = s[i]
          \/ i = Len(s) + 1 /\ Append(s, f)[i] = f
      BY <1>1, <3>3
    <3> QED
      BY <2>2, <3>1, <3>2, <3>4
  <2> QED
    BY <2>1, <2>2
<1>6. ASSUME NEW u \in Workers, NEW i \in 1 .. Len(queue'[u])
      PROVE  sock'[queue'[u][i]] # None /\ \A w \in watchers' : w[3] # queue'[u][i]
  <2>1. CASE i \in 1 .. Len(queue[u]) /\ queue'[u][i] = queue[u][i]
    BY <1>1, <1>2, <1>4, <2>1 DEF DescriptorsHaveOneUse
  <2>2. CASE queue'[u][i] = f
    BY <1>1, <1>3, <2>2
  <2> QED
    BY <1>5, <1>6, <2>1, <2>2
<1>7. ASSUME NEW u \in Workers, NEW i \in 1 .. Len(queue'[u]),
             NEW v \in Workers, NEW j \in 1 .. Len(queue'[v]),
             queue'[u][i] = queue'[v][j]
      PROVE  u = v /\ i = j
  <2>1. CASE queue'[u][i] = f
    <3>1. ~ (j \in 1 .. Len(queue[v]) /\ queue'[v][j] = queue[v][j])
      BY <1>4, <1>7, <2>1
    <3>2. ~ (i \in 1 .. Len(queue[u]) /\ queue'[u][i] = queue[u][i])
      BY <1>4, <2>1
    <3> QED
      BY <1>5, <1>7, <3>1, <3>2
  <2>2. CASE queue'[u][i] # f
    <3>1. i \in 1 .. Len(queue[u]) /\ queue'[u][i] = queue[u][i]
      BY <1>5, <1>7, <2>2
    <3>2. j \in 1 .. Len(queue[v]) /\ queue'[v][j] = queue[v][j]
      BY <1>5, <1>7, <2>2
    <3> QED
      BY <1>7, <3>1, <3>2 DEF DescriptorsHaveOneUse
  <2> QED
    BY <2>1, <2>2
<1>8. \A w \in watchers' : sock'[w[3]] # None
  BY <1>1, <1>2, <1>3 DEF DescriptorsHaveOneUse
<1>9. \A v, w \in watchers' : v[3] = w[3] => v = w
  BY <1>1 DEF DescriptorsHaveOneUse
<1> QED
  BY <1>6, <1>7, <1>8, <1>9 DEF DescriptorsHaveOneUse

(* A descriptor goes from a queue to a watcher. *)
LEMMA NewConnUse ==
  ASSUME Core, DescriptorsHaveOneUse, NEW t \in Workers, NewConn(t)
  PROVE  DescriptorsHaveOneUse'
<1>1. PICK f \in Fds : f = Head(queue[t])
  BY NewConnResult
<1>2. /\ queue \in [Workers -> Seq(Fds)] /\ queue[t] # <<>>
      /\ queue' = [queue EXCEPT ![t] = Tail(queue[t])]
      /\ sock' = sock /\ sock \in [Fds -> Peers \cup {None}]
      /\ \A w \in watchers' : w \in watchers \/ \E c : w = <<t, c, f>>
               /\ watchers' = watchers \cup {w}
  <2>1. watchers' = watchers \/ \E c \in Conns : watchers' = watchers \cup {<<t, c, f>>}
    BY <1>1, NewConnResult DEF connVars
  <2> QED
    BY <2>1, NewConnResult DEF Core, TypeOK
<1>3. PICK s \in Seq(Fds) : s = queue[t]
  BY <1>2
<1>4. s # <<>> /\ f = s[1] /\ 1 \in 1 .. Len(s) /\ queue'[t] = Tail(s)
  <2>1. s # <<>> /\ f = Head(s) /\ queue'[t] = Tail(s)
    BY <1>1, <1>2, <1>3
  <2> QED
    BY <2>1
<1>5. ASSUME NEW u \in Workers, NEW i \in 1 .. Len(queue'[u])
      PROVE  \E k \in 1 .. Len(queue[u]) :
               /\ queue'[u][i] = queue[u][k]
               /\ k = IF u = t THEN i + 1 ELSE i
               /\ queue'[u][i] # f
  <2>1. CASE u # t
    <3>1. queue'[u] = queue[u]
      BY <1>2, <2>1
    <3>2. queue[u][i] # queue[t][1]
      BY <1>3, <1>4, <1>5, <2>1, <3>1 DEF DescriptorsHaveOneUse
    <3> QED
      BY <1>3, <1>4, <1>5, <2>1, <3>1, <3>2
  <2>2. CASE u = t
    <3>1. i \in 1 .. Len(Tail(s))
      BY <1>4, <1>5, <2>2
    <3>2. i + 1 \in 1 .. Len(s) /\ Tail(s)[i] = s[i + 1] /\ i + 1 # 1
      BY <1>4, <3>1
    <3>3. s[i + 1] # s[1]
      BY <1>3, <1>4, <3>2 DEF DescriptorsHaveOneUse
    <3> QED
      BY <1>3, <1>4, <2>2, <3>2, <3>3
  <2> QED
    BY <2>1, <2>2
<1>6. \A w \in watchers : w[3] # f
  BY <1>3, <1>4 DEF DescriptorsHaveOneUse
<1>7. sock[f] # None
  BY <1>3, <1>4 DEF DescriptorsHaveOneUse
<1>8. \A v, w \in watchers' : v[3] = w[3] => v = w
  <2> SUFFICES ASSUME NEW v \in watchers', NEW w \in watchers', v[3] = w[3] PROVE v = w
    OBVIOUS
  <2>1. CASE v \in watchers /\ w \in watchers
    BY <2>1 DEF DescriptorsHaveOneUse
  <2>2. ASSUME NEW x \in watchers' PROVE x \in watchers \/ x[3] = f
    BY <1>2, <2>2
  <2>3. CASE v[3] = f
    BY <1>2, <1>6, <2>3
  <2> QED
    BY <1>6, <2>1, <2>2, <2>3
<1>9. \A w \in watchers' : sock'[w[3]] # None
  BY <1>2, <1>7 DEF DescriptorsHaveOneUse
<1>10. \A u \in Workers : \A i \in 1 .. Len(queue'[u]) :
         /\ sock'[queue'[u][i]] # None
         /\ \A w \in watchers' : w[3] # queue'[u][i]
  <2> SUFFICES ASSUME NEW u \in Workers, NEW i \in 1 .. Len(queue'[u])
               PROVE  /\ sock'[queue'[u][i]] # None
                      /\ \A w \in watchers' : w[3] # queue'[u][i]
    OBVIOUS
  <2>1. PICK k \in 1 .. Len(queue[u]) : queue'[u][i] = queue[u][k] /\ queue'[u][i] # f
    BY <1>5
  <2>2. sock[queue[u][k]] # None /\ \A w \in watchers : w[3] # queue[u][k]
    BY DEF DescriptorsHaveOneUse
  <2> QED
    BY <1>2, <2>1, <2>2
<1>11. ASSUME NEW u \in Workers, NEW i \in 1 .. Len(queue'[u]),
              NEW v \in Workers, NEW j \in 1 .. Len(queue'[v]),
              queue'[u][i] = queue'[v][j]
       PROVE  u = v /\ i = j
  <2>1. PICK k \in 1 .. Len(queue[u]) :
          queue'[u][i] = queue[u][k] /\ k = IF u = t THEN i + 1 ELSE i
    BY <1>5
  <2>2. PICK l \in 1 .. Len(queue[v]) :
          queue'[v][j] = queue[v][l] /\ l = IF v = t THEN j + 1 ELSE j
    BY <1>5
  <2>3. u = v /\ k = l
    <3>1. queue[u][k] = queue[v][l]
      BY <1>11, <2>1, <2>2
    <3> QED
      BY <3>1 DEF DescriptorsHaveOneUse
  <2>4. i \in Int /\ j \in Int
    OBVIOUS
  <2> QED
    BY <2>1, <2>2, <2>3, <2>4
<1> QED
  BY <1>8, <1>9, <1>10, <1>11 DEF DescriptorsHaveOneUse

(* The label of a failed write stays. *)
LEMMA UpsetGrows ==
  ASSUME [Next]_vars
  PROVE  /\ upset \subseteq upset'
         /\ \A t \in Threads : SendFails(t) => "write_failed" \in upset'
<1>1. \A c, why : Close(c, why) => upset \cup why \subseteq upset'
  BY DEF Close
<1>2. \A t \in Threads : SendFails(t) => "write_failed" \in upset'
  BY <1>1 DEF SendFails
<1>3. CASE UNCHANGED vars
  BY <1>2, <1>3 DEF vars
<1>4. CASE Next
  <2>1. \A t \in Threads, w \in watchers : ReadFails(t, w) => upset \subseteq upset'
    BY <1>1 DEF ReadFails
  <2>2. \A t \in Threads, w \in watchers : ReadMessage(t, w) => upset' = upset
    BY DEF ReadMessage
  <2>3. \A t \in Workers : NewConn(t) \/ Accept(t) => upset' = upset
    BY DEF NewConn, Accept
  <2>4. \A p \in Peers : HangUp(p) => upset' = upset
    BY DEF HangUp
  <2>5. SendRequest => upset' = upset
    BY DEF SendRequest
  <2>6. \A t \in Threads : Sent(t) => upset' = upset
    BY DEF Sent
  <2>7. \A t \in Threads : SendFails(t) => upset \subseteq upset'
    BY <1>1 DEF SendFails
  <2>8. \A t \in Threads : Thread(t) => upset \subseteq upset'
    BY <2>1, <2>2, <2>3, <2>6, <2>7 DEF Thread
  <2> QED
    BY <1>2, <1>4, <2>3, <2>4, <2>5, <2>8 DEF Next
<1> QED
  BY <1>3, <1>4

(* A worker that sends is busy, so its loop closes nothing meanwhile, and  *)
(* what it takes from its queue is another structure.                      *)
LEMMA ReadFailsOwned ==
  ASSUME Core, DescriptorsHaveOneUse, SendersAreWatching,
         NEW t \in Threads, NEW w \in watchers, ReadFails(t, w)
  PROVE  DescriptorsHaveOneUse' /\ SendersAreWatching'
<1>1. PICK c \in malloced : c = w[2] /\ loop[c] = t /\ sfd[c] = w[3] /\ c \in Conns
  BY WatcherParts DEF Core, WatchersAgree, TypeOK, ReadFails, Ready
<1>2. Close(c, {}) /\ UNCHANGED <<malloced, sfd, netVars, th>> /\ th[t] = Idle
  BY <1>1 DEF ReadFails, Ready
<1>3. UNCHANGED <<malloced, sfd, seen, queue, th>>
  BY <1>2 DEF netVars
<1>4. /\ watchers' = {v \in watchers : v[2] # c} /\ Watched' = Watched \ {c}
      /\ \A f \in Fds : sock'[f] # sock[f] => f = w[3]
      /\ \A d \in Conns : d # c => loop'[d] = loop[d]
  BY <1>1, <1>2, <1>3, CloseResult DEF Core
<1>5. \A v \in watchers' : v \in watchers /\ v[3] # w[3] /\ v[3] \in Fds
  BY <1>1, <1>4, WatcherParts DEF DescriptorsHaveOneUse, Core
<1>6. \A v \in watchers' : sock'[v[3]] # None
  BY <1>4, <1>5 DEF DescriptorsHaveOneUse
<1>7. \A u \in Workers : \A i \in 1 .. Len(queue[u]) : sock'[queue[u][i]] # None
  <2>1. queue \in [Workers -> Seq(Fds)]
    BY DEF Core, TypeOK
  <2>2. \A u \in Workers : \A i \in 1 .. Len(queue[u]) :
          queue[u][i] \in Fds /\ queue[u][i] # w[3] /\ sock[queue[u][i]] # None
    BY <2>1 DEF DescriptorsHaveOneUse
  <2> QED
    BY <1>4, <2>2
<1>8. DescriptorsHaveOneUse'
  BY <1>3, <1>5, <1>6, <1>7, UseStays
<1>9. SendersAreWatching'
  <2> SUFFICES ASSUME NEW u \in Workers, th[u].pc = "send"
               PROVE  th[u].conn \in Watched' /\ loop'[th[u].conn] = u
    BY <1>3 DEF SendersAreWatching
  <2>1. th[u].conn \in Watched /\ loop[th[u].conn] = u
    BY DEF SendersAreWatching
  <2>2. u # t
    BY <1>2 DEF Idle
  <2>3. th[u].conn # c /\ th[u].conn \in Conns
    BY <1>1, <2>1, <2>2, WatchedHasDescriptor DEF Core
  <2> QED
    BY <1>4, <2>1, <2>3
<1> QED
  BY <1>8, <1>9

(* The structure of a worker that sends is watched, hence not given out. *)
LEMMA NewConnOwned ==
  ASSUME Core, DescriptorsHaveOneUse, SendersAreWatching, NEW t \in Workers, NewConn(t)
  PROVE  DescriptorsHaveOneUse' /\ SendersAreWatching'
<1>1. th' = th /\ Watched \subseteq Watched' /\ \A d \in Watched : loop'[d] = loop[d]
  <2>1. th' = th
    BY NewConnResult
  <2>2. CASE UNCHANGED connVars
    BY <2>1, <2>2 DEF connVars, Watched
  <2>3. ASSUME NEW c \in Conns, c \notin Watched, loop' = [loop EXCEPT ![c] = t],
               watchers' = watchers \cup {<<t, c, Head(queue[t])>>}
        PROVE  Watched \subseteq Watched' /\ \A d \in Watched : loop'[d] = loop[d]
    <3>1. Watched \subseteq Watched'
      BY <2>3 DEF Watched
    <3>2. \A d \in Watched : d \in Conns /\ d # c
      BY <2>3, WatchedHasDescriptor DEF Core
    <3>3. loop \in [Conns -> Loops \cup {NULL}]
      BY DEF Core, TypeOK
    <3> QED
      BY <2>3, <3>1, <3>2, <3>3
  <2> QED
    BY <2>1, <2>2, <2>3, NewConnResult
<1>2. SendersAreWatching'
  BY <1>1 DEF SendersAreWatching
<1> QED
  BY <1>2, NewConnUse

(* Owned is preserved by every step. *)
LEMMA OwnedStep ==
  ASSUME Core, Owned, [Next]_vars PROVE Owned'
<1> SUFFICES ASSUME "write_failed" \notin upset'
             PROVE  DescriptorsHaveOneUse' /\ SendersAreWatching'
  BY DEF Owned
<1>1. DescriptorsHaveOneUse /\ SendersAreWatching /\ \A t \in Threads : ~ SendFails(t)
  BY UpsetGrows DEF Owned
<1>2. ASSUME UNCHANGED <<connVars, sock, queue>> PROVE DescriptorsHaveOneUse'
  BY <1>1, <1>2 DEF connVars, DescriptorsHaveOneUse
<1>3. ASSUME UNCHANGED connVars, \A u \in Workers : th'[u] = th[u] \/ th'[u].pc = "idle"
      PROVE  SendersAreWatching'
  BY <1>1, <1>3 DEF connVars, SendersAreWatching, Watched
<1>4. th \in [Threads -> [pc : {"idle", "send"}, conn : Conns \cup {NULL},
                          peer : Peers \cup {None}, failed : BOOLEAN]]
  BY DEF Core, TypeOK
<1>5. CASE UNCHANGED vars
  BY <1>2, <1>3, <1>5 DEF vars, netVars
<1>6. ASSUME NEW t \in Workers, Accept(t) PROVE DescriptorsHaveOneUse' /\ SendersAreWatching'
  <2>1. UNCHANGED <<connVars, th>>
    BY <1>6 DEF Accept
  <2> QED
    BY <1>1, <1>3, <1>6, <2>1, AcceptUse
<1>7. ASSUME NEW p \in Peers, HangUp(p) PROVE DescriptorsHaveOneUse' /\ SendersAreWatching'
  BY <1>2, <1>3, <1>7 DEF HangUp
<1>8. ASSUME SendRequest PROVE DescriptorsHaveOneUse' /\ SendersAreWatching'
  <2>1. PICK e \in req_conns : th' = [th EXCEPT ![Writer] = Sending(e[1], e[2])]
    BY <1>8 DEF SendRequest
  <2>2. \A u \in Workers : th'[u] = th[u]
    BY <2>1, ConnAssumption
  <2> QED
    BY <1>2, <1>3, <1>8, <2>2 DEF SendRequest, netVars
<1>9. ASSUME NEW t \in Threads, Sent(t) PROVE DescriptorsHaveOneUse' /\ SendersAreWatching'
  <2>1. th' = [th EXCEPT ![t] = Idle] /\ th'[t] = Idle /\ Idle.pc = "idle"
    BY <1>4, <1>9 DEF Sent, Idle
  <2>2. \A u \in Workers : th'[u] = th[u] \/ th'[u].pc = "idle"
    BY <1>4, <2>1
  <2> QED
    BY <1>2, <1>3, <1>9, <2>2 DEF Sent, netVars
<1>10. ASSUME NEW t \in Threads, NEW w \in watchers, ReadMessage(t, w)
       PROVE  DescriptorsHaveOneUse' /\ SendersAreWatching'
  <2>1. /\ UNCHANGED <<connVars, sock, queue>>
        /\ \/ th' = th
           \/ th' = [th EXCEPT ![t] = Sending(w[2], sock[sfd[w[2]]])]
    BY <1>10 DEF ReadMessage
  <2>2. w[2] \in Watched /\ loop[w[2]] = t
    BY <1>10, WatcherParts DEF Core, WatchersAgree, ReadMessage, Ready
  <2>3. \A u \in Threads : th'[u] = th[u] \/ (u = t /\ th'[u].conn = w[2])
    <3>1. PICK c, p : c = w[2] /\ p = sock[sfd[w[2]]]
      OBVIOUS
    <3>2. Sending(c, p).conn = c
      BY DEF Sending
    <3>3. \A u \in Threads : th'[u] = th[u] \/ (u = t /\ th'[u] = Sending(c, p))
      <4>1. DOMAIN th = Threads /\ (th' = th \/ th' = [th EXCEPT ![t] = Sending(c, p)])
        BY <1>4, <2>1, <3>1
      <4> QED
        BY <4>1
    <3> QED
      BY <3>1, <3>2, <3>3
  <2>4. Watched' = Watched /\ loop' = loop
    BY <2>1 DEF connVars, Watched
  <2>5. SendersAreWatching'
    BY <1>1, <2>2, <2>3, <2>4 DEF SendersAreWatching, Threads
  <2> QED
    BY <1>2, <2>1, <2>5
<1>11. CASE Next
  BY <1>1, <1>6, <1>7, <1>8, <1>9, <1>10, <1>11, NewConnOwned, ReadFailsOwned DEF Next, Thread
<1> QED
  BY <1>5, <1>11

(* What a worker that sends leads to stays what it was: its descriptor is  *)
(* neither closed nor replaced as long as the worker is busy.              *)
LEMMA ReachStays ==
  ASSUME NEW u \in Workers, WorkersReachTheirPeer, th'[u] = th[u],
         sfd'[th[u].conn] = sfd[th[u].conn],
         sfd[th[u].conn] # None => sock'[sfd[th[u].conn]] = sock[sfd[th[u].conn]]
  PROVE  th'[u].pc = "send" => Target(u)' = th'[u].peer
BY DEF WorkersReachTheirPeer, Target

LEMMA ReachedStep ==
  ASSUME Core, Owned, Reached, [Next]_vars PROVE Reached'
<1> SUFFICES ASSUME "write_failed" \notin upset', NEW u \in Workers, th'[u].pc = "send"
             PROVE  Target(u)' = th'[u].peer
  BY DEF Reached, WorkersReachTheirPeer
<1>1. /\ DescriptorsHaveOneUse /\ SendersAreWatching /\ WorkersReachTheirPeer
      /\ \A t \in Threads : ~ SendFails(t)
  BY UpsetGrows DEF Owned, Reached
<1>2. /\ th \in [Threads -> [pc : {"idle", "send"}, conn : Conns \cup {NULL},
                             peer : Peers \cup {None}, failed : BOOLEAN]]
      /\ sfd \in [Conns -> Fds \cup {None}] /\ sock \in [Fds -> Peers \cup {None}]
      /\ None \notin Fds /\ u \in Threads
  BY DEF Core, TypeOK, Fds, None, Threads
<1>3. ASSUME th[u].pc = "send"
      PROVE  /\ th[u].conn \in Watched /\ th[u].conn \in Conns /\ loop[th[u].conn] = u
             /\ sfd[th[u].conn] \in Fds /\ sock[sfd[th[u].conn]] # None
             /\ \E v \in watchers : v[2] = th[u].conn /\ v[3] = sfd[th[u].conn]
  <2>1. th[u].conn \in Watched /\ loop[th[u].conn] = u
    BY <1>1, <1>3 DEF SendersAreWatching
  <2>2. PICK v \in watchers : v[2] = th[u].conn /\ v[3] = sfd[th[u].conn]
    BY <2>1 DEF Watched, Core, WatchersAgree
  <2>3. sock[v[3]] # None
    BY <1>1 DEF DescriptorsHaveOneUse
  <2> QED
    BY <2>1, <2>2, <2>3, WatchedHasDescriptor DEF Core
<1>4. ASSUME UNCHANGED <<sfd, sock>>, th'[u] = th[u] PROVE Target(u)' = th'[u].peer
  BY <1>1, <1>4, ReachStays
<1>5. ASSUME NEW t \in Workers, Accept(t) PROVE Target(u)' = th'[u].peer
  <2> PICK p \in Peers \ seen, f \in {g \in Fds : sock[g] = None} :
        sock' = [sock EXCEPT ![f] = p] /\ sfd' = sfd /\ th' = th
    BY <1>5 DEF Accept, connVars
  <2>1. sock'[sfd[th[u].conn]] = sock[sfd[th[u].conn]]
    BY <1>2, <1>3
  <2> QED
    BY <1>1, <2>1, ReachStays
<1>6. ASSUME NEW t \in Workers, NewConn(t) PROVE Target(u)' = th'[u].peer
  <2>1. th' = th /\ sock' = sock
    BY <1>6, NewConnResult
  <2>2. CASE UNCHANGED connVars
    BY <1>4, <2>1, <2>2 DEF connVars
  <2>3. ASSUME NEW c \in Conns, c \notin Watched, sfd' = [sfd EXCEPT ![c] = Head(queue[t])]
        PROVE  Target(u)' = th'[u].peer
    <3>1. sfd'[th[u].conn] = sfd[th[u].conn]
      BY <1>2, <1>3, <2>1, <2>3
    <3> QED
      BY <1>1, <2>1, <3>1, ReachStays
  <2> QED
    BY <1>6, <2>2, <2>3, NewConnResult
<1>7. ASSUME NEW t \in Threads, NEW w \in watchers, ReadFails(t, w)
      PROVE  Target(u)' = th'[u].peer
  <2>1. PICK c \in malloced : c = w[2] /\ loop[c] = t /\ sfd[c] = w[3] /\ c \in Conns
    BY <1>7, WatcherParts DEF Core, WatchersAgree, TypeOK, ReadFails, Ready
  <2>2. Close(c, {}) /\ UNCHANGED <<malloced, sfd, seen, th>> /\ th[t] = Idle
    BY <1>7, <2>1 DEF ReadFails, Ready, netVars
  <2>3. \A f \in Fds : sock'[f] # sock[f] => f = w[3]
    BY <2>1, <2>2, CloseResult DEF Core
  <2>4. th[u].conn # c
    BY <1>3, <2>1, <2>2 DEF Idle
  <2>5. sfd[th[u].conn] # w[3]
    BY <1>1, <1>3, <2>1, <2>2, <2>4 DEF DescriptorsHaveOneUse
  <2>6. sock'[sfd[th[u].conn]] = sock[sfd[th[u].conn]]
    BY <1>3, <2>2, <2>3, <2>5
  <2> QED
    BY <1>1, <2>2, <2>6, ReachStays
<1>8. ASSUME NEW t \in Threads, NEW w \in watchers, ReadMessage(t, w)
      PROVE  Target(u)' = th'[u].peer
  <2>1. PICK c, p : c = w[2] /\ p = sock[sfd[c]]
    OBVIOUS
  <2>2. /\ UNCHANGED <<sfd, sock>>
        /\ th' = th \/ th' = [th EXCEPT ![t] = Sending(c, p)]
    BY <1>8, <2>1 DEF ReadMessage, connVars
  <2>3. th'[u] = th[u] \/ th'[u] = Sending(c, p)
    BY <1>2, <2>2
  <2>4. c \in Watched /\ sfd[c] \in Fds
    BY <2>1, WatcherParts, WatchedHasDescriptor DEF Core
  <2>5. CASE th'[u] = Sending(c, p)
    BY <1>2, <2>1, <2>2, <2>4, <2>5 DEF Target, Sending
  <2> QED
    BY <1>4, <2>2, <2>3, <2>5
<1>9. ASSUME NEW t \in Threads, Sent(t) PROVE Target(u)' = th'[u].peer
  <2>1. th'[u] = th[u] \/ th'[u] = Idle
    BY <1>2, <1>9 DEF Sent
  <2>2. th'[u] = th[u]
    BY <2>1 DEF Idle
  <2> QED
    BY <1>4, <1>9, <2>2 DEF Sent, connVars
<1>10. CASE SendRequest
  <2>1. PICK e \in req_conns : th' = [th EXCEPT ![Writer] = Sending(e[1], e[2])]
    BY <1>10 DEF SendRequest
  <2>2. th'[u] = th[u]
    BY <1>2, <2>1, ConnAssumption
  <2> QED
    BY <1>4, <1>10, <2>2 DEF SendRequest, connVars
<1>11. CASE UNCHANGED vars \/ \E p \in Peers : HangUp(p)
  BY <1>4, <1>11 DEF vars, HangUp, connVars
<1> QED
  BY <1>1, <1>5, <1>6, <1>7, <1>8, <1>9, <1>10, <1>11 DEF Next, Thread

-----------------------------------------------------------------------------
(* What is on the free list is free, until it has held three.              *)

(* What is pushed was watched until then, hence not on the list. *)
LEMMA ReadFailsListed ==
  ASSUME Core, ListedAreFree, NEW t \in Threads, NEW w \in watchers, ReadFails(t, w),
         "three_listed" \notin upset'
  PROVE  ListedAreFree'
<1>1. PICK c \in malloced : c = w[2] /\ c \in Conns /\ c \in Watched
  BY WatcherParts DEF Core, WatchersAgree
<1>2. Close(c, {}) /\ UNCHANGED <<malloced, sfd, seen>> /\ Push(c)
  BY <1>1 DEF ReadFails, netVars, Close
<1>3. Watched' = Watched \ {c}
  BY <1>2, CloseResult DEF Core
<1>4. freecurr \in Nat /\ freecurr' \in Nat
  <2>1. PICK k \in Nat, l \in Nat : k = FreeTotalNow /\ l = FreeTotalNow'
    BY <1>2, CloseKeepsList DEF Core, TypeOK
  <2>2. freecurr \in 0 .. k /\ freecurr' \in 0 .. l
    BY <1>2, <2>1, CloseKeepsList DEF Core, TypeOK
  <2> QED
    BY <2>2
<1>5. PICK n \in Nat, m \in Nat :
        n = freecurr /\ m = freecurr' /\ (m = n \/ m = n + 1) /\ m <= 2
  <2>1. freecurr' \in {freecurr, freecurr + 1}
    BY <1>1, <1>2, PushResult DEF Core
  <2>2. freecurr' <= 2
    BY <1>2, <1>4 DEF Close
  <2> QED
    BY <1>4, <2>1, <2>2
<1>6. /\ popped' = FALSE
      /\ \A i \in 0 .. (n - 1) : data'[i] = data[i]
      /\ m = n + 1 => data'[n] = c
  BY <1>1, <1>2, <1>5, PushResult DEF Core
<1>7. \A i \in 0 .. (n - 1) : data[i] \notin Watched
  BY <1>5 DEF ListedAreFree
<1>8. ASSUME NEW i \in 0 .. (m - 1) PROVE data'[i] \notin Watched'
  <2>1. i \in 0 .. (n - 1) \/ (i = n /\ m = n + 1)
    <3>1. m = n \/ m = n + 1
      BY <1>5
    <3> QED
      BY <3>1
  <2> QED
    BY <1>3, <1>6, <1>7, <2>1
<1>9. ASSUME m = 2 PROVE data'[0] # data'[1]
  <2>1. CASE n = 2
    <3>1. 0 \in 0 .. (n - 1) /\ 1 \in 0 .. (n - 1)
      BY <2>1
    <3> QED
      BY <1>5, <1>6, <2>1, <3>1 DEF ListedAreFree
  <2>2. CASE n = 1
    <3>1. 0 \in 0 .. (n - 1) /\ m = n + 1
      BY <1>9, <2>2
    <3> QED
      BY <1>1, <1>6, <1>7, <2>2, <3>1
  <2> QED
    BY <1>5, <1>9, <2>1, <2>2
<1> QED
  BY <1>5, <1>6, <1>8, <1>9 DEF ListedAreFree

(* A pop that succeeds below the third place leaves the list empty. *)
LEMMA NewConnListed ==
  ASSUME Core, ListedAreFree, NEW t \in Workers, NewConn(t),
         "three_listed" \notin upset
  PROVE  ListedAreFree'
<1>1. TypeOK /\ ListIsWritten
  BY DEF Core
<1>2. PICK n \in Nat, m \in Nat, k \in Nat :
        /\ n = freecurr /\ m = freecurr' /\ (m = IF n = 0 THEN 0 ELSE n - 1)
        /\ k = FreeTotalNow /\ n <= k /\ n <= 2
  <2>1. PICK k \in Nat : k = FreeTotalNow
    BY <1>1 DEF TypeOK
  <2>2. freecurr \in 0 .. k /\ freecurr' = IF freecurr = 0 THEN 0 ELSE freecurr - 1
    BY <1>1, <2>1, PopResult, NewConnResult DEF TypeOK
  <2>3. freecurr <= 2
    BY <1>1 DEF ListIsWritten
  <2> QED
    BY <2>1, <2>2, <2>3
<1>3. /\ data' = data /\ DOMAIN data = 0 .. (k - 1)
      /\ \A i \in 0 .. (n - 1) : data[i] \in Conns /\ data[i] \notin Watched /\ i \in DOMAIN data
      /\ \A i \in DOMAIN data : data[i] \in Conns => data[i] \in malloced
      /\ \A i \in DOMAIN data : i >= 2 => data[i] \notin Conns
  <2>1. data' = data
    BY NewConnResult
  <2>2. DOMAIN data = 0 .. (k - 1)
    BY <1>1, <1>2 DEF TypeOK
  <2>3. \A i \in 0 .. (n - 1) : i \in 0 .. (k - 1)
    BY <1>2
  <2> QED
    BY <1>1, <1>2, <2>1, <2>2, <2>3 DEF ListIsWritten, ListedAreFree
<1>4. ASSUME n = 2, NEW i \in {0, 1} PROVE data[i] \notin Watched'
  <2>1. i \in 0 .. (n - 1)
    BY <1>4
  <2>2. CASE UNCHANGED connVars
    BY <1>3, <2>1, <2>2 DEF connVars, Watched
  <2>3. ASSUME NEW got \in PopResults, NEW c \in Conns, c = got \/ c \notin malloced,
               watchers' = watchers \cup {<<t, c, Head(queue[t])>>}
        PROVE  data[i] \notin Watched'
    <3>1. c \notin malloced
      <4> SUFFICES ASSUME c = got PROVE FALSE
        BY <2>3
      <4>1. freecurr \in DOMAIN data /\ got = data[freecurr]
        BY <1>1, PopResult
      <4> QED
        BY <1>2, <1>3, <1>4, <4>1
    <3>2. data[i] # c
      BY <1>3, <2>1, <3>1
    <3>3. Watched' = Watched \cup {c}
      <4>1. PICK f : f = Head(queue[t])
        OBVIOUS
      <4>2. watchers' = watchers \cup {<<t, c, f>>} /\ <<t, c, f>>[2] = c
        BY <2>3, <4>1
      <4> QED
        BY <4>2 DEF Watched
    <3> QED
      BY <1>3, <2>1, <3>2, <3>3
  <2> QED
    BY <2>2, <2>3, NewConnResult
<1>5. \A i \in 0 .. (m - 1) : data'[i] \notin Watched'
  <2> SUFFICES ASSUME NEW i \in 0 .. (m - 1) PROVE data'[i] \notin Watched'
    OBVIOUS
  <2>1. n = 2 /\ i = 0
    BY <1>2
  <2> QED
    BY <1>3, <1>4, <2>1
<1>6. ASSUME m = 1 PROVE 1 \in DOMAIN data' /\ data'[1] \in Conns /\ data'[1] \notin Watched'
  <2>1. n = 2 /\ 1 \in 0 .. (n - 1)
    BY <1>2, <1>6
  <2> QED
    BY <1>3, <1>4, <2>1
<1>7. m # 2
  BY <1>2
<1> QED
  BY <1>2, <1>5, <1>6, <1>7 DEF ListedAreFree

(* Listed is preserved by every step. *)
LEMMA ListedStep ==
  ASSUME Core, Listed, [Next]_vars PROVE Listed'
<1> SUFFICES ASSUME "write_failed" \notin upset', "three_listed" \notin upset'
             PROVE  ListedAreFree'
  BY DEF Listed
<1>1. "three_listed" \notin upset /\ ListedAreFree /\ \A t \in Threads : ~ SendFails(t)
  BY UpsetGrows DEF Listed
<1>2. ASSUME UNCHANGED <<listVars, connVars>> PROVE ListedAreFree'
  BY <1>1, <1>2 DEF listVars, connVars, ListedAreFree, Watched
<1>3. CASE UNCHANGED vars
  BY <1>2, <1>3 DEF vars
<1>4. CASE \E t \in Workers : Accept(t)
  BY <1>2, <1>4 DEF Accept
<1>5. CASE SendRequest \/ \E p \in Peers : HangUp(p)
  BY <1>2, <1>5 DEF SendRequest, HangUp
<1>6. CASE \E t \in Threads : Sent(t) \/ \E w \in watchers : ReadMessage(t, w)
  BY <1>2, <1>6 DEF Sent, ReadMessage
<1>7. CASE \E t \in Threads : (t \in Workers /\ NewConn(t)) \/ \E w \in watchers : ReadFails(t, w)
  BY <1>1, <1>7, NewConnListed, ReadFailsListed
<1> QED
  BY <1>1, <1>3, <1>4, <1>5, <1>6, <1>7 DEF Next, Thread

-----------------------------------------------------------------------------
(* The layers are the invariant. *)
LEMMA IInvParts == IInv <=> Core /\ LivePeersAreConnected /\ Owned /\ Reached /\ Listed
BY DEF IInv, Core, Owned, Reached, Listed

(* A structure is watched in its own loop and answered on by the worker of *)
(* that loop.                                                              *)
LEMMA UsersAreTheLoop ==
  ASSUME Core, SendersAreWatching, NEW c \in Conns
  PROVE  /\ Users(c) \subseteq {loop[c]}
         /\ c \notin Watched => Users(c) = {}
<1>1. \A w \in watchers : w[2] = c => w[1] = loop[c] /\ c \in Watched
  BY DEF Core, WatchersAgree, Watched
<1>2. \A t \in Workers : th[t].pc = "send" /\ th[t].conn = c => t = loop[c] /\ c \in Watched
  BY DEF SendersAreWatching
<1> QED
  BY <1>1, <1>2 DEF Users

(* The invariant implies that connections have one owner. *)
LEMMA OwnersFollow == ASSUME IInv PROVE OneOwner
<1> SUFFICES ASSUME "write_failed" \notin upset
             PROVE  /\ \A c \in Conns : Cardinality(Users(c)) <= 1
                    /\ "three_listed" \notin upset => \A c \in OnList : Users(c) = {}
                    /\ \A v, w \in watchers : v[2] = w[2] \/ v[3] = w[3] => v = w
                    /\ \A w \in watchers : sfd[w[2]] = w[3] /\ sock[w[3]] # None
  BY DEF OneOwner
<1>1. Core /\ DescriptorsHaveOneUse /\ SendersAreWatching
      /\ ("three_listed" \notin upset => ListedAreFree)
  BY IInvParts DEF Owned, Listed
<1>2. ASSUME NEW c \in Conns PROVE Cardinality(Users(c)) <= 1
  <2>1. PICK l : l = loop[c]
    OBVIOUS
  <2>2. Users(c) = {} \/ Users(c) = {l}
    BY <1>1, <2>1, UsersAreTheLoop
  <2>3. Cardinality({}) = 0 /\ Cardinality({l}) = 1
    BY FS_EmptySet, FS_Singleton
  <2> QED
    BY <2>2, <2>3
<1>3. ASSUME "three_listed" \notin upset, NEW c \in OnList PROVE Users(c) = {}
  <2>1. PICK i \in 0 .. (freecurr - 1) : c = data[i]
    BY DEF OnList
  <2>2. c \in Conns /\ c \notin Watched
    BY <1>1, <1>3, <2>1 DEF Core, ListIsWritten, ListedAreFree
  <2> QED
    BY <1>1, <2>2, UsersAreTheLoop
<1>4. ASSUME NEW v \in watchers, NEW w \in watchers, v[2] = w[2] \/ v[3] = w[3] PROVE v = w
  <2>1. CASE v[2] = w[2]
    <3>1. v[1] = w[1] /\ v[3] = w[3]
      BY <1>1, <2>1 DEF Core, WatchersAgree
    <3>2. v = <<v[1], v[2], v[3]>> /\ w = <<w[1], w[2], w[3]>>
      BY <1>1, WatcherParts DEF Core
    <3> QED
      BY <2>1, <3>1, <3>2
  <2>2. CASE v[3] = w[3]
    BY <1>1, <2>2 DEF DescriptorsHaveOneUse
  <2> QED
    BY <1>4, <2>1, <2>2
<1>5. \A w \in watchers : sfd[w[2]] = w[3] /\ sock[w[3]] # None
  BY <1>1 DEF Core, WatchersAgree, DescriptorsHaveOneUse
<1> QED
  BY <1>2, <1>3, <1>4, <1>5

(* The invariant is inductive. *)
LEMMA InductiveStep == ASSUME IInv, [Next]_vars PROVE IInv'
<1>1. Core' /\ LivePeersAreConnected' /\ Owned' /\ Reached' /\ Listed'
  BY IInvParts, CoreStep, LiveStep, OwnedStep, ReachedStep, ListedStep
<1> QED
  BY <1>1 DEF IInv, Core, Owned, Reached, Listed

(* The inductive invariant of the connections, its types with it: what a   *)
(* loop watches, the way to a peer and the array of the free list, always; *)
(* one use of a descriptor and one thread for a connection, as long as no  *)
(* write failed; a free list of free structures, until it has held three.  *)
THEOREM IInvHolds == Spec => []IInv
<1>1. Init => IInv
  BY InitCore, InitOwned, InitLive, IInvParts
<1>2. IInv /\ [Next]_vars => IInv'
  BY InductiveStep
<1> QED
  BY <1>1, <1>2, PTL DEF Spec

(* A connection has one owner and one descriptor, as long as no write      *)
(* failed, and is not on the free list meanwhile, until that has held      *)
(* three (rpc_conn.h:30).                                                  *)
THEOREM ConnectionsHaveOneOwner == Spec => []OneOwner
<1>1. IInv => OneOwner
  BY OwnersFollow
<1> QED
  BY <1>1, IInvHolds, PTL

-----------------------------------------------------------------------------
(* The bug of the free list: when a pop hands out what is in use.          *)
LEMMA PopStep ==
  ASSUME IInv, Next, NEW t \in Workers, NewConn(t), crashed', "write_failed" \notin upset
  PROVE  \/ freecurr \notin DOMAIN data \/ "three_listed" \in upset
         \/ ("two_listed" \in upset /\ ~ popped)
<1> SUFFICES ASSUME freecurr \in DOMAIN data, "three_listed" \notin upset
             PROVE  "two_listed" \in upset /\ ~ popped
  OBVIOUS
<1>1. Core /\ TypeOK /\ ListIsWritten /\ ListedAreFree /\ ~ crashed
  BY IInvParts DEF Core, Listed, Next
<1>2. PICK got \in PopResults : got = Wild \/ got \in Watched
  <2>1. \E got \in PopResults : got = Wild \/ got \in Watched \/ crashed' = crashed
    BY <1>1, NewConnResult
  <2> QED
    BY <1>1, <2>1
<1>3. got \notin {NULL}
  BY <1>1, <1>2, ConnAssumption, WatchedHasDescriptor DEF Core
<1>4. freecurr # 0 /\ got = data[freecurr]
  BY <1>2, <1>3 DEF PopResults
<1>5. PICK n \in Nat : n = freecurr /\ n <= 2 /\ n >= 1
  <2>1. PICK k \in Nat : k = FreeTotalNow
    BY <1>1 DEF TypeOK
  <2>2. freecurr \in 0 .. k /\ freecurr <= 2
    BY <1>1, <2>1 DEF TypeOK, ListIsWritten
  <2> QED
    BY <1>4, <2>2
<1>6. "two_listed" \in upset
  <2> SUFFICES ASSUME "two_listed" \notin upset PROVE FALSE
    OBVIOUS
  <2>1. data[n] = NULL
    BY <1>1, <1>5 DEF ListIsWritten
  <2> QED
    BY <1>3, <1>4, <1>5, <2>1
<1>7. ~ popped
  <2> SUFFICES ASSUME popped PROVE FALSE
    OBVIOUS
  <2>1. freecurr <= 1
    BY <1>1 DEF ListIsWritten
  <2>2. n = 1
    BY <1>5, <2>1
  <2>3. data[1] \in Conns /\ data[1] \notin Watched
    BY <1>1, <1>5, <2>2 DEF ListedAreFree
  <2> QED
    BY <1>2, <1>4, <1>5, <2>2, <2>3, ConnAssumption
<1> QED
  BY <1>6, <1>7

(* A pop that hands out a structure in use, or wild memory, reads beyond a *)
(* full array, or follows a push, or the list has held three connections   *)
(* before (rpc_conn.c:45).                                                 *)
THEOREM PopsAreSafe == Spec => PopAfterPopIsSafe
<1> DEFINE Safe ==
      \A t \in Workers :
        NewConn(t) /\ crashed' /\ "write_failed" \notin upset =>
          \/ freecurr \notin DOMAIN data \/ "three_listed" \in upset
          \/ "two_listed" \in upset /\ ~ popped
<1>1. IInv /\ [Next]_vars => [Safe]_vars
  BY PopStep
<1> QED
  BY <1>1, IInvHolds, PTL DEF Spec, PopAfterPopIsSafe

-----------------------------------------------------------------------------
(* A peer that has not hung up is connected, so the structure a thread     *)
(* holds for it still leads to it; and a worker's leads to its peer as     *)
(* long as no write failed.                                                *)
LEMMA SentStep ==
  ASSUME IInv, NEW t \in Threads, Sent(t)
  PROVE  \/ Target(t) = th[t].peer
         \/ /\ th[t].peer \in gone
            /\ t \notin Workers \/ "write_failed" \in upset
<1>1. Core /\ LivePeersAreConnected /\ Reached
  BY IInvParts
<1>2. th[t].pc = "send" /\ Target(t) # None
  BY DEF Sent
<1>3. IsWayTo(th[t].conn, th[t].peer)
  BY <1>1, <1>2 DEF Core, SendersKnowTheirPeer
<1>4. th[t].peer \notin gone => sock[sfd[th[t].conn]] = th[t].peer
  BY <1>1, <1>3 DEF IsWayTo, LivePeersAreConnected
<1>5. Target(t) = sock[sfd[th[t].conn]]
  BY <1>2 DEF Target
<1>6. t \in Workers /\ "write_failed" \notin upset => Target(t) = th[t].peer
  BY <1>1, <1>2 DEF Reached, WorkersReachTheirPeer
<1> QED
  BY <1>4, <1>5, <1>6

(* A message goes to the peer it is for, unless that has hung up and the   *)
(* sender is the write thread or a write failed (rpc_conn.c:292, 370-375). *)
THEOREM MessagesGoToTheirPeer == Spec => MessagesReachTheirPeer
<1> DEFINE Reach ==
      \A t \in Threads : Sent(t) =>
        \/ Target(t) = th[t].peer
        \/ /\ th[t].peer \in gone
           /\ t \notin Workers \/ "write_failed" \in upset
<1>1. IInv /\ [Next]_vars => [Reach]_vars
  BY SentStep
<1> QED
  BY <1>1, IInvHolds, PTL DEF Spec, MessagesReachTheirPeer
=============================================================================
