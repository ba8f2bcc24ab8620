------------------------------ MODULE ConnPool ------------------------------
(***************************************************************************)
(* The life of connections: rpc_conn structures that go through a free     *)
(* list shared by the whole process, descriptors that the kernel gives out *)
(* again as soon as they are closed, and the threads that use both: server *)
(* workers, and the read and the write thread of a client in the same      *)
(* process (sample/openrpc.c runs both).                                   *)
(*                                                                         *)
(* A peer is the other end of one accepted or connected socket.  Messages  *)
(* are not modelled, only where they go; what a worker writes is meant for *)
(* the peer whose request it has read.                                     *)
(***************************************************************************)
EXTENDS Integers, Sequences, FiniteSets

CONSTANTS
  Conns,     \* the rpc_conn structures malloc may return: a bound
  Workers,   \* the worker threads
  Reader, Writer, \* the two threads of the client
  NClient,   \* CLIENT_CONN_NUM
  MaxPeers,  \* bound on the sockets there ever are, the client's first
  MaxAsked,  \* bound on the requests
  NFds,      \* bound on the descriptors open at a time
  FreeTotal, \* the first value of freetotal
  MaxTotal,  \* bound on freetotal: beyond it realloc fails
  NULL,
  Wild       \* what is in memory nobody has written to

ASSUME ConnAssumption ==
  /\ Reader \notin Workers /\ Writer \notin Workers /\ Reader # Writer
  /\ NULL \notin Conns /\ Wild \notin Conns /\ NULL # Wild
  /\ NClient \in Nat /\ MaxPeers \in Nat /\ NFds \in Nat
  /\ NClient <= MaxPeers /\ NClient <= NFds
  /\ \E f \in [1 .. NClient -> Conns] :
       \A i, j \in 1 .. NClient : i # j => f[i] # f[j]
  /\ FreeTotal \in Nat \ {0} /\ MaxTotal \in Nat

Threads == Workers \cup {Reader, Writer}
Loops == Workers \cup {Reader}
Peers == 1 .. MaxPeers
Fds == 1 .. NFds
None == 0  \* no peer, no descriptor

VARIABLES
  data, freecurr, \* the free list: freeconns and freecurr
  malloced,  \* the structures malloc has returned
  sfd,       \* sfd of each structure
  loop,      \* loop (and thread, set with it) of each structure
  watchers,  \* what each event loop watches: loop, structure, descriptor
  sock,      \* the peer each open descriptor leads to
  seen,      \* the peers there have been so far
  queue,     \* the descriptors accepted for each worker
  notify,    \* the workers whose eventfd has been written and not yet read
  asked,     \* those of them that have sent their request
  gone,      \* those of them that have hung up
  req_conns, \* the client's connections, with their peers
  th,        \* what each thread does
  upset,     \* history: what has gone wrong, see Close
  popped,    \* history: the last operation on the free list was a pop
  crashed    \* a wild or a null pointer was followed, or SIGPIPE came

listVars == <<data, freecurr, popped>>
connVars == <<malloced, sfd, loop, watchers>>
netVars  == <<seen, queue, notify, asked, gone, req_conns>>
vars == <<listVars, connVars, sock, netVars, th, upset, crashed>>

Idle == [pc |-> "idle", conn |-> NULL, peer |-> None, failed |-> FALSE]
Sending(c, p) == [pc |-> "send", conn |-> c, peer |-> p, failed |-> FALSE]

FirstConns == CHOOSE f \in [1 .. NClient -> Conns] :
                \A i, j \in 1 .. NClient : i # j => f[i] # f[j]

(* The client is connected: its structures are in req_conns. *)
Init ==
  LET mine == {FirstConns[i] : i \in 1 .. NClient}
      number(c) == CHOOSE i \in 1 .. NClient : FirstConns[i] = c
  IN
  /\ data = [i \in 0 .. (FreeTotal - 1) |-> NULL] /\ freecurr = 0
  /\ malloced = mine
  /\ sfd = [c \in Conns |-> IF c \in mine THEN number(c) ELSE None]
  /\ loop = [c \in Conns |-> IF c \in mine THEN Reader ELSE NULL]
  /\ watchers = {<<Reader, FirstConns[i], i>> : i \in 1 .. NClient}
  /\ sock = [f \in Fds |-> IF f <= NClient THEN f ELSE None]
  /\ seen = 1 .. NClient /\ asked = {} /\ gone = {}
  /\ queue = [t \in Workers |-> <<>>] /\ notify = {}
  /\ req_conns = {<<FirstConns[i], i>> : i \in 1 .. NClient}
  /\ th = [t \in Threads |-> Idle]
  /\ upset = {} /\ popped = FALSE /\ crashed = FALSE

-----------------------------------------------------------------------------
(* The free list: rpc_conn_from_freelist and rpc_conn_add_freelist. *)

FreeTotalNow == Cardinality(DOMAIN data)

(* Mutant of PopResults: the list is taken from the wrong end. *)
PopFirst == {IF freecurr = 0 THEN NULL ELSE data[0]}

CountAfterPop == IF freecurr > 0 THEN freecurr - 1 ELSE freecurr

(* What a pop finds: freeconns[freecurr--] is the entry above the last     *)
(* one, or what lies behind the array.                                     *)
PopResults ==
  IF freecurr = 0 THEN {NULL}
  ELSE IF freecurr \in DOMAIN data THEN {data[freecurr]} ELSE {NULL, Wild}

(* A push, in an array that may have to grow: the new half holds what      *)
(* realloc found there, and when realloc fails the structure is lost.      *)
Push(c) ==
  /\ \/ /\ freecurr < FreeTotalNow
        /\ data' = [data EXCEPT ![freecurr] = c]
        /\ freecurr' = freecurr + 1
     \/ /\ freecurr = FreeTotalNow /\ 2 * FreeTotalNow <= MaxTotal
        /\ \E junk \in {NULL, Wild} :
             data' = [i \in 0 .. (2 * FreeTotalNow - 1) |->
               IF i < freecurr THEN data[i] ELSE IF i = freecurr THEN c ELSE junk]
        /\ freecurr' = freecurr + 1
     \/ freecurr = FreeTotalNow /\ UNCHANGED <<data, freecurr>>
  /\ popped' = FALSE

-----------------------------------------------------------------------------
(* A client of the server connects: the dispatch thread accepts, with the  *)
(* lowest free descriptor, queues it for a worker and writes the worker's  *)
(* eventfd.  Which worker that is, is the matter of module Dispatch.       *)
Accept(t) ==
  \E p \in Peers \ seen, f \in {g \in Fds : sock[g] = None} :
    /\ \A q \in Peers \ seen : p <= q
    /\ \A g \in Fds : sock[g] = None => f <= g
    /\ seen' = seen \cup {p}
    /\ sock' = [sock EXCEPT ![f] = p]
    /\ queue' = [queue EXCEPT ![t] = Append(@, f)]
    /\ notify' = notify \cup {t}
    /\ UNCHANGED <<listVars, connVars, asked, gone, req_conns, th, upset, crashed>>

Watched == {w[2] : w \in watchers}

(* A structure nobody uses, as malloc gives it: which one does not matter. *)
Fresh ==
  IF Conns \subseteq malloced THEN {} ELSE {CHOOSE c \in Conns : c \notin malloced}

(* cb_notify_conn: the worker reads its eventfd, which makes one of all    *)
(* writes so far, pops one descriptor, and calls rpc_conn_new: a structure *)
(* from the free list, or else from malloc, is given the descriptor and    *)
(* watched by the worker's loop.  What ev_io_init does to a watcher that   *)
(* is active is undefined.  The queue is not empty (PopFindsConnection of  *)
(* Dispatch), and the descriptor is taken to be read from the item before  *)
(* the dispatcher refills it; Dispatch has the other case.                 *)
NewConn(t) ==
  /\ th[t] = Idle /\ t \in notify /\ queue[t] # <<>>
  /\ notify' = notify \ {t}
  /\ queue' = [queue EXCEPT ![t] = Tail(@)]
  /\ popped' = TRUE /\ data' = data
  /\ freecurr' = CountAfterPop
  /\ \E got \in PopResults :
       IF got = Wild \/ got \in Watched
       THEN crashed' = TRUE /\ UNCHANGED connVars
       ELSE \E c \in (IF got = NULL THEN Fresh ELSE {got}) :
              /\ malloced' = malloced \cup {c}
              /\ sfd' = [sfd EXCEPT ![c] = Head(queue[t])]
              /\ loop' = [loop EXCEPT ![c] = t]
              /\ watchers' = watchers \cup {<<t, c, Head(queue[t])>>}
              /\ UNCHANGED crashed
  /\ UNCHANGED <<sock, seen, asked, gone, req_conns, th, upset>>

HangUp(p) ==
  /\ p \in seen \ gone
  /\ gone' = gone \cup {p}
  /\ UNCHANGED <<listVars, connVars, sock, seen, queue, notify, asked, req_conns, th,
                 upset, crashed>>

-----------------------------------------------------------------------------
(* rpc_conn_close, from the descriptor to the free list: nobody else looks *)
(* at both.  why says what was wrong, for the history.                     *)

(* Mutant of Unwatched: the watcher stays in its loop. *)
StillWatched(c) == watchers

(* ev_io_stop in the structure's loop; without a loop it finds the watcher *)
(* inactive.                                                               *)
Unwatched(c) == {w \in watchers : w[1] # loop[c] \/ w[2] # c}

(* Mutant of SocksWithout: the descriptor is not closed. *)
SocksStill(c) == sock

SocksWithout(c) == IF sfd[c] = None THEN sock ELSE [sock EXCEPT ![sfd[c]] = None]

Close(c, why) ==
  /\ watchers' = Unwatched(c)
  /\ sock' = SocksWithout(c)
  /\ loop' = [loop EXCEPT ![c] = NULL]
  /\ Push(c)
  /\ upset' = upset \cup why
       \cup {x \in {"two_listed"} : freecurr' > 1}
       \cup {x \in {"three_listed"} : freecurr' > 2}

-----------------------------------------------------------------------------
(* read_from_conn in the callback of a loop.  The loop watches the         *)
(* descriptor of the watcher; the callback reads the one the structure has *)
(* now.                                                                    *)
Ready(t, w) == w \in watchers /\ w[1] = t /\ sock[w[3]] # None /\ th[t] = Idle

(* A request: a worker will answer it, on the same connection.  A response *)
(* goes to the callback of the call.                                       *)
ReadMessage(t, w) ==
  /\ Ready(t, w)
  /\ LET c == w[2]  p == sock[sfd[c]] IN
       /\ p \notin asked \cup gone \cup {None}
       /\ asked' = asked \cup {p} /\ Cardinality(asked') <= MaxAsked
       /\ th' = IF t = Reader THEN th ELSE [th EXCEPT ![t] = Sending(c, p)]
  /\ UNCHANGED <<listVars, connVars, sock, seen, queue, notify, gone, req_conns,
                 upset, crashed>>

(* Mutant of ReadFails: errno is not looked at, so a read that would have  *)
(* to wait counts as an error.                                             *)
AnyReadFails(t, w) ==
  /\ Ready(t, w)
  /\ Close(w[2], {})
  /\ crashed' \in BOOLEAN
  /\ UNCHANGED <<malloced, sfd, netVars, th>>

(* End of file: the connection is closed and the callback ends.  A read    *)
(* error, as when the peer reset the connection: it is closed as well, but *)
(* read_from_conn returns TRUE and the callback goes on; with unread bytes *)
(* it uses rcurr and thread, which are null now.                           *)
ReadFails(t, w) ==
  /\ Ready(t, w)
  /\ sock[sfd[w[2]]] \in gone \cup {None}
  /\ Close(w[2], {})
  /\ crashed' \in BOOLEAN
  /\ UNCHANGED <<malloced, sfd, netVars, th>>

-----------------------------------------------------------------------------
(* rpc_send_message *)

(* The client's write thread sends a request on one of req_conns. *)
SendRequest ==
  /\ th[Writer] = Idle
  /\ \E e \in req_conns : th' = [th EXCEPT ![Writer] = Sending(e[1], e[2])]
  /\ UNCHANGED <<listVars, connVars, sock, netVars, upset, crashed>>

Target(t) == IF sfd[th[t].conn] = None THEN None ELSE sock[sfd[th[t].conn]]

(* sendmsg takes the message. *)
Sent(t) ==
  /\ th[t].pc = "send" /\ Target(t) # None
  /\ th' = [th EXCEPT ![t] = Idle]
  /\ UNCHANGED <<listVars, connVars, sock, netVars, upset, crashed>>

(* The loop goes on when it has closed the connection. *)
AfterError(t) == [th EXCEPT ![t].failed = TRUE]

(* sendmsg fails: the peer has hung up, or the descriptor is closed.  The  *)
(* connection is closed and the loop sends again.  Nobody ignores SIGPIPE. *)
SendFails(t) ==
  /\ th[t].pc = "send" /\ Target(t) \in gone \cup {None}
  /\ Close(th[t].conn, {"write_failed"})
  /\ th' = AfterError(t)
  /\ crashed' \in {FALSE, Target(t) # None}
  /\ UNCHANGED <<malloced, sfd, netVars>>

-----------------------------------------------------------------------------
Thread(t) ==
  \/ (t \in Workers /\ NewConn(t)) \/ Sent(t) \/ SendFails(t)
  \/ \E w \in watchers : ReadMessage(t, w) \/ ReadFails(t, w)

Next ==
  /\ ~ crashed
  /\ \/ \E t \in Threads : Thread(t)
     \/ \E t \in Workers : Accept(t)
     \/ \E p \in Peers : HangUp(p)
     \/ SendRequest

Spec == Init /\ [][Next]_vars

(* The threads run.  Nobody is obliged to connect, to hang up or to call. *)
Fairness == \A t \in Threads : WF_vars(~ crashed /\ Thread(t))

FairSpec == Spec /\ Fairness
-----------------------------------------------------------------------------
(* Types of the variables. *)
TypeOK ==
  /\ FreeTotalNow \in Nat \ {0} /\ freecurr \in 0 .. FreeTotalNow
  /\ data \in [0 .. (FreeTotalNow - 1) -> Conns \cup {NULL, Wild}]
  /\ malloced \subseteq Conns
  /\ sfd \in [Conns -> Fds \cup {None}] /\ loop \in [Conns -> Loops \cup {NULL}]
  /\ watchers \subseteq Loops \X Conns \X Fds
  /\ sock \in [Fds -> Peers \cup {None}] /\ queue \in [Workers -> Seq(Fds)]
  /\ notify \subseteq Workers /\ asked \subseteq seen /\ gone \subseteq seen /\ seen \subseteq Peers
  /\ th \in [Threads -> [pc : {"idle", "send"}, conn : Conns \cup {NULL},
                         peer : Peers \cup {None}, failed : BOOLEAN]]
  /\ crashed \in BOOLEAN /\ popped \in BOOLEAN

OnList == {data[i] : i \in 0 .. (freecurr - 1)}

(* Who uses a structure: a loop that watches it, or a worker answering. *)
Users(c) == {w[1] : w \in {v \in watchers : v[2] = c}}
            \cup {t \in Workers : th[t].pc = "send" /\ th[t].conn = c}

(* A connection "belong[s] to" one "thread" (rpc_conn.h:30) and has one    *)
(* open descriptor that no other connection has, as long as no write       *)
(* failed (rpc_conn.c:375), after which a thread goes on with a structure  *)
(* and a descriptor it gave back; and it is not on the free list while it  *)
(* is used, unless the list has held three connections before: then a pop  *)
(* may find above the last entry one that is on the list as well           *)
(* (rpc_conn.c:45).                                                        *)
OneOwner ==
  "write_failed" \notin upset =>
    /\ \A c \in Conns : Cardinality(Users(c)) <= 1
    /\ "three_listed" \notin upset => \A c \in OnList : Users(c) = {}
    /\ \A v, w \in watchers : v[2] = w[2] \/ v[3] = w[3] => v = w
    /\ \A w \in watchers : sfd[w[2]] = w[3] /\ sock[w[3]] # None

(* The bug of the free list, exactly: a pop that hands out a structure in  *)
(* use, or wild memory, reads beyond a full array, or it directly follows  *)
(* a push and the list has held two connections before (rpc_conn.c:45).  A *)
(* pop that follows a pop is safe until the list has held three.           *)
PopAfterPopIsSafe ==
  [][\A t \in Workers :
       NewConn(t) /\ crashed' /\ "write_failed" \notin upset =>
         \/ freecurr \notin DOMAIN data \/ "three_listed" \in upset
         \/ "two_listed" \in upset /\ ~ popped]_vars

(* A message goes to the peer it is for, whatever has been closed, reused  *)
(* and handed out since its thread got hold of the connection.  A stranger *)
(* gets it only if its own peer has hung up before, and then only from the *)
(* write thread, which keeps connections that the read thread has closed   *)
(* (rpc_conn.c:292), or after a failed write, whose loop goes on with the  *)
(* descriptor it closed (rpc_conn.c:370-375).                              *)
MessagesReachTheirPeer ==
  [][\A t \in Threads : Sent(t) =>
       \/ Target(t) = th[t].peer
       \/ /\ th[t].peer \in gone
          /\ t \notin Workers \/ "write_failed" \in upset]_vars

(* What cb_notify_conn has left in the queue of a worker that is not       *)
(* notified (rpc_thread.c:33-38): it stays there until the next connection *)
(* is accepted for that worker.                                            *)
Stranded(f) ==
  \E t \in Workers \ notify : \E i \in DOMAIN queue[t] : queue[t][i] = f

(* The descriptors of peers that hung up are closed in the end, but for    *)
(* those that are stranded; unless a write failed: the thread is in its    *)
(* loop then.  A crash closes them all.                                    *)
HungUpIsClosed ==
  \/ <>[](\A f \in Fds : sock[f] \in gone => Stranded(f))
  \/ <>("write_failed" \in upset \/ crashed)

-----------------------------------------------------------------------------
(* Why a connection has one owner.  What always holds, even when threads   *)
(* go on with what they gave back: a structure is watched in its own loop  *)
(* for its own descriptor, and a peer has one socket.                      *)
WatchersAgree ==
  \A w \in watchers : w[2] \in malloced /\ loop[w[2]] = w[1] /\ sfd[w[2]] = w[3]

Connected(p) == \E f \in Fds : sock[f] = p

PeersHaveOneSocket ==
  /\ \A f \in Fds : sock[f] \in seen \cup {None}
  /\ \A f, g \in Fds : sock[f] = sock[g] /\ sock[f] # None => f = g

(* Whoever has not hung up keeps the socket. *)
LivePeersAreConnected == \A p \in seen \ gone : Connected(p)

(* c is the connection to p as long as p has any. *)
IsWayTo(c, p) ==
  /\ c \in malloced /\ p \in seen
  /\ Connected(p) => c \in Watched /\ sock[sfd[c]] = p

SendersKnowTheirPeer ==
  /\ \A e \in req_conns : IsWayTo(e[1], e[2])
  /\ \A t \in Threads :
       /\ th[t].pc = "idle" => th[t] = Idle
       /\ th[t].pc = "send" =>
            /\ IsWayTo(th[t].conn, th[t].peer)
            /\ th[t].failed => ~ Connected(th[t].peer)

(* As long as no write failed: a descriptor is in one watcher or at one    *)
(* place of a queue, and open; a worker that sends is the one whose loop   *)
(* watches the connection, and sends to the peer whose request it read.    *)
DescriptorsHaveOneUse ==
  /\ \A v, w \in watchers : v[3] = w[3] => v = w
  /\ \A w \in watchers : sock[w[3]] # None
  /\ \A t \in Workers : \A i \in 1 .. Len(queue[t]) :
       /\ sock[queue[t][i]] # None
       /\ \A w \in watchers : w[3] # queue[t][i]
       /\ \A u \in Workers : \A j \in 1 .. Len(queue[u]) :
            queue[t][i] = queue[u][j] => t = u /\ i = j

SendersAreWatching ==
  \A t \in Workers :
    th[t].pc = "send" => th[t].conn \in Watched /\ loop[th[t].conn] = t

WorkersReachTheirPeer ==
  \A t \in Workers : th[t].pc = "send" => Target(t) = th[t].peer

(* The array of the free list: entries are malloced, there is nothing      *)
(* above the first place before the list held two, and no structure above  *)
(* the second before it held three.                                        *)
ListIsWritten ==
  /\ \A i \in 0 .. (freecurr - 1) : data[i] \in Conns
  /\ \A i \in DOMAIN data : data[i] \in Conns => data[i] \in malloced
  /\ "two_listed" \notin upset =>
       freecurr <= 1 /\ \A i \in DOMAIN data : i >= 1 => data[i] = NULL
  /\ "three_listed" \notin upset =>
       /\ freecurr <= 2 /\ \A i \in DOMAIN data : i >= 2 => data[i] \notin Conns
       /\ popped => freecurr <= 1

(* Until then, and as long as no write failed, what is on the list is free *)
(* and there once; and so is what the next pop takes if it follows a pop.  *)
ListedAreFree ==
  /\ \A i \in 0 .. (freecurr - 1) : data[i] \notin Watched
  /\ freecurr = 2 => data[0] # data[1]
  /\ popped /\ freecurr = 1 =>
       1 \in DOMAIN data /\ data[1] \in Conns /\ data[1] \notin Watched

(* The inductive invariant. *)
IInv ==
  /\ TypeOK /\ WatchersAgree /\ PeersHaveOneSocket /\ SendersKnowTheirPeer
  /\ ListIsWritten /\ LivePeersAreConnected
  /\ "write_failed" \notin upset =>
       /\ DescriptorsHaveOneUse /\ SendersAreWatching /\ WorkersReachTheirPeer
       /\ "three_listed" \notin upset => ListedAreFree
=============================================================================
