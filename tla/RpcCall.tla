------------------------------- MODULE RpcCall -------------------------------
(***************************************************************************)
(* The path of a call through openrpc: application threads, the write and  *)
(* the read thread of one client thread with its connections, the session  *)
(* pool that ties a response to its request, and the server workers at the *)
(* other end of the connections.                                           *)
(*                                                                         *)
(*   application  rpc_client_call_async   -> req_pending                   *)
(*   write thread thread_write_hander     -> session pool, connection      *)
(*   worker       cb_req_read             -> service, rpc_return           *)
(*   read thread  cb_rsp_read             -> callback, session pool        *)
(*                                                                         *)
(* Messages travel whole and in order on a connection (TCP); a message is  *)
(* the sequence number it carries and the call it is about.  Requests are  *)
(* rpc_request structures in memory that is recycled, with the fields the  *)
(* path reads: the callback and its data (the call) and seq.               *)
(*                                                                         *)
(* The calls in Sync are made with rpc_client_call, one after another by   *)
(* one thread, which waits for cb_call on an eventfd with its response on  *)
(* the stack; each call has the frame, and the eventfd, of the one before. *)
(*                                                                         *)
(* Three things the code lets happen are part of the model, each with a    *)
(* variable that remembers it, so that the properties can name them as     *)
(* their exceptions: a popped queue item is refilled before it is read     *)
(* (upset), the pool cannot grow (failed), and a connection waits at the   *)
(* server, accepted but not registered (registered, see module Dispatch).  *)
(***************************************************************************)
EXTENDS SessionPoolOps, SequencesExt

CONSTANTS
  Calls,     \* the calls the application makes
  Known,     \* those of them that name a registered service
  Sync,      \* those of them that wait for the answer
  Reqs,      \* the rpc_request structures
  NConn,     \* CLIENT_CONN_NUM
  Capacity,  \* POOLCAPACITY
  ListSize,  \* RPCARRAYSIZE
  JunkSeqs,  \* what seq may hold in a structure fresh from malloc
  NoCall     \* the call of a zeroed structure

ASSUME CallAssumption ==
  /\ Known \subseteq Calls /\ Sync \subseteq Calls /\ NoCall \notin Calls
  /\ NULL \notin Reqs /\ Wild \notin Reqs /\ NULL # Wild
  /\ NConn \in Nat \ {0}
  /\ Capacity \in Nat \ {0} /\ ListSize \in Nat \ {0}
  /\ JunkSeqs \subseteq Int /\ JunkSeqs # {}

Conns == 0 .. (NConn - 1)

VARIABLES
  called,     \* the calls made so far
  live,       \* the structures between rpc_request_new and rpc_request_free
  free,       \* rpc_request_freelist: its items and the size of the array
  callOf,     \* callback and data of each structure
  seqOf,      \* seq of each structure
  pending,    \* req_pending, the queue to the write thread
  pool,       \* req_pool
  writer,     \* the write thread: pc, the request and the slot it works on
  last_conn,  \* the connection of the last request sent
  requests,   \* on each connection, the requests on their way to the server
  curr_seq,   \* the curr_seq of each server-side connection
  responses,  \* on each connection, the responses on their way to the client
  rbuf,       \* on each connection, what the read thread has read of them
  reader,     \* the read thread: pc, connection, response and request
  answers,    \* for each call, what its callback was run with
  frame,      \* the stack frame of rpc_client_call: who waits, what it got
  returned,   \* for each call that waits, what rpc_client_call returned
  crashed,    \* an assertion failed or a stray pointer was followed
  item,       \* data of the queue item the write thread is popping
  upset,      \* history: a pop has returned another request than it unlinked
  failed,     \* the request whose insert failed; the pool stays locked then
  registered  \* the connections a worker has registered with its event loop

appVars  == <<called, live, free, callOf>>
syncVars == <<frame, returned>>
sideVars == <<item, upset, failed, registered>>
vars == <<called, live, free, callOf, seqOf, pending, pool, writer, last_conn,
          requests, curr_seq, responses, rbuf, reader, answers, frame, returned, crashed,
          sideVars>>

Requests  == [call : Calls \cup {NoCall}, seq : Int]
Answers   == [of : Calls \cup {NoCall}, code : {"RPC_OK", "RPC_NotFound"}]
Responses == [seq : Int, answer : Answers]

NoResponse == [seq |-> -1, answer |-> [of |-> NoCall, code |-> "RPC_OK"]]

Results == [of : Calls \cup {NoCall},
            code : {"RPC_OK", "RPC_NotFound", "RPC_Timeout", "none"}]

NoAnswer == [of |-> NoCall, code |-> "none"]

(* Nobody waits; output points into the buffer of connection conn, and     *)
(* intact says that nothing was read into it since.                        *)
NoFrame == [of |-> NoCall, got |-> NoAnswer, conn |-> 0, intact |-> TRUE]

IdleWriter == [pc |-> "pop", req |-> NULL, slot |-> -1]
IdleReader == [pc |-> "poll", conn |-> 0, rsp |-> NoResponse, req |-> NULL]

Init ==
  /\ called = {}
  /\ live = {} /\ free = [items |-> <<>>, size |-> ListSize]
  /\ callOf = [r \in Reqs |-> NoCall]
  /\ seqOf \in [Reqs -> JunkSeqs]
  /\ pending = <<>>
  /\ pool = NewPool(Capacity)
  /\ writer = IdleWriter
  /\ last_conn = -1
  /\ requests = [k \in Conns |-> <<>>]
  /\ curr_seq = [k \in Conns |-> -1]
  /\ responses = [k \in Conns |-> <<>>]
  /\ rbuf = [k \in Conns |-> <<>>]
  /\ reader = IdleReader
  /\ answers = [c \in Calls |-> <<>>]
  /\ frame = NoFrame
  /\ returned = [c \in Calls |-> NoAnswer]
  /\ crashed = FALSE
  /\ item = NULL /\ upset = FALSE /\ failed = NULL /\ registered = {}

-----------------------------------------------------------------------------
(* Application threads. *)

(* rpc_request_new takes the last structure of the free list, or else one  *)
(* from malloc; which of these does not matter.                            *)
Taken ==
  IF free.items # <<>> THEN {Last(free.items)}
  ELSE IF live = Reqs THEN {} ELSE {CHOOSE r \in Reqs : r \notin live}

(* What a push of r may leave in the item that the write thread is popping:*)
(* that item is on the free list already, the first to be taken from it,   *)
(* unless the pushing thread has taken another one before.                 *)
ItemAfterPush(r) ==
  {item} \cup {x \in {r} : writer.pc = "read" /\ item = writer.req}

(* rpc_client_call_async fills in a structure, all but seq, and queues it. *)
CallAsync(c) ==
  /\ c \notin called
  /\ called' = called \cup {c}
  /\ \E r \in Taken :
       /\ live' = live \cup {r}
       /\ callOf' = [callOf EXCEPT ![r] = c]
       /\ pending' = Append(pending, r)
       /\ item' \in ItemAfterPush(r)
  /\ free' = [free EXCEPT !.items = IF @ = <<>> THEN @ ELSE Front(@)]
  /\ UNCHANGED <<seqOf, pool, writer, last_conn, requests, curr_seq, responses,
                 rbuf, reader, answers, crashed, upset, failed, registered>>

(* Mutant of NewFrame: the eventfd of the call before is used again and    *)
(* still readable.                                                         *)
SameFrame(c) == [frame EXCEPT !.of = c]

NewFrame(c) == [NoFrame EXCEPT !.of = c]

(* rpc_client_call: the thread waits in the frame from here on. *)
CallSync(c) ==
  /\ frame.of = NoCall
  /\ frame' = NewFrame(c)
  /\ CallAsync(c)
  /\ UNCHANGED returned

(* select reports the eventfd readable: what is in the frame is returned.  *)
ReturnSync ==
  /\ frame.of # NoCall /\ frame.got # NoAnswer
  /\ returned' = [returned EXCEPT ![frame.of] = frame.got]
  /\ frame' = [frame EXCEPT !.of = NoCall]
  /\ UNCHANGED <<appVars, seqOf, pending, pool, writer, last_conn, requests, curr_seq,
                 responses, rbuf, reader, answers, crashed, sideVars>>

(* select waited TIMEOUT seconds. *)
Timeout ==
  /\ frame.of # NoCall /\ frame.got = NoAnswer
  /\ returned' = [returned EXCEPT ![frame.of] = [of |-> frame.of, code |-> "RPC_Timeout"]]
  /\ frame' = [frame EXCEPT !.of = NoCall]
  /\ UNCHANGED <<appVars, seqOf, pending, pool, writer, last_conn, requests, curr_seq,
                 responses, rbuf, reader, answers, crashed, sideVars>>

-----------------------------------------------------------------------------
(* The write thread: thread_write_hander. *)

(* rpc_async_queue_pop unlinks the first item and gives it to the free     *)
(* list.                                                                   *)
WriterPop ==
  /\ writer.pc = "pop"
  /\ pending # <<>>
  /\ writer' = [writer EXCEPT !.pc = "read", !.req = Head(pending)]
  /\ item' = Head(pending)
  /\ pending' = Tail(pending)
  /\ UNCHANGED <<appVars, syncVars, seqOf, pool, last_conn, requests, curr_seq,
                 responses, rbuf, reader, answers, crashed, upset, failed, registered>>

(* Then it reads the item: the request popped is the one the item holds    *)
(* now, which may be a later one that stays in the queue as well.          *)
WriterRead ==
  /\ writer.pc = "read"
  /\ writer' = [writer EXCEPT !.pc = "insert", !.req = item]
  /\ upset' = (upset \/ item # writer.req)
  /\ item' = NULL
  /\ UNCHANGED <<appVars, syncVars, seqOf, pending, pool, last_conn, requests, curr_seq,
                 responses, rbuf, reader, answers, crashed, failed, registered>>

(* The request is in the pool before its seq is written. *)
WriterInsert ==
  /\ writer.pc = "insert" /\ failed = NULL
  /\ \E r \in InsertResults(pool, writer.req) :
       /\ pool' = r.pool
       /\ writer' = [writer EXCEPT !.pc = "number", !.slot = r.slot]
  /\ UNCHANGED <<appVars, syncVars, seqOf, pending, last_conn, requests, curr_seq,
                 responses, rbuf, reader, answers, crashed, sideVars>>

(* No slot is free and realloc fails: -1 is taken for the request's        *)
(* number, and the mutex of the pool stays locked.                         *)
WriterInsertFails ==
  /\ writer.pc = "insert" /\ failed = NULL
  /\ FreeSlots(pool) = {}
  /\ failed' = writer.req
  /\ writer' = [writer EXCEPT !.pc = "number", !.slot = -1]
  /\ UNCHANGED <<appVars, syncVars, seqOf, pending, pool, last_conn, requests, curr_seq,
                 responses, rbuf, reader, answers, crashed, item, upset, registered>>

WriterNumber ==
  /\ writer.pc = "number"
  /\ seqOf' = [seqOf EXCEPT ![writer.req] = writer.slot]
  /\ writer' = [writer EXCEPT !.pc = "send"]
  /\ UNCHANGED <<appVars, syncVars, pending, pool, last_conn, requests, curr_seq,
                 responses, rbuf, reader, answers, crashed, sideVars>>

NextConn == (last_conn + 1) % NConn

(* The connections are used in turn; the message is formatted from the     *)
(* structure as it is now.                                                 *)
WriterSend ==
  /\ writer.pc = "send"
  /\ last_conn' = NextConn
  /\ requests' = [requests EXCEPT ![last_conn'] =
       Append(@, [call |-> callOf[writer.req], seq |-> seqOf[writer.req]])]
  /\ writer' = IdleWriter
  /\ UNCHANGED <<appVars, syncVars, seqOf, pending, pool, curr_seq, responses, rbuf,
                 reader, answers, crashed, sideVars>>

-----------------------------------------------------------------------------
(* A server worker: it registers a connection with its event loop, which   *)
(* may be long after the client has connected, or never; then cb_req_read, *)
(* one request.                                                            *)

Register(k) ==
  /\ registered' = registered \cup {k}
  /\ UNCHANGED <<appVars, syncVars, seqOf, pending, pool, writer, last_conn, requests,
                 curr_seq, responses, rbuf, reader, answers, crashed, item, upset, failed>>

(* Mutant of SeqFor: curr_seq is not assigned. *)
SeqBefore(k, m) == curr_seq[k]

(* curr_seq becomes the number of a request to a registered service; when  *)
(* there is no such service it is left as it is.                           *)
SeqFor(k, m) == IF m.call \in Known THEN m.seq ELSE curr_seq[k]

(* Mutant of Written: after a short write the response is sent again.      *)
WrittenAgain(m) == <<m, m>>

Written(m) == <<m>>

(* The service is called and returns its output for the request, or the    *)
(* error is returned, under curr_seq.                                      *)
Serve(k) ==
  /\ k \in registered /\ requests[k] # <<>>
  /\ LET m == Head(requests[k])
         code == IF m.call \in Known THEN "RPC_OK" ELSE "RPC_NotFound"
     IN /\ curr_seq' = [curr_seq EXCEPT ![k] = SeqFor(k, m)]
        /\ responses' = [responses EXCEPT ![k] =
             @ \o Written([seq |-> SeqFor(k, m), answer |-> [of |-> m.call, code |-> code]])]
  /\ requests' = [requests EXCEPT ![k] = Tail(@)]
  /\ UNCHANGED <<appVars, syncVars, seqOf, pending, pool, writer, last_conn, rbuf,
                 reader, answers, crashed, sideVars>>

-----------------------------------------------------------------------------
(* The read thread: cb_rsp_read. *)

(* A connection is readable: some of what has arrived is read, over what   *)
(* was read before.                                                        *)
ReadEvent(k) ==
  /\ reader.pc = "poll"
  /\ \E n \in 1 .. Len(responses[k]) :
       /\ rbuf' = [rbuf EXCEPT ![k] = @ \o SubSeq(responses[k], 1, n)]
       /\ responses' = [responses EXCEPT ![k] = SubSeq(@, n + 1, Len(@))]
  /\ reader' = [reader EXCEPT !.pc = "parse", !.conn = k]
  /\ frame' = [frame EXCEPT !.intact = @ /\ frame.conn # k]
  /\ UNCHANGED <<appVars, returned, seqOf, pending, pool, writer, last_conn, requests,
                 curr_seq, answers, crashed, sideVars>>

(* Everything read is processed: back to the event loop. *)
ReadDone ==
  /\ reader.pc = "parse"
  /\ rbuf[reader.conn] = <<>>
  /\ reader' = IdleReader
  /\ UNCHANGED <<appVars, syncVars, seqOf, pending, pool, writer, last_conn, requests,
                 curr_seq, responses, rbuf, answers, crashed, sideVars>>

(* A request is found under a response's number: otherwise the number is   *)
(* outside the pool and fails the assertions of rpc_sessionpool_get, or    *)
(* the slot holds no request and what it holds is followed as a pointer.   *)
Found(m) == m.seq \in {i \in Slots(pool) : pool.data[i] \in Reqs}

(* The request a response is for is looked up by its number.  A request    *)
(* with another number makes the handler return; what was read after this  *)
(* response stays in the buffer until the next event.  The assertions come *)
(* before the lock.                                                        *)
LookUp ==
  /\ reader.pc = "parse"
  /\ rbuf[reader.conn] # <<>>
  /\ LET m   == Head(rbuf[reader.conn])
         req == pool.data[m.seq]
     IN /\ m.seq \in Slots(pool) => failed = NULL
        /\ IF ~ Found(m)
           THEN crashed' = TRUE /\ UNCHANGED reader
           ELSE /\ UNCHANGED crashed
                /\ reader' = IF seqOf[req] = m.seq
                     THEN [reader EXCEPT !.pc = "callback", !.rsp = m, !.req = req]
                     ELSE IdleReader
  /\ rbuf' = [rbuf EXCEPT ![reader.conn] = Tail(@)]
  /\ UNCHANGED <<appVars, syncVars, seqOf, pending, pool, writer, last_conn, requests,
                 curr_seq, responses, answers, sideVars>>

(* cb_call, the callback of a call that waits, writes the answer into the  *)
(* frame and wakes whoever waits there.  When nobody does, it writes over  *)
(* what has come to the frame's place on the stack.                        *)
CbCall ==
  IF frame.of = NoCall
  THEN crashed' \in BOOLEAN /\ UNCHANGED frame
  ELSE /\ frame' = [frame EXCEPT !.got = reader.rsp.answer,
                                 !.conn = reader.conn, !.intact = TRUE]
       /\ UNCHANGED crashed

(* req->callback is run with the response; it is null in a zeroed request. *)
RunCallback ==
  /\ reader.pc = "callback"
  /\ LET c == callOf[reader.req] IN
       /\ answers' = IF c = NoCall THEN answers
                     ELSE [answers EXCEPT ![c] = Append(@, reader.rsp.answer)]
       /\ CASE c = NoCall -> crashed' = TRUE /\ UNCHANGED frame
            [] c \in Sync -> CbCall
            [] OTHER -> UNCHANGED <<frame, crashed>>
  /\ reader' = [reader EXCEPT !.pc = "remove"]
  /\ UNCHANGED <<appVars, returned, seqOf, pending, pool, writer, last_conn, requests,
                 curr_seq, responses, rbuf, sideVars>>

RemoveSession ==
  /\ reader.pc = "remove" /\ failed = NULL
  /\ pool' = Removed(pool, reader.rsp.seq)
  /\ reader' = [reader EXCEPT !.pc = "free"]
  /\ UNCHANGED <<appVars, syncVars, seqOf, pending, writer, last_conn, requests,
                 curr_seq, responses, rbuf, answers, crashed, sideVars>>

(* rpc_array_add: a full array is doubled, or else the structure is freed. *)
AddResults(r) ==
  LET added == [free EXCEPT !.items = Append(@, r)] IN
  IF Len(free.items) < free.size THEN {added}
  ELSE {[added EXCEPT !.size = 2 * @], free}

(* Mutant of AfterResponse: one response is handled for each read event. *)
AfterOneResponse == IdleReader

AfterResponse == [reader EXCEPT !.pc = "parse", !.rsp = NoResponse, !.req = NULL]

(* rpc_request_free zeroes the structure and puts it on the free list. *)
FreeRequest ==
  /\ reader.pc = "free"
  /\ live' = live \ {reader.req}
  /\ free' \in AddResults(reader.req)
  /\ callOf' = [callOf EXCEPT ![reader.req] = NoCall]
  /\ seqOf' = [seqOf EXCEPT ![reader.req] = 0]
  /\ reader' = AfterResponse
  /\ UNCHANGED <<called, syncVars, pending, pool, writer, last_conn, requests, curr_seq,
                 responses, rbuf, answers, crashed, sideVars>>

-----------------------------------------------------------------------------
Writer ==
  \/ WriterPop \/ WriterRead \/ WriterInsert \/ WriterInsertFails
  \/ WriterNumber \/ WriterSend

Application ==
  \/ \E c \in Calls \ Sync : CallAsync(c) /\ UNCHANGED syncVars
  \/ \E c \in Sync : CallSync(c)
  \/ ReturnSync \/ Timeout

Reader ==
  \/ \E k \in Conns : ReadEvent(k)
  \/ ReadDone \/ LookUp \/ RunCallback \/ RemoveSession \/ FreeRequest

(* A crash ends the client process, and with it everything that can be     *)
(* said about its calls.                                                   *)
Next ==
  /\ ~ crashed
  /\ \/ Application
     \/ Writer
     \/ \E k \in Conns : Register(k) \/ Serve(k)
     \/ Reader

Spec == Init /\ [][Next]_vars

(* The threads run and the event loop of the read thread serves every      *)
(* connection that stays readable.  Nothing promises that a connection is  *)
(* ever registered at the server.                                          *)
Fairness ==
  /\ WF_vars(~ crashed /\ Writer)
  /\ \A k \in Conns : WF_vars(~ crashed /\ Serve(k))
  /\ WF_vars(~ crashed /\ Reader)
  /\ \A k \in Conns : SF_vars(~ crashed /\ ReadEvent(k))

FairSpec == Spec /\ Fairness
-----------------------------------------------------------------------------
(* Types of the variables: of the application and the free list, of the    *)
(* write thread, of the connections, of the read thread, and of the frame. *)
AppTypeOK ==
  /\ called \subseteq Calls
  /\ live \subseteq Reqs
  /\ free \in [items : Seq(Reqs), size : Nat \ {0}] /\ Len(free.items) <= free.size
  /\ callOf \in [Reqs -> Calls \cup {NoCall}]
  /\ seqOf \in [Reqs -> Int]

WriterTypeOK ==
  /\ pending \in Seq(Reqs)
  /\ writer \in [pc : {"pop", "read", "insert", "number", "send"},
                 req : Reqs \cup {NULL}, slot : Int]
  /\ writer.pc # "pop" => writer.req \in Reqs
  /\ item \in Reqs \cup {NULL} /\ failed \in Reqs \cup {NULL}
  /\ writer.pc = "read" => item \in Reqs
  /\ last_conn \in Conns \cup {-1}

NetTypeOK ==
  /\ requests \in [Conns -> Seq(Requests)]
  /\ curr_seq \in [Conns -> Int]
  /\ responses \in [Conns -> Seq(Responses)]
  /\ rbuf \in [Conns -> Seq(Responses)]
  /\ registered \subseteq Conns

ReaderTypeOK ==
  /\ reader \in [pc : {"poll", "parse", "callback", "remove", "free"},
                 conn : Conns, rsp : Responses, req : Reqs \cup {NULL}]
  /\ reader.pc \in {"callback", "remove", "free"} => reader.req \in Reqs
  /\ reader.pc \in {"callback", "remove"} => reader.rsp.seq \in Slots(pool)
  /\ answers \in [Calls -> Seq(Answers)]

FrameTypeOK ==
  /\ frame \in [of : Sync \cup {NoCall}, got : Results, conn : Conns, intact : BOOLEAN]
  /\ returned \in [Calls -> Results]
  /\ crashed \in BOOLEAN /\ upset \in BOOLEAN

TypeOK ==
  /\ AppTypeOK /\ WriterTypeOK /\ PoolOK(pool, Reqs)
  /\ NetTypeOK /\ ReaderTypeOK /\ FrameTypeOK

(* No call made so far names a service the server does not know, and every *)
(* pop has returned the request it unlinked (module ItemQueue).            *)
Orderly == called \subseteq Known /\ ~ upset

(* The messages between a write and a read thread, with their numbers.     *)
InFlight ==
  {<<m.call, m.seq>> : m \in UNION {Range(requests[k]) : k \in Conns}}
  \cup {<<m.answer.of, m.seq>> :
          m \in UNION {Range(responses[k]) \cup Range(rbuf[k]) : k \in Conns}}

(* The number of a message in flight is the slot of the request that holds *)
(* the callback of its call, so the read thread's lookup (rpc_conn.c:264)  *)
(* finds it: "sessionpool has" (line 263), whatever slots are freed, taken *)
(* again or moved by a growing array in the meantime.  The one other       *)
(* number in flight is the -1 of a request whose insert failed             *)
(* (rpc_sessionpool.c:42), and only one request ever gets it.              *)
MessagesFindTheirRequest ==
  Orderly => \A m \in InFlight :
    IF m[2] = -1 THEN failed \in live /\ callOf[failed] = m[1]
    ELSE /\ m[2] \in Slots(pool) /\ pool.data[m[2]] \in live
         /\ callOf[pool.data[m[2]]] = m[1]
         /\ seqOf[pool.data[m[2]]] = m[2]

(* A structure is owned once: it waits in the queue, or the write thread   *)
(* has it, or it sits in one slot, or the read thread is about to free it, *)
(* or it is the one whose insert failed; or it is on the free list, and    *)
(* only then it is not live.  So no structure is freed twice or handed out *)
(* twice, even when a response is taken for that of another call, as long  *)
(* as every pop has returned the request it unlinked                       *)
(* (rpc_async_queue.c:82): otherwise a request is owned twice from then    *)
(* on, and another by nobody.                                              *)
Owners(r) ==
  Cardinality({i \in 1 .. Len(pending) : pending[i] = r})
  + Cardinality({i \in Slots(pool) : pool.data[i] = r})
  + (IF writer.pc \in {"read", "insert"} /\ writer.req = r THEN 1 ELSE 0)
  + (IF reader.pc = "free" /\ reader.req = r THEN 1 ELSE 0)
  + (IF failed = r THEN 1 ELSE 0)

RequestsAreOwnedOnce ==
  ~ upset => \A r \in Reqs :
    LET listed == Cardinality({i \in 1 .. Len(free.items) : free.items[i] = r}) IN
    IF r \in live THEN Owners(r) = 1 /\ listed = 0 ELSE Owners(r) = 0 /\ listed <= 1

TimedOut == {c \in Sync : returned[c].code = "RPC_Timeout"}

(* rpc_client_call returns the answer to its own call, and nothing is      *)
(* written on a stack frame that is gone, until a call of the thread times *)
(* out (rpc_client.c:97-98); even then what it returns is the answer to    *)
(* one of the thread's own earlier calls.  Before that only the -1 of a    *)
(* failed insert can end the client.                                       *)
SyncReturnsOwn ==
  Orderly =>
    /\ \A c \in Sync : returned[c].code = "RPC_OK" =>
         returned[c].of \in IF TimedOut = {} THEN {c} ELSE called \cap Sync
    /\ crashed => TimedOut # {} \/ failed # NULL

(* What output points to (rpc_client.c:101), which lies in the buffer of   *)
(* the connection, is the answer until the thread's next call, as long as  *)
(* the client's other calls are all answered: calls that do not wait, or   *)
(* that timed out, have answers on their way that may overwrite it.        *)
OutputStaysIntact ==
  Orderly /\ called \subseteq Sync /\ TimedOut = {} /\ frame.got # NoAnswer => frame.intact

(* A response carries the number of its own request (doc/protocal.txt), so *)
(* the callback of a call is only ever run with the answer to this call,   *)
(* as long as every pop returns the request it unlinked.                   *)
AnswersReachTheirCall ==
  ~ upset => \A c \in Calls : \A i \in 1 .. Len(answers[c]) : answers[c][i].of = c

(* The path implements the promise to the caller: every call is answered   *)
(* once, with its own answer, and in the end.  The answer may stay away    *)
(* for ever when the call's request sits on a connection that the server   *)
(* has not registered (rpc_thread.c:33-38, AcceptedIsTaken of Dispatch),  *)
(* or when the pool could not grow; and the promise is void once a pop has *)
(* returned another request than it unlinked (rpc_async_queue.c:82).       *)
Waiting ==
  IF failed # NULL THEN Calls
  ELSE {m.call : m \in UNION {Range(requests[k]) : k \in Conns \ registered}}

Promise == INSTANCE CallPromise WITH waiting <- Waiting, void <- upset

KeepsPromise == Promise!Spec

-----------------------------------------------------------------------------
(* Why a structure is owned once: the places that hold structures, as sets *)
(* that share no member.                                                   *)
InPool     == {r \in Reqs : \E i \in Slots(pool) : pool.data[i] = r}
WithWriter == {r \in Reqs : writer.pc \in {"read", "insert"} /\ writer.req = r}
WithReader == {r \in Reqs : reader.pc = "free" /\ reader.req = r}
Unslotted  == {r \in Reqs : failed = r}

SlotsAreExclusive ==
  \A i, j \in Slots(pool) :
    pool.data[i] = pool.data[j] /\ pool.data[i] \in Reqs => i = j

PlacesAreDisjoint ==
  /\ Range(pending) \cap (InPool \cup WithWriter \cup WithReader) = {}
  /\ InPool \cap (WithWriter \cup WithReader) = {}
  /\ WithWriter \cap WithReader = {}
  /\ Unslotted \cap (Range(pending) \cup InPool \cup WithWriter \cup WithReader) = {}
  /\ Range(free.items) \cap live = {}

(* No place holds a structure twice, what is on the free list is not live, *)
(* and the read thread removes from the pool what it found there.          *)
Ownership ==
  /\ PlacesAreDisjoint
  /\ live = Range(pending) \cup InPool \cup WithWriter \cup WithReader \cup Unslotted
  /\ IsInjective(pending) /\ IsInjective(free.items)
  /\ SlotsAreExclusive
  /\ reader.pc \in {"callback", "remove"} => pool.data[reader.rsp.seq] = reader.req

(* Every live structure carries a call of its own. *)
CallsAreCarriedOnce ==
  /\ \A r \in live : callOf[r] \in called
  /\ \A r, q \in live : callOf[r] = callOf[q] => r = q

(* Why a response finds its request.  The numbers on their way round a     *)
(* connection, as seen by the read thread: serving a request and reading a *)
(* response move them along and change none.                               *)
Nums(s) == [i \in 1 .. Len(s) |-> s[i].seq]

Numbers(k) == Nums(rbuf[k]) \o Nums(responses[k]) \o Nums(requests[k])

InSlot(n, c) ==
  /\ n \in Slots(pool) /\ pool.data[n] \in live
  /\ callOf[pool.data[n]] = c /\ seqOf[pool.data[n]] = n

(* Without a slot: the request whose insert failed. *)
Adrift(n, c) == n = -1 /\ failed \in live /\ callOf[failed] = c

Tied(n, c) == InSlot(n, c) \/ Adrift(n, c)

MessagesAreTied ==
  \A k \in Conns :
    /\ \A i \in 1 .. Len(requests[k]) : Tied(requests[k][i].seq, requests[k][i].call)
    /\ \A s \in {responses[k], rbuf[k]} : \A i \in 1 .. Len(s) :
         Tied(s[i].seq, s[i].answer.of) /\ s[i].answer.code = "RPC_OK"

(* No number is on its way twice, and none that a thread still works on.   *)
NumbersAreDistinct ==
  /\ \A k, l \in Conns : \A i \in DOMAIN Numbers(k), j \in DOMAIN Numbers(l) :
       Numbers(k)[i] = Numbers(l)[j] => k = l /\ i = j
  /\ \A k \in Conns : \A i \in DOMAIN Numbers(k) :
       /\ writer.pc \in {"number", "send"} => Numbers(k)[i] # writer.slot
       /\ reader.pc \in {"callback", "remove"} => Numbers(k)[i] # reader.rsp.seq
  /\ writer.pc \in {"number", "send"} /\ reader.pc \in {"callback", "remove"} =>
       writer.slot # reader.rsp.seq

(* What the two threads hold while they work on a request. *)
ThreadsHoldTheirs ==
  /\ writer.pc \in {"number", "send"} =>
       \/ writer.slot \in Slots(pool) /\ pool.data[writer.slot] = writer.req
       \/ writer.slot = -1 /\ failed = writer.req
  /\ writer.pc = "send" => seqOf[writer.req] = writer.slot
  /\ reader.pc = "callback" =>
       reader.rsp.answer = [of |-> callOf[reader.req], code |-> "RPC_OK"]

(* A call is unanswered as long as its request is in the pool or before it.*)
LiveAreUnanswered ==
  /\ \A r \in live :
       (reader.pc \in {"remove", "free"} => reader.req # r) => answers[callOf[r]] = <<>>
  /\ \A c \in Calls \ called : answers[c] = <<>>

Answered(c) == answers[c] # <<>>

(* Who waits in the frame, and what it gets. *)
FrameIsOwn ==
  /\ frame.of # NoCall => frame.of \in called /\ returned[frame.of] = NoAnswer
  /\ \A c \in Calls \ called : returned[c] = NoAnswer
  /\ frame.got # NoAnswer => frame.got.of \in called \cap Sync
  /\ TimedOut = {} =>
       /\ frame.of # NoCall /\ frame.got # NoAnswer => frame.got.of = frame.of
       /\ \A c \in called \cap Sync :
            Answered(c) \/ (c = frame.of /\ frame.got = NoAnswer)

(* The inductive invariant: its second part as long as every pop returns   *)
(* what it unlinked, its third as long as, too, every call names a service *)
(* that exists.                                                            *)
IInv ==
  /\ TypeOK
  /\ ~ upset => Ownership /\ CallsAreCarriedOnce
  /\ Orderly =>
       /\ MessagesAreTied /\ NumbersAreDistinct /\ ThreadsHoldTheirs
       /\ LiveAreUnanswered /\ FrameIsOwn
       /\ SyncReturnsOwn /\ OutputStaysIntact
=============================================================================
