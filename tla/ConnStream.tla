----------------------------- MODULE ConnStream -----------------------------
(***************************************************************************)
(* One direction of a connection: rpc_send_message at one end, the socket, *)
(* and read_from_conn with the loop of the read callback at the other.     *)
(* Requests and responses are framed alike, a line that opens the message, *)
(* seq, body-len, an empty line and the body, and cb_req_read and          *)
(* cb_rsp_read cut the stream up alike; this module is both.               *)
(*                                                                         *)
(* A symbol stands for a piece of the stream that the code looks at: a     *)
(* newline, one of the three lines without its newline, one byte of a      *)
(* body.  rbuf keeps what earlier messages left behind rcurr and beyond    *)
(* rbytes, because rpc_conn_received_head may look there.  Lines end in    *)
(* \n, as rpc_request_format and rpc_send_response write them; the \r\n    *)
(* the parser also takes is left out.                                      *)
(***************************************************************************)
EXTENDS Integers, FiniteSetsExt, SequencesExt

CONSTANTS
  Bodies,       \* the bodies of the messages, in the order they are sent
  SockSize,     \* what the socket holds between the two ends
  RSize,        \* BUFFER_SIZE
  MaxReallocs,  \* how often one read event may double rbuf: 4
  Garbage       \* what memory fresh from malloc may hold

Symbols == [k : {"call", "seq", "len", "nl", "nul", "byte"}, v : Nat]

Sym(k, v) == [k |-> k, v |-> v]
NL  == Sym("nl", 0)
NUL == Sym("nul", 0)

ASSUME StreamAssumption ==
  /\ SockSize \in Nat \ {0} /\ RSize \in Nat \ {0} /\ MaxReallocs \in Nat
  /\ Bodies \in Seq(Seq(Symbols)) /\ Garbage # {} /\ Garbage \subseteq Symbols

NoHead == [seq |-> -1, len |-> 0]

VARIABLES
  sent,        \* how many messages the sender has started
  iov,         \* what is left to send of the last one
  cut,         \* rpc_send_message gave up in the middle of it
  sock,        \* the bytes between sender and reader
  peer,        \* the sender's end: "open", "closed" or "reset"
  pc,          \* the reader: "poll", "read", "handle", "closed", "crashed"
  rbuf, rcurr, rbytes, num_allocs,
  unprocess,   \* unprocess_data: a head whose body is not there yet
  handled,     \* the messages given to the service or the callback
  misread      \* the parser has refused what it was given

senderVars == <<sent, iov, cut, peer>>
bufVars    == <<rbuf, rcurr, rbytes>>
vars == <<sent, iov, cut, sock, peer, pc, rbuf, rcurr, rbytes, num_allocs,
          unprocess, handled, misread>>

Count == Len(Bodies)

(* rpc_request_format and rpc_send_response: three blocks, the empty line  *)
(* with the third, and one for the body if there is one.                   *)
Bytes(i) ==
  <<Sym("call", i), NL, Sym("seq", i), NL, Sym("len", Len(Bodies[i])), NL, NL>>
  \o Bodies[i]

(* How much of the message is left where a block ends. *)
BlockEnds(i) == {Len(Bodies[i]) + d : d \in {5, 3, 0}} \cup {0}

Message(i) == [seq |-> i, body |-> Bodies[i]]

Init ==
  /\ sent = 0 /\ iov = <<>> /\ cut = FALSE
  /\ sock = <<>> /\ peer = "open"
  /\ pc = "poll"
  /\ \E g \in Garbage : rbuf = [i \in 1 .. RSize |-> g]
  /\ rcurr = 0 /\ rbytes = 0 /\ num_allocs = 0
  /\ unprocess = NoHead /\ handled = <<>> /\ misread = FALSE

-----------------------------------------------------------------------------
(* The sender. *)

(* The next message is put on the iov.  What follows a message that was    *)
(* cut short is not modelled.                                              *)
Format ==
  /\ peer = "open" /\ iov = <<>> /\ sent < Count /\ ~cut
  /\ sent' = sent + 1
  /\ iov' = Bytes(sent + 1)
  /\ UNCHANGED <<cut, sock, peer, pc, bufVars, num_allocs, unprocess,
                 handled, misread>>

(* One sendmsg of rpc_send_message; while the socket is full it returns    *)
(* EAGAIN and is called again.  A short write that ends with a block       *)
(* leaves res = 0: the loop takes the message for sent.                    *)
SendMsg(n) ==
  /\ peer = "open" /\ n <= Len(iov) /\ Len(sock) + n <= SockSize
  /\ sock' = sock \o SubSeq(iov, 1, n)
  /\ cut' = (Len(iov) - n \in BlockEnds(sent) \ {0})
  /\ iov' = IF cut' THEN <<>> ELSE SubSeq(iov, n + 1, Len(iov))
  /\ UNCHANGED <<sent, peer, pc, bufVars, num_allocs, unprocess, handled,
                 misread>>

(* The process at the other end closes the connection, or dies. *)
PeerGoes(how) ==
  /\ peer = "open"
  /\ peer' = how
  /\ UNCHANGED <<sent, iov, cut, sock, pc, bufVars, num_allocs, unprocess,
                 handled, misread>>

-----------------------------------------------------------------------------
(* read_from_conn. *)

Unread == SubSeq(rbuf, rcurr + 1, rcurr + rbytes)

(* What follows bytes p .. in buffer b is kept. *)
Overwrite(b, p, s) ==
  [i \in DOMAIN b |-> IF i \in p + 1 .. p + Len(s) THEN s[i - p] ELSE b[i]]

(* Mutant of Compacted: the cursor goes back, the bytes stay. *)
NotCompacted == rbuf

Compacted == Overwrite(rbuf, 0, Unread)

(* The event loop calls back; what is unread moves to the front. *)
ReadEvent ==
  /\ pc = "poll"
  /\ sock # <<>> \/ peer # "open"
  /\ pc' = "read"
  /\ rbuf' = Compacted
  /\ rcurr' = 0
  /\ num_allocs' = 0
  /\ UNCHANGED <<senderVars, sock, rbytes, unprocess, handled, misread>>

(* Mutant of MayGrow: the limit is off by one. *)
MayGrowOnceMore == rbytes >= Len(rbuf) /\ num_allocs <= MaxReallocs

MayGrow == rbytes >= Len(rbuf) /\ num_allocs < MaxReallocs

Grow ==
  /\ pc = "read" /\ MayGrow
  /\ num_allocs' = num_allocs + 1
  /\ \E g \in Garbage : rbuf' = rbuf \o [i \in 1 .. Len(rbuf) |-> g]
  /\ UNCHANGED <<senderVars, sock, pc, rcurr, rbytes, unprocess, handled,
                 misread>>

(* rbuf has been doubled as often as one event may, or realloc fails. *)
GiveUp ==
  /\ pc = "read" /\ rbytes >= Len(rbuf)
  /\ pc' = "handle"
  /\ UNCHANGED <<senderVars, sock, bufVars, num_allocs, unprocess, handled,
                 misread>>

(* read returns n bytes, those that have arrived.  If they fill rbuf it is *)
(* read again, and while nothing arrives again and again (EAGAIN).         *)
Read(n) ==
  /\ pc = "read" /\ rbytes < Len(rbuf)
  /\ n <= Len(sock) /\ n <= Len(rbuf) - rbytes
  /\ rbuf' = Overwrite(rbuf, rbytes, SubSeq(sock, 1, n))
  /\ rbytes' = rbytes + n
  /\ sock' = SubSeq(sock, n + 1, Len(sock))
  /\ pc' = IF n = Len(rbuf) - rbytes THEN "read" ELSE "handle"
  /\ UNCHANGED <<senderVars, rcurr, num_allocs, unprocess, handled, misread>>

(* read returns 0 or an error: rpc_conn_close.  After an error the caller  *)
(* is told to go on; unless there is nothing to do it follows rcurr, which *)
(* is NULL, or thread, which is too.                                       *)
ReadEnd ==
  /\ pc = "read" /\ rbytes < Len(rbuf)
  /\ sock = <<>> /\ peer # "open"
  /\ pc' = IF peer = "closed" \/ rbytes = 0 \/ rbytes < unprocess.len
           THEN "closed" ELSE "crashed"
  /\ UNCHANGED <<senderVars, sock, bufVars, num_allocs, unprocess, handled,
                 misread>>

-----------------------------------------------------------------------------
(* rpc_conn_received_head and the parser, on the n bytes of b from p on.   *)

(* The newlines of a buffer, and memchr(p, '\n', n): the first of them     *)
(* among n bytes from p on, if there is one.                               *)
Newlines(b) == {i \in 0 .. Len(b) - 1 : b[i + 1] = NL}
FirstNL(nls, p, n) ==
  {i \in nls : i \in p .. p + n - 1 /\ \A j \in nls : j \in p .. i => j = i}

(* The loop of rpc_conn_received_head, on avail bytes from cont on; in all *)
(* rounds but the first, bl is the byte before cont.  A round takes one    *)
(* byte too many off avail, and looks one byte too far.                    *)
From(cont, avail, first) == [cont |-> cont, avail |-> avail, first |-> first]

ScanHead(nls, p, n) ==
  LET scan[at \in [cont : Nat, avail : 0 .. n, first : BOOLEAN]] ==
        \E el \in FirstNL(nls, at.cont, at.avail) :
          LET left == at.avail - (el + 1 - at.cont)
          IN  \/ ~at.first /\ el = at.cont
              \/ left = 0 /\ el + 1 \in nls
              \/ \E bl \in FirstNL(nls, el + 1, left) :
                   \/ bl = el + 1
                   \/ LET left2 == left - (bl + 1 - el)
                      IN  left2 > 0 /\ scan[From(bl + 1, left2, FALSE)]
  IN  scan[From(p, n, TRUE)]

(* Behind rbuf is memory that is not the connection's. *)
ReceivedHead(g) ==
  \E nls \in {Newlines(Append(rbuf, g))} : ScanHead(nls, rcurr, rbytes)

(* Each line is ended with NUL before it is looked at. *)
Nulled(ends) == [i \in DOMAIN rbuf |-> IF i - 1 \in ends THEN NUL ELSE rbuf[i]]

(* Where the line at p ends, or None. *)
None == -1
EndOfLine[p \in Nat] ==
  LET ends == FirstNL(Newlines(rbuf), p, rcurr + rbytes - p)
  IN  IF ends = {} THEN None ELSE Min(ends)

(* There is a line at p, it ends at el, and it is one of kind k. *)
Opens(p, el, k) == el # None /\ p < el /\ rbuf[p + 1].k = k

(* The result, the head, and what becomes of buffer and cursor. *)
Outcome(res, ends, p, head) ==
  [res |-> res, buf |-> Nulled(ends), p |-> p, n |-> rcurr + rbytes - p,
   head |-> head]

(* rpc_request_parse and rpc_response_parse.  A line that does not open a  *)
(* message is not consumed, but its newline is gone; the other two lines   *)
(* are consumed whatever they hold.                                        *)
Parse ==
  LET e1  == EndOfLine[rcurr]
      e2  == EndOfLine[e1 + 1]
      e3  == EndOfLine[e2 + 1]
      len == rbuf[e2 + 2].v
      Failed(ends) == Outcome("Error", ends, 1 + Max(ends), NoHead)
  IN  IF ~Opens(rcurr, e1, "call") THEN Outcome("Error", {e1}, rcurr, NoHead)
      ELSE IF ~Opens(e1 + 1, e2, "seq") THEN Failed({e1, e2})
      ELSE IF ~Opens(e2 + 1, e3, "len")
              \/ EndOfLine[e3 + 1] # e3 + 1
           THEN Failed({e1, e2, e3})
      ELSE Outcome(IF rcurr + rbytes - (e3 + 2) >= len THEN "OK" ELSE "NeedData",
                   {e1, e2, e3}, e3 + 2, [seq |-> rbuf[e1 + 2].v, len |-> len])

-----------------------------------------------------------------------------
(* One round of the loop in cb_req_read and cb_rsp_read. *)

(* The message is handled: its body, and what is left behind it. *)
Deliver(buf, p, n, head) ==
  /\ handled' = Append(handled,
       [seq |-> head.seq, body |-> SubSeq(buf, p + 1, p + head.len)])
  /\ rbuf' = buf
  /\ rcurr' = p + head.len
  /\ rbytes' = n - head.len
  /\ unprocess' = NoHead

WaitForMore ==
  /\ pc = "handle"
  /\ \/ rbytes = 0
     \/ /\ rbytes > 0 /\ unprocess = NoHead
        /\ \E g \in Garbage : ~ReceivedHead(g)
     \/ rbytes > 0 /\ unprocess # NoHead /\ rbytes < unprocess.len
  /\ pc' = "poll"
  /\ UNCHANGED <<senderVars, sock, bufVars, num_allocs, unprocess, handled,
                 misread>>

(* A head is awaited and has been received. *)
HeadReceived ==
  /\ pc = "handle" /\ rbytes > 0 /\ unprocess = NoHead
  /\ \E g \in Garbage : ReceivedHead(g)

(* Mutant of AfterMessage: one message for each read event. *)
AfterOneMessage == "poll"

(* The loop goes on. *)
AfterMessage == "handle"

(* The head is there and its body too. *)
HandleMessage ==
  /\ HeadReceived
  /\ \E m \in {Parse} :
       m.res = "OK" /\ Deliver(m.buf, m.p, m.n, m.head)
  /\ pc' = AfterMessage
  /\ UNCHANGED <<senderVars, sock, num_allocs, misread>>

(* The head alone: it is copied, and the body awaited. *)
KeepHead ==
  /\ HeadReceived
  /\ \E m \in {Parse} :
       /\ m.res = "NeedData"
       /\ rbuf' = m.buf /\ rcurr' = m.p /\ rbytes' = m.n
       /\ unprocess' = m.head
  /\ pc' = "poll"
  /\ UNCHANGED <<senderVars, sock, num_allocs, handled, misread>>

(* Mutant of LeftBy: what has been read is thrown away. *)
NothingLeft(m) == 0

(* What is unread when parsing has failed. *)
LeftBy(m) == m.n

(* The callback returns; nobody is told. *)
ParseError ==
  /\ HeadReceived
  /\ \E m \in {Parse} :
       /\ m.res = "Error"
       /\ rbuf' = m.buf /\ rcurr' = m.p /\ rbytes' = LeftBy(m)
  /\ misread' = TRUE
  /\ pc' = "poll"
  /\ UNCHANGED <<senderVars, sock, num_allocs, unprocess, handled>>

(* The body of a head that was kept. *)
TakeBody ==
  /\ pc = "handle" /\ rbytes > 0 /\ unprocess # NoHead
  /\ rbytes >= unprocess.len
  /\ Deliver(rbuf, rcurr, rbytes, unprocess)
  /\ UNCHANGED <<senderVars, sock, pc, num_allocs, misread>>

-----------------------------------------------------------------------------
Sender == Format \/ (\E n \in 1 .. SockSize : SendMsg(n))
Peer   == \E how \in {"closed", "reset"} : PeerGoes(how)
Reader ==
  \/ ReadEvent \/ Grow \/ GiveUp \/ (\E n \in 1 .. SockSize : Read(n))
  \/ ReadEnd
  \/ WaitForMore \/ HandleMessage \/ KeepHead \/ ParseError \/ TakeBody

Next == Sender \/ Peer \/ Reader

Spec == Init /\ [][Next]_vars

(* The write thread and the event loop keep running, what was sent         *)
(* arrives, and realloc does not fail for ever.                            *)
FairSpec == Spec /\ WF_vars(Sender) /\ WF_vars(Reader) /\ SF_vars(Grow)

-----------------------------------------------------------------------------
(* The types; what is unread lies within rbuf. *)
TypeOK ==
  /\ sent \in 0 .. Count /\ cut \in BOOLEAN /\ misread \in BOOLEAN
  /\ iov \in Seq(Symbols) /\ sock \in Seq(Symbols) /\ Len(sock) <= SockSize
  /\ peer \in {"open", "closed", "reset"}
  /\ pc \in {"poll", "read", "handle", "closed", "crashed"}
  /\ rbuf \in Seq(Symbols) /\ rcurr \in Nat /\ rbytes \in Nat
  /\ rcurr + rbytes <= Len(rbuf)
  /\ num_allocs \in 0 .. MaxReallocs
  /\ unprocess \in [seq : Int, len : Nat]
  /\ Len(handled) <= Count

Sent == [i \in 1 .. sent |-> Message(i)]

Stream == FlattenSeq([i \in 1 .. sent |-> Bytes(i)])
Consumed ==
  Len(FlattenSeq([i \in 1 .. Len(handled) |-> Bytes(i)]))
  + IF unprocess = NoHead THEN 0 ELSE Len(Bytes(1)) - Len(Bodies[1])

(* What has been sent and is not consumed, and what ought to be. *)
Pending == Unread \o sock \o iov
Due     == SubSeq(Stream, Consumed + 1, Len(Stream))

(* However the stream is split, and whatever is left in rbuf, the messages *)
(* handled are the first ones sent, in order, with the seq and the body    *)
(* they were sent with; and no byte is lost, repeated or moved on its way  *)
(* through read_from_conn and the parser: what is unread in rbuf, on the   *)
(* socket and still with the sender is the stream from the reader's        *)
(* position on.                                                            *)
StreamIsKept ==
  /\ IsPrefix(handled, Sent)
  /\ ~cut /\ ~misread => Pending = Due

(* A connection whose parser has failed once never handles a message       *)
(* again: the line at the cursor is refused at every read event, and never *)
(* consumed.                                                               *)
MisreadIsFinal == [][misread => UNCHANGED handled]_vars

(* A reader that has misread nothing knows whose body it waits for, and    *)
(* what it does not have yet is due next.                                  *)
Aligned ==
  /\ unprocess # NoHead =>
       /\ Len(handled) < sent
       /\ unprocess = [seq |-> Len(handled) + 1, len |-> Len(Bodies[Len(handled) + 1])]
  /\ IsPrefix(Pending, Due)

(* A reader that has misread a head stands in the middle of it. *)
Deaf ==
  /\ unprocess = NoHead
  /\ IF Pending = <<>> THEN cut ELSE Pending[1].k # "call"

IInv ==
  /\ TypeOK /\ StreamIsKept
  /\ IF misread THEN Deaf ELSE Aligned
  /\ cut => iov = <<>>
  /\ pc = "read" => rcurr = 0

(* rbuf was filled to the last byte, and read is called until more comes. *)
ReadSpins == pc = "read" /\ rbytes < Len(rbuf) /\ sock = <<>>

(* While the peer stays, every message is handled in the end, unless       *)
(* rpc_send_message cut one short, the parser was called on half a head,   *)
(* or the reader is left in read because the stream filled rbuf.           *)
MessagesAreHandled ==
  <>[](\/ Len(handled) = sent
       \/ cut \/ misread \/ ReadSpins \/ peer # "open")
=============================================================================
