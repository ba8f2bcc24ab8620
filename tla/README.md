# openrpc in TLA+

A model of openrpc, the RPC library in `src/`: TLA+ modules for its parts, TLC
configurations that check them on small instances, and theorems checked by
TLAPS for every value of the constants. Paths below are relative to the
repository root, so the library's code is `src/*.c`; `PROJECT.json` maps every
definition to the lines it stands for.

Checking a module: `tlc -config SessionPool.cfg MCSessionPool`, and so on for
the pairs in the table of runs; proving: `tlapm SessionPoolProofs.tla`, and so
on for the modules named `...Proofs`.

## 1. The system

    application ── rpc_client_call_async ──> req_pending (rpc_async_queue)
                                                  │
    write thread  thread_write_hander:  pop, session pool insert, seq, format, send
                                                  │  3 connections, used in turn
    worker thread cb_req_read:  read, parse, look up the service, call it, rpc_return
                                                  │
    read thread   cb_rsp_read:  read, parse, session pool get, callback, remove, free

    dispatch thread cb_dispatch_conn: accept ──> worker's rpc_queue + eventfd ──> cb_notify_conn

| Component | State | Operations | Interacts with | Hard part | Correct when |
|---|---|---|---|---|---|
| Session pool (`rpc_sessionpool.c`) | array of slots, size, mutex | new, insert (doubles), get, remove | write thread inserts, read thread gets and removes | size read without the mutex; realloc leaves garbage, or fails with the mutex locked | a number means its item until it is removed; nobody is blocked |
| Call path (`rpc_client.c`, `rpc_thread.c`, `rpc_conn.c`) | queue, pool, recycled `rpc_request`s, `curr_seq`, messages in flight | call_async, write thread, cb_req_read, cb_rsp_read | all of the above | numbers are reused; a request is published before it is numbered, its slot freed before it is | each call answered once, with its own answer |
| Connection I/O (`rpc_conn.c`, `rpc_request.c`, `rpc_response.c`) | rbuf, rcurr, rbytes, unprocess_data, iov | read_from_conn, received_head, parse, copy_head, send_message | socket, event loop | messages split anywhere; short writes; a buffer exactly full; stale bytes | what is handled is what was sent, and all of it |
| Connection life cycle (`rpc_conn.c`) | free list of connections, descriptors, watchers | new, close, from/add freelist | client threads, workers, kernel | a closed connection still in use, its descriptor given out again; `freecurr--` | a connection has one owner, and what is closed stays closed |
| Dispatch (`rpc_thread.c`) | backlog, worker queues, eventfds, `last_thread` | cb_dispatch_conn, cb_notify_conn | kernel, worker loops | eventfd writes add up; push and write are two steps | every connection is registered once, none is NULL |
| Item queues (`rpc_queue.c`, `rpc_async_queue.c`) | heads, tails, `next` links, free list shared by all queues | push, pop | everybody | double-checked free list; item freed before it is read; signals | FIFO, no item in two places, no missed wake-up |
| Start-up (`rpc_server.c`, `rpc_client.c`) | mutex, condition, `init_count` | start, connect, thread handlers | threads | a copied mutex; signal before wait | returns, and not before the threads run |
| Synchronous call (`rpc_client.c`) | eventfd, response on the stack | rpc_client_call, cb_call | call path | timeout against a late answer | the caller gets its own answer or a timeout |
| Free lists (`rpc_array.c`) | arrays of structures | add, get, index | requests, responses, req_conns | lazy creation, growth | a structure has one owner |
| Service registry (`rpc_hash.c`, `hashtable.c`) | hash table | insert, lookup, expand | workers look up while services are registered | no lock | a registered service is found |
| Codes, tokens (`rpc_common.c`) | table of codes | format, str_code, tokenize | parser | the table is re-sorted | number and name agree |
| Utilities (`rpc_util.c`, `rpc_atomic.c`, `rpc_base_thread.c`), samples | – | – | – | – | – |

The hazards, each with its line and the properties that watch it, are listed in
`PROJECT.json`.

## 2. Modules

Modules come in the form *specification*, *MC module* with the instance that
TLC checks, *Proofs*. In a specification, an operator called a mutant states
how a plausible bug would change the definition that follows it; nothing in the
specification uses it.

**SessionPoolOps** has the pool's operations as operators (`NewPool`,
`FirstFree`, `Stored`, `Doubled`, `Removed`). A slot holds an item, `NULL`, or
`Wild`, what realloc found in memory. `Doubled` is the one place where garbage
comes in: the new item goes to slot `old_size`, and every slot after it is
`NULL` or `Wild` (`JunkFor`). **SessionPool** runs the operations in concurrent
threads: a call up to its lock is one step (`CallInsert`, `CallGet`, where the
assertions read `size` without the mutex), a critical section is another
(`Insert`, `InsertFails`, `Get`, `Remove`). The -1 of an insert that failed is
sent and looked up like any other number (`lost`), and ends the process at the
assertion. **SlotTable** is what a pool
promises: a partial map from numbers to items, insert at an unused number,
remove. `SessionPool` implements it with `Entered`, the slots that hold an item,
as the table.

**RpcCall** is the path of a call: queue, write thread (unlink, read the item,
insert, number, send as five steps), workers (one per connection, `curr_seq`),
read thread (lookup, callback, remove, free as four steps). Three things that go
wrong in other modules are steps here, each with a variable that remembers it,
because the properties need them as exceptions: a push refills the item between
the write thread's unlinking and reading it, so that the write thread gets a
later request (`WriterRead`, `upset`); the pool cannot grow and the request is
sent with the number -1 (`WriterInsertFails`, `failed`); and a server may never
register a connection (`Register`, `registered`). Requests are structures that
are recycled with the `seq` and the callback the code finds in them. It takes
the pool from `SessionPoolOps`; messages are whole and ordered on a connection,
which is what `ConnStream` is about. A call in `Sync` is made with
`rpc_client_call`: `frame` is its stack frame, who waits there and what
`cb_call` has written, and the frame (and the eventfd) of the next call is the
same one. `Timeout` may come whenever nothing has been written. A structure
comes from the free list (`Taken`, the last item of the array) or from malloc,
and goes back to it (`AddResults`). **CallPromise** is the promise to the
caller: every call gets one answer, its own, in the end; but for the calls in
`waiting`, which may stay unanswered, and until the promise is `void`.

**ConnStream** is one direction of a connection, byte by byte: the sender's
`sendmsg` loop, a socket of bounded size, `read_from_conn` with its compaction,
doubling and repeated read, `rpc_conn_received_head` with its two off-by-ones,
the parser and the loop of the callback. `rbuf` keeps stale bytes and the NULs
the parser writes, because the code looks at them. Requests and responses are
framed alike; one module stands for both.

**Dispatch** has the dispatch thread in three steps (accept, push, write) and a
worker in three (read the eventfd, unlink an item, read the item and register
its connection). The item is on the free list between the last two, and a push
may take it from there and put a later connection in it (`FillsItemOf`). The
histories `taken` and `since` keep what each worker unlinked, and when.

**ItemQueue** has the queues down to the `next` pointers, with each unlocked
access and each critical section of push and pop a step. **Fifo** is a
first-in-first-out queue; `Content`, the values along the chain, maps one to
the other.

**StartBarrier** is `rpc_server_start` and `rpc_client_connect`; the variable
`side` says which one. The client connects its sockets before it creates
threads, the server listens after its threads are counted, and either may fail.
`init_count++` is a read and a write; a client thread locks its own copy of the
mutex, with the state it had when copied.

**ConnPool** is the life of a connection: `rpc_conn` structures, the free list
they share, descriptors that the kernel hands out again, the event loops that
watch them, and the threads that send on them. A worker that is
notified accepts one of what `Dispatch` gave it (`NewConn`; writes to the eventfd
add up to one notification, as there), reads a request and answers it; the client's
read and write thread share the free list with it, as in `sample/openrpc.c`,
which runs client and server in one process. `rpc_conn_close` is one step
(`Close`); what is said is where a message goes, not what is in it. The history
variable `upset` names what has gone wrong, for the exceptions of the
properties.

**Registry** is the hash table of services: one thread registers while workers
search without a lock. The stores of `hashtable_insert` and `hashtable_expand`
and the loads of `hashtable_search` that can see each other are steps; an
expansion moves one entry at a time. An array that has been freed holds
`Undefined`.

## 3. Runs

| Run | Instance | What it shows |
|---|---|---|
| session_pool | 2 threads, 4 items, 1 slot; 95,172 states | numbers are unique, lookups find their item although `size` is read unlocked, the pool implements `SlotTable`; a realloc failure freezes it for ever, nothing else keeps a call from returning, and only the -1 it returned fails an assertion |
| rpc_call | 3 calls, 3 structures, 2 connections, pool and free list of 1; 63,464 states | every message in flight finds its request, or is the one of the failed insert; the path implements `CallPromise`, liveness included, when all services are registered |
| rpc_call_unknown | 4 calls: 2 that wait, 1 that does not, 1 to an unknown service, 2 structures; 500,878 states | the inductive invariant `IInv`; until a pop returns another request than it unlinked, no request structure has two owners or is twice on the free list, even when answers go to the wrong calls; a call that waits returns its own answer until one has timed out, and its output is not overwritten |
| rpc_call_misdelivery (violated) | 3 calls, 2 known | `AnswersReachTheirCall` fails, see findings |
| conn_stream | 3 messages of 10, 7 and 8 bytes, rbuf of 8 that may double once per event, socket of 8; 33,097 states | the inductive invariant `IInv`; what is handled is a prefix of what was sent; no byte is lost; a misread stream is never read again; only the four named conditions keep a message from being handled |
| dispatch | 4 connections, 2 workers; 116,968 states | the inductive invariant `IInv`; no worker pops an empty queue; each unlinks its share in order and registers it, unless an item is refilled before it is read; a notified worker advances |
| dispatch_stranded (violated) | 3 connections, 1 worker | `AcceptedIsTaken` fails |
| item_queue | 2 pushers, 3 values, one queue of each kind, chunks of 3; 277,097 states | the inductive invariant `IInv`: every item in one place, hands and links agree; FIFO; no missed wake-up |
| item_queue_reuse (violated) | the same, chunks of 2 | `PopReturnsWhatItUnlinked` fails |
| start | 3 threads, 3 connections, both sides; 7,449 states | nobody returns before its threads are counted; the server always returns, the client unless a copied mutex fails it |
| conn_pool | 5 sockets (1 of the client), 2 descriptors, 5 structures, a free list of 1 that may double once; 456,329 states | the inductive invariant `IInv`; a connection has one owner and one descriptor until a write fails; a pop that follows a pop is safe; a message reaches its own peer, unless that has hung up and the sender is the write thread or a write failed; what hung up is closed, unless it is stranded in a queue |
| registry | 5 services, two with the same key, arrays of 2, 3 and 5 buckets, 1 worker; 409,731 states | the inductive invariant `IInv`; an expansion loses and doubles nothing; a search that no expansion overlaps finds what was registered; every search ends |

### Bounds

- *Session pool*: a capacity of 1 instead of 1000 makes the pool double with 2,
  3 and 4 items out, each time with garbage slots that force the next doubling.
  Two threads are what uses a pool in the library. The theorems remove the bounds.
- *Calls*: three structures on two connections let answers overtake each other,
  slots be reused while older messages are in flight, and the pool grow twice or
  fail to; a call after an answer takes a structure and a number that were used
  before, and so do the last two of four calls over two structures. Two calls
  that wait are a late answer and the call that gets it.
  `JunkSeqs` is what a fresh structure's `seq` holds; 0 is the value that
  collides with a slot.
- *Connection*: a line is one symbol and its newline another; 8, 16 and 32 bytes
  of `rbuf` play the part of 2048 and up, and one doubling per event that of
  four, so that a message can be longer than an event can read. The first body
  ends in a newline, where a short first line ends when it is next read. What
  follows a message that was cut short is not modelled (`Format`): to read on
  after a hole needs the bytes inside a line.
- *Dispatch*: two connections for each of two workers are enough to merge two
  notifications; with three for one worker another may come after them. Three are
  enough to refill an item twice, the second time for two workers about to read it.
- *Queues*: three values on two queues with chunks of three items (`ChunkLen`
  for `FREE_ITEM_LEN`, the first item of a chunk going to its caller) empty the
  free list and fill it again; `MaxChunks` bounds malloc.
- *Start*: three threads, one less than `WORKER_LEN`.
- *Connections*: the list's bug needs two connections on the list, a pop that
  finds the empty entry above them, a second pop that finds one, a push and a
  pop that finds the same one again: five sockets over two descriptors are the
  least that do it, with a list of one (`FreeTotal` for 200) that is full with
  the first connection. One request (`MaxAsked`) is one worker sending. The list
  of this run holds three connections only after a failed write; what happens
  then without one takes seven sockets over three descriptors (a list of four,
  no client: 7,011,491 states, where `IInv` and the properties hold too) and is
  covered by the proof for every size.
- *Registry*: five services make the table of two grow twice (0.65 of 53 is 35
  in the code). One worker, because searches only read. The hash values put two
  keys in one bucket in each array. `primes` ends with 5, so the largest size is
  reached as well.

Deadlock checking is off where the system stops: in most instances because
callers make a bounded number of calls, in *session_pool* because a failed
realloc leaves everyone waiting, in *start* because threads end in their loops.

### Fairness

Threads keep running and event loops serve what is ready: weak fairness of each
thread's steps. It is strong where something else can get in between:
`ReadEvent` of one connection among others (libev polls all descriptors),
`Grow`, because realloc may fail now and then but not for ever. Mutexes are
weakly fair because their critical sections end by themselves. Nobody is obliged
to call, register, connect or hang up; in `RpcCall` neither is the server to
register a connection, because `cb_notify_conn` may leave it in the queue. In
`Dispatch` and `ConnPool` a worker registers a connection only when it is
notified, one per notification that it reads. In `ConnPool` each thread is
weakly fair as a whole, and a thread in the loop of `rpc_send_message` does
nothing else.

## 4. Proofs

Each theorem holds for every value of the constants that satisfies the module's
`ASSUME`, which TLC evaluates in the runs: special values (`NULL`, `Wild`,
`Nobody` and so on) are no items, threads or connections, sizes are positive,
sets that are counted are finite. Where an invariant is not inductive, the
component's module ends with the one that is, `IInv`, and a run checks it; so
that TLC and TLAPS speak of the same formula.

**Session pool.** *SessionPoolProofs*, for any threads, items, capacity and
realloc behaviour. It begins with the lemmas about the operators
(`FirstFreeIsFree`, `DoubledIsDoubled`, `InsertStores`), which *RpcCallProofs*
states too:

- `IInvHolds`. Slot numbers being unique (`SlotsAreExclusive`) is not inductive:
  `Remove` would break it if two threads worked on one entry or a thread on one
  no longer out. `IInv` adds `CallersHoldEntries`: a thread between its get and
  its remove works on an entry that is out, alone.
- From it `TypeCorrect`, `SlotNumbersAreUnique`, `LookupsFindTheirItem`,
  `AssertionsFailForLostOnly`: the one number that fails an assertion is the -1
  of the insert that failed, and that there is only one of them is
  `FailureIsFinal`.
- `FailedPoolIsFinal`: after a failed realloc nothing is read or written any more.
- `PoolImplementsSlotTable`: the initial pool is the empty table, an insert in a
  free slot or by doubling is an insert of the table, a remove a remove, and
  every other step a stutter.

**Calls.** *RpcCallProofs*, for any calls, structures, slots and connections,
any known services, and with timeouts:

- `TypeCorrect`: among other things the pool fits its array and the queues hold
  structures only.
- `StructuresHaveOneOwner`: the property counts occurrences, the invariant
  (`Ownership`) says the same with disjoint sets, and adds that the slot of the
  read thread still holds what it found there between lookup and removal. A
  request whose insert failed is an owner's place of its own (`Unslotted`). It
  holds whatever callers of unknown services do to other calls, and until a pop
  returns another request than it unlinked (`upset`): from then on one request
  is in two places and one in none.

In its second part, as long as, too, all services asked for are registered
(`Orderly`; without it the properties fail, see findings):

- `EveryMessageFindsItsRequest`: its number is that of a slot with its request
  (`InSlot`), or the -1 of the failed insert (`Adrift`). A message keeps its
  slot because its number is on its way once: `NumbersAreDistinct` takes the
  requests, responses and read bytes of a connection as one sequence of numbers
  (`Numbers`), which serving and reading leave as it is, sending makes longer by
  the number of a slot that no message names, and a lookup shorter. With it
  `MessagesAreTied`, `ThreadsHoldTheirs` and `LiveAreUnanswered` are inductive
  together.
- `AnswersAreThePromised`: initial states are initial states of `CallPromise`
  and every step is a step of it or a stutter. It is the safety part of the
  property `KeepsPromise`: a callback is run only for a call that has no answer,
  and with its own. The step in which a pop returns the wrong request makes the
  promise void, which is the last thing the abstract specification says.
- `SyncCallsReturnTheirOwn`, `OutputIsKept`: from `FrameIsOwn`, what waits in the
  stack frame of the calling thread. Without a timeout a late answer needs an
  earlier call that is unanswered, and there is none.

**Stream.** *ConnStreamProofs*, for any messages, sizes of the socket and of
`rbuf`, number of doublings and contents of fresh memory:

- `IInvHolds`. What is pending (unread in `rbuf`, in the socket, on the iov) is
  compared with the part of the stream behind the reader's position (`Due`), and
  that is not inductive: a message is handled with the length that was kept with
  its head (`Aligned` ties it to the message whose turn it is), `Read` keeps the
  buffer only because a read event begins with a compaction, and a cut message
  stays cut. `Deaf` says where a reader stands that has misread: in the middle of
  a head, before a line that does not open a message.
- The proof says the same with the number of messages handled (`Follows`,
  `Tracks`). A step adds a message behind what is pending (`FormatAdds`), cuts its
  end off (`SendKeeps`), moves bytes from one part of it to the next
  (`CompactKeeps`, `GrowKeeps`, `ReadKeeps`) or takes a head or a body from its
  front (`TakeDrops`).
- The stream is a concatenation of a list of messages (`FlattenSeq`). That its
  byte at a given place is a byte of a given message (`StreamAt`) is an induction
  over the number of messages, with `SetInduction` as for the item queues.
- Of `rpc_conn_received_head` the proof needs only that it says no where there is
  no newline (`ReceivedHasLine`), since the parser copes with each of its wrong
  answers: on a whole head it reads what was written (`ParseReads`), on a part of
  one it fails and leaves off behind the last line it saw (`ParseFails`), and at a
  line that does not open a message it fails and stays (`ParseRefuses`).
- `StreamStaysKept` and `MisreadStaysFinal` follow. They need nothing of the
  bodies: a body may hold newlines and lines that look like a head's.

**Dispatch.** *DispatchProofs*, for any number of workers and connections:

- `OwedConnectionsAreQueued`: what a worker's eventfd counts, plus the pop it has
  begun, plus the write the dispatch thread is about to do, is at most the
  length of its queue. The pop is a step after the read and the write a step
  after the push, which `PopFindsConnection` alone does not see.
- `PopsFindConnections` follows: a worker never pops NULL, and so never
  registers file descriptor 0.
- `SharesAreKept`: each worker unlinks every `WorkerLen`-th connection, in
  order, and what it registers for one is that connection or one pushed after it
  was unlinked. The first half needs the one before (what is popped is a
  connection), `NextInTurn` (`last_thread` follows the number of accepted
  connections) and arithmetic: one more connection lengthens the share of
  exactly one worker (`ShareGrows`). The second needs `ItemsAreRead`, which says
  of an item that is about to be read what the property says of one that was.

**Connections.** *ConnPoolProofs*, for any workers, sockets, descriptors and
structures and any size of the free list. `IInv` has three layers:

- `Core` holds whatever goes wrong: a structure is watched in its own loop for its
  own descriptor, a peer has one socket, and the structure a thread sends on is
  the way to its peer as long as that peer has a descriptor at all
  (`SendersKnowTheirPeer`), and a peer that has not hung up has one
  (`LivePeersAreConnected`); the array of the free list holds NULL above its first
  place until it has held two, no structure above its second until three.
- `DescriptorsHaveOneUse`, `SendersAreWatching` and what follows from them, as
  long as no write failed: a descriptor is in one watcher or at one place of a
  queue, and a worker that sends is busy, so its loop does not close the
  connection meanwhile, and what it sends goes to the peer whose request it read
  (`WorkersReachTheirPeer`).
- `ListedAreFree`, until the list has held three: a pop with two on the list
  finds no structure above them, a pop with one leaves the list empty. The proof
  attempt found that limit: without it the statement is false, with instances
  larger than the run's.

From it `ConnectionsHaveOneOwner` and the action properties `PopsAreSafe` and
`MessagesGoToTheirPeer`. The last is `Core` for the write thread, whose
connection may be another's by now only when its peer has hung up, and
`WorkersReachTheirPeer` for the workers.

**Item queues.** *ItemQueueProofs*, for any queues, threads, values, chunk length
and number of chunks:

- The properties are about `Chain`, what following the links finds, which no step
  can be reasoned about directly: a chain might be a circle. The proof names the
  lists behind the pointers (`ls`) and the place of every item (`w`); `Inductive`
  says that there are such lists and places, which agree with the links and with
  what the threads hold (`Placed`). A list is linked, has no item twice and ends
  in NULL; an item has one place because `w` is a function.
- That `Chain` finds the lists (`ListsAreChains`) is an induction over their
  length. The induction rules of the library take an operator and cannot be used
  here; `SetInduction` states induction for a set of numbers and follows from
  the well-foundedness of `<`. `DistinctIsShort` (a pigeonhole) shows that the
  walk is long enough.
- Each operation is a lemma: it takes the head of a list (`TailLinked`), puts an
  item behind one (`AppendLinked`) or items before one (`ChunkLinked`), and moves
  the items from one place to another (`Moves`). Links are written only in items
  that the thread has, or in the last item of the queue it has locked, so all
  other lists are as they were (`FrameLinked`).
- `IInvHolds` and `ItemsAreApart` follow, and `QueuesAreFifo`: the step of `Fifo`
  that a link or unlink takes, and that filling an item or a pop that still reads
  a freed one changes nothing that waits.

**Registry.** *RegistryProofs*, for any services, keys, hash values, growing
sizes and workers:

- The properties speak of positions in chains, and one insert moves every entry
  behind it. The proof names the array of each registered service (`at`) instead;
  `Filed` says that a chain has no entry twice and holds just the services whose
  array and hash lead there. Moving or linking an entry changes `at` for one
  service; when the old table is empty, every service is in the new one
  (`SwapFiled`).
- `Phases` says which array and which length belong together while the three
  stores of an expansion (`primeindex`, `table`, `tablelength`) are apart. From
  it a search never leaves the bounds of an array, not even with the length of
  the old table and the buckets of the new one.
- `LookupFollows` says where a search is: at, or before, every service it can
  find. An insert in front of the chain moves both (`LinkFollows`); an entry has
  one successor because it is in one place (`NextOfInChain`).
- `EntriesStayFiled` and `RegisteredAreFound` follow; that a position is within
  the number of services is a pigeonhole (`ChainIsShort`).

**Start-up.** *StartBarrierProofs*, for any number of threads and connections:

- `StartWaitsForAll`, on both sides: `init_count` never runs ahead of the threads
  that have counted themselves (`CountIsNotAhead`), even when copied mutexes
  exclude nobody and increments are lost.
- `ServerCountsAll`: with one mutex the thread in the section is its owner
  (`OneInSection`), so what it read is still the count when it writes.

Only model-checked: liveness (`CallsReturn`, the fairness part of
`KeepsPromise`, `NotifiedWorkerAdvances`, `PushedIsTaken`, `ServerStarts` and the
others) and `ENABLED`, which are outside this prover's reach.

## 5. Findings

1. **A NotFound response goes to another call** (`src/rpc_conn.c:205`). The
   response to an unknown service carries the number of the connection's
   previous request. If that number is in use again, the wrong callback runs and
   the right one never does; if it is -1 or free, the client aborts in
   `rpc_sessionpool_get` or follows NULL. Both samples register their service
   after the server has started.
2. **A connection is stranded** (`src/rpc_thread.c:38`). Two notifications read
   as one pop one connection. The model shows how far the damage goes: the
   worker serves its queue with a lag for ever after (`NotifiedWorkerAdvances`
   holds, `AcceptedIsTaken` does not). `RpcCall` and `ConnPool` take it into
   account: a call over such a connection may never be answered (`Waiting`), and
   such a descriptor is never closed (`Stranded`).
3. **A popped value is read from a freed item** (`src/rpc_queue.c:80`,
   `src/rpc_async_queue.c:82`). The links survive it (`item_queue`), the value
   does not. What comes of it is in `Dispatch` (a connection registered twice and
   another never, `WorkerGetsItsShare`) and in `RpcCall` (a request handled twice
   and another never, after which nothing is promised: `upset`).

Other runs pass because a property names the ways in which the code fails;
without any one of these exceptions TLC finds a counterexample.

*start*, `ClientConnects`: **rpc_client_connect may wait for ever**
(`src/rpc_thread.c:206`), because a client thread locks a copy of the mutex. The
copy may be locked for ever, and it excludes nobody: an increment is lost, or
the signal comes before the wait, which one thread is enough for (`CopyFails`).

*conn_pool*:

- `freeconns[freecurr--]` (`src/rpc_conn.c:45`) reads above the last entry: a
  new list gives NULL, and a list that has held two connections gives one of
  them again while it is in use, or reads beyond a full array
  (`PopAfterPopIsSafe`: a pop that follows a pop is safe, one that follows a push
  is not). Once the list has held three, no pop is safe, and a connection in use
  may be on the list as well (the last exception of `OneOwner`);
- after a write error the loop of `rpc_send_message` goes on with the closed
  connection (`src/rpc_conn.c:375`) and closes it again and again, until SIGPIPE
  ends the process or its descriptor or structure belongs to somebody else, who
  gets the message; and the write thread may send, without any failure, on a
  connection that the read thread has closed and that is another's by now
  (`src/rpc_conn.c:292`). They are the two exceptions of
  `MessagesReachTheirPeer`;
- a descriptor that is stranded in a queue is not closed when its peer hangs up
  (`HungUpIsClosed`);
- with a read error the callback goes on with a closed connection
  (`src/rpc_conn.c:99`), which is the end of the process when bytes are unread.

*registry*: a search that an expansion overlaps may miss a service, or read an
array that has been freed; both samples of a server register while it runs.
When malloc fails and realloc does not, `memset` is given a bucket instead of
an address (`src/hashtable.c:106`).

*rpc_call_unknown*: after a timeout (`src/rpc_client.c:98`) the next
`rpc_client_call` may return the answer of the one before, or the answer is
written on a stack frame that is gone (`SyncReturnsOwn`); the output of a call
lies in a buffer that the next response overwrites (`OutputStaysIntact`).

*conn_stream*, `MessagesAreHandled`:

- `cut`: a short write that ends with an iovec is taken for a complete send
  (`src/rpc_conn.c:364-368`);
- `ReadSpins`: a read that fills `rbuf` is followed by reads that spin on
  EWOULDBLOCK, while complete messages wait (`src/rpc_conn.c:96,104`);
- `misread`: `rpc_conn_received_head` looks one byte beyond what it was given
  (`src/rpc_conn.c:132`); with an old newline there, the parser consumes the
  first line alone and fails, and the connection is deaf from then on
  (`MisreadIsFinal`).

*session_pool*, *rpc_call*: a realloc failure in the session pool leaves the
mutex locked (`src/rpc_sessionpool.c:40-43`, `FailureIsFinal`), and the -1 it
returns is not checked (`src/rpc_thread.c:191`): the request is sent under the
number -1, and its answer ends the client at the assertion of
`rpc_sessionpool_get` (`AssertionsHold`), which comes before the lock.

## 6. What is not modelled

Outside the model: socket options, `\r\n` line ends, memory other than the
pool's, the lists' and `rbuf`'s, the text of codes and messages, the utilities
and the samples. `memcpy` in `read_from_conn` may be given overlapping areas; it
is modelled as the move that the usual C libraries do. `try_pop`, `timed_pop`,
`rpc_async_queue_free` (which calls `try_pop` with the mutex locked),
`rpc_str_code`, `hashtable_remove`, `hashtable_destroy`, the iterators,
`rpc_conn_update_event`, the atomics and the base thread have no callers. With
`CLIENT_THREAD_NUM` 1 the client has one thread, and the race for `last_thread`
(`src/rpc_client.c:120`) has one outcome. The lists of requests, responses and
connections are created by whoever comes first, under a lock that is looked at
without it; the model starts with the lists. The processor's and the compiler's
freedom to reorder the unlocked accesses of the registry is not modelled. A
second `rpc_server_start` after one that failed is not modelled: its threads and
those of the first share their structures.

One queue's push may also refill an item that was just popped from another
queue. `ItemQueue` has that; in `RpcCall` and `Dispatch`, which have one kind of
queue each, it is left out: where client and server run in one process
(`sample/openrpc.c`), a pop may return a pointer as a descriptor or the other way
round, and nothing those two modules say holds after it. `ConnPool` takes the
descriptor a worker pops for the one it unlinked, and a crash there is the end
of the process, which closes all descriptors.

## 7. Plan

Done, in this order: session pool and its proof; call path; dispatch and its
proof; item queues; start-up; the stream of a connection; registry; life of
connections; synchronous calls and the free list of requests; the proofs about
all of them.

What is left of the modules: the whole client with connections that close under
calls, that is `RpcCall` over `ConnPool`, where a call whose connection is gone
is never answered.
