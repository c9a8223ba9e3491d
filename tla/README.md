# Verification of spiderweb

spiderweb is a C++ library of event loops, timers, sockets, processes, threads
and containers over asio. This directory holds TLA+ models of its stateful
parts, the TLC configurations that check them on small instances, and proofs,
checked by TLAPS, that hold for every size. Paths below are relative to the
repository; the file `PROJECT.json` maps every definition to the lines it models.

## 1. The system

One `EventLoop` runs per thread. Whatever happens is a handler the loop runs:
completions of asio operations, expired timers, tasks posted by `QueueTask`,
deletes posted by `DeleteLater`. Between the moment an operation completes and
the moment its handler runs, other handlers run, and they may close the socket,
stop the timer or delete the object. Most of what is hard in this code lies in
that gap. The rest lies between threads: `Thread`, `Future`, the wait groups and
the emission of a `Notify` share state across loops.

| Component | State | Operations | Talks to | What is hard | What makes it right |
|---|---|---|---|---|---|
| `io::Buffer` | vector, `ridx`, `widx` | write, prepare and commit, read, unread, peek, compact | IoPrivate, the user | unsigned cursors, compaction and growth under a given-out pointer | it is a byte queue |
| `io::IoPrivate` with `TcpSocket` | `stopped`, `close_called`, two buffers, the asio socket, `q` | open, read loop, write, close, stop, delete | asio, Buffer, the owner's signals | handlers that were overtaken by a close; an owner that is gone | order of bytes, one watcher, one Error, no use of a deleted owner |
| `UdsSocket`, `SerialPort`, `NamedPipe`, `SocketCan` | the same, and how each opens | Open, Close, Write, delete | IoPrivate | a failed open that was not stopped, a stream that is replaced while its handlers are queued | descriptors are given back, every Open is answered |
| `TcpServer`, `UdsServer` | acceptor, the client of the pending accept, `q` | ListenAndServ, Stop, delete, the accept loop | TcpSocket, the user | a stop or a delete around a completed accept | one accept at a time, no client is lost |
| `UdpSocket` | one receive buffer, `stopped`, `close_called`, `q` | Open, Bind, SendTo, Close, delete | asio | the next receive reuses the buffer | one receive, closed when stopped |
| `TcpSocketConnector` | `pending`; per attempt a socket and a timer | ConnectToHost, CancelConnect, three slots | TcpSocket, Timer | deadline, answer, cancel and next attempt race | one answer per attempt, nothing leaked or used after deletion |
| `Process`, `ProcessFd`, `subprocess.h` | child, its pipes, a poll timer, the state | Start, AsyncStop, the poll, the ends of the pipes, delete | Timer, IoPrivate, the kernel | three ends in any order, seven steps of creation that may each fail, signals emitted in mid-call | nothing leaks, output comes before the end, a stop is answered |
| `Timer` | `is_running`, `singal_shot`, `timeoutms`, the asio wait | Start, Reset, Stop, SetInterval, delete | asio, the user's callback | a queued expiry cannot be recalled; the callback runs inside the handler | a running timer is armed, a timeout is timely and wanted |
| `EventLoop`, `Object`, `Notify` | queue, `current_loop`, the object's loop and thread, connections | Exec, ExecEx, Quit, Connect, Emit, DeleteLater | everything | emission on another thread, nested slots, what runs after Quit | slots run at home, once and in order; nobody uses what is gone |
| `Thread`, `ThreadData` | `loop`, `once_`, `std::thread` | Start, QueueTask, Quit, Call | EventLoop, callers on other threads | `loop` is read and used with nothing locked | calls and Quit return, the worker is gone after `~Thread` |
| `Future` | per context: state, result, `then`, mutex | Resolve, ResolveError, Then, OnError | other threads, chains of futures | Resolve on one thread against Then on another | each continuation runs once, with the result |
| `WaitGroup`, `AsyncWaitGroup` (two classes of that name) | a counter, a mutex | Done, Wait, Add, Clear | other threads | lost wake-ups, a counter that wraps, emission under a mutex | passed and reported with the last Done, once |
| `ObjectPool`, `SyncUnboundedQueue`, `Synchronized` | blocks per thread and shared; a queue behind a lock | Get, Put; PushBack, PopFront, Swap, FrontDo | other threads | objects that move between threads, a function under the lock | nothing lost or doubled, in order |
| `SequenceHash`, `BiMap`, `Tree` | hash and linked list; two maps over one store; nodes in rings | insertion, removal, move, graft, walks | the user | links that must agree after any history of calls | order, inverse maps, one owner for each node |
| JSON and XML reflection | a document and an object | write, dump, parse, read | yyjson, pugixml | empty, null, absent, repeated | what is written is read back |
| Qt event dispatcher over epoll | registered events with reference counts, `m_interrupt`, `m_wakeups` | processEvents, register, wakeUp, interrupt | Qt, another thread | receivers that unregister what epoll already reported; nested loops; the wake-up flag | no lost wake-up, no event to what is gone |
| value types, encodings, `Signals`, test helpers | | | | | not modelled, section 6 |

`PROJECT.json` lists the same components with their files and, under
`hazards`, the lines where each of these difficulties bites.

## 2. The modules

| Module | Models | Source |
|---|---|---|
| `BufferOps` | the operations of `io::Buffer` as functions on a record of memory, capacity and cursors | `spiderweb/io/spiderweb_buffer.cc` |
| `Buffer` | one action per call of Buffer; refines `ByteQueue` | same |
| `ByteQueue` | abstract: a stream of numbered bytes, read once and in order | what Buffer promises |
| `IoStream` | IoPrivate, TcpSocket, its owner's deletion, both buffers, the loop's queue and the network | `spiderweb/io/private/spiderweb_stream_private.h`, `spiderweb/net/spiderweb_tcp_socket.cc` |
| `Device` | the owners of a stream that open differently | `spiderweb/net/spiderweb_uds_socket.cc`, `spiderweb/serial/`, `spiderweb/io/spiderweb_named_pipe.cc` |
| `Server` | acceptor, accept loop, clients handed over | `spiderweb/net/private/spiderweb_tcp_server_private.h` |
| `UdpSocket` | receive loop, sends, what waits in the kernel | `spiderweb/net/spiderweb_udp_socket.cc` |
| `Connector` | attempts with their sockets and timers, the slots, the loop's queue | `spiderweb/net/spiderweb_tcp_socket_connector.cc` |
| `Subprocess` | creation, polling, termination and cleaning up of a child on POSIX | `spiderweb/core/subprocess.h` |
| `Process` | Process over `Subprocess` with two ProcessFds and the poll timer | `spiderweb/core/spiderweb_process.cc`, `spiderweb/io/spiderweb_process_fd.cc` |
| `Timer` | Timer over `asio::steady_timer` and the loop's queue | `spiderweb/core/spiderweb_timer.cc` |
| `EventLoop` | loops, objects, connections, emission within and between threads | `spiderweb/core/spiderweb_eventloop.cc`, `spiderweb_object.cc`, `include/spiderweb/core/spiderweb_notify.h` |
| `Thread` | callers and the worker, split at every look at `loop` | `spiderweb/core/spiderweb_thread.cc`, `include/spiderweb/core/spiderweb_thread_data.h` |
| `Future` | contexts, continuations and the call stacks of the threads | `include/spiderweb/core/spiderweb_future.h` |
| `WaitGroup`, `AsyncWaitGroup` | the two groups of `spiderweb_waiter.h` | `spiderweb/core/spiderweb_waiter.cc` |
| `CountGroup` | the other class AsyncWaitGroup, for one thread | `include/spiderweb/core/spiderweb_async_wait_group.h` |
| `ObjectPool`, `SyncQueue` | by number of objects; by element | `include/spiderweb/core/spiderweb_object_pool.h`, `spiderweb_unbounded_queue.h`, `spiderweb_synchronized.h` |
| `SequenceHash` | the container on a heap whose addresses are reused; each call is bound to a step of `OrderedKeys` | `include/spiderweb/core/spiderweb_sequence_hash.h` |
| `OrderedKeys` | abstract: the sequences of keys that the calls promise | comment and tests of SequenceHash |
| `BiMap` | store and two maps; refines `OneToOne` | `include/spiderweb/core/spiderweb_bimap.h` |
| `OneToOne` | abstract: a map in which no two values share their right key | what BiMap promises |
| `Tree` | nodes with their four pointers, and both walks | `include/spiderweb/core/spiderweb_tree.h` |
| `JsonReflect`, `XmlReflect` | the generic code that turns structs into documents and back | `include/spiderweb/reflect/`, `spiderweb/reflect/` |
| `EPoll` | the dispatcher, its events and the other thread's wakeUp | `Qt/EventLoopEPoll/` |
| `MC*` | instances for TLC; `MCContainers` is the part of `MCData` that is proved about | |
| `ContainerLemmas`, `DataProofs`, `IoStreamProofs`, `ProcessProofs`, `TimerProofs`, `NetProofs`, `SharedProofs`, `LoopProofs` | lemmas and theorems (section 5) | |

How they compose. `IoStream` extends `BufferOps`: its two buffers are real ones
with cursors and a vector that is compacted and reallocated, since the pointers
handed to asio are what can go wrong. `Process` extends `Subprocess`: the calls of
the library are conjuncts of the steps of the class. `Connector` contains only the
opening of a socket and the one expiry of its timer, `Device` and `Process` only what is
pending on a stream, `Thread` only a queue of tasks; `IoStream`, `Timer` and
`EventLoop` have the rest.

How they correspond to the code:

- **One handler, one step.** A handler, with every call it makes that changes
  state, is one action. Where code follows a callback, the handler is split there and
  the user acts in between: `phase` in `Timer`, `stack` in `Process`, `running` in
  `EventLoop`, the events still `todo` in `EPoll`. A callback that is the last thing a
  handler does is left to the next step, where the user may do anything.
- **The loop's queue** is a sequence of completed operations and posted tasks and
  deletes in the order they were completed or posted (`ready`, `tasks`, `queue`).
  Closing or cancelling completes what is pending with an error at the end of the
  queue. It does not touch what is already queued, as in asio.
- **Memory.** `IoStream` numbers the bytes, and a pending read or write keeps the
  offset into the vector it was given and the vector's capacity, so that
  compaction or growth under it shows in the bytes that arrive. In `SequenceHash`,
  `BiMap`, `Tree` and `EPoll` a freed address may be allocated again.
- **Deletion.** Handlers that hold a shared private part go on after their object is
  deleted, as in the code, and report through `q`, which the destructor cleared.
- **Threads.** A step is what happens between taking and releasing a mutex, or one
  access outside it. A thread's remaining work is a stack (`Future`) or a label.
- **Width.** The counters of the wait groups wrap at `Modulus`; `JsonReflect` cuts
  what it reads to `IntBits`.
- **Documents** are trees of tagged nodes, not text. What yyjson and pugixml do to
  a document on its way through text (blank text is dropped, numbers keep their
  sign) is an action `Send`.
- **Time.** `Timer` counts ticks; `Connector`, `Process` and `EPoll` let a deadline pass at any
  moment.

### Rules of use

Many operations are right only for callers who use them in a certain way. Each
model names these rules. Some modules have a constant that says which of them the
user follows. In the others the user follows none: a history variable `broken`
records which were broken, and each property names what it rests on, so one run
covers careful and careless users. In `EventLoop` and `Server` a behaviour ends with the
step that breaks a rule, as that step's effect is all there is to see.

| Module | Rule | Why |
|---|---|---|
| IoStream | `oneWrite`: Write only when BytesWritten reported all earlier writes | asked for by `spiderweb_tcp_socket.h:55-57`; a Write moves the buffer that is being sent |
| | `noReuse`: connect a socket once, disconnect only after that | `close_called` is never cleared |
| | `closeFirst`: delete only a closed socket, that stays closed | a pending read reports through the null `q` |
| Device | `openOnce`, `closeFirst` | as in IoStream |
| | `openFirst`: Close only after Open | SocketCan dereferences a stream that is made in Open |
| Server | `acceptWorks`: an accept fails only because the acceptor was closed | after any other error no accept is started again |
| | `stopFirst`, `drainFirst`: destroy, or listen again, when the accepts of before were handled | a completed accept starts the next on the new acceptor, or leaves its client to nobody |
| UdpSocket | `openOnce` | `close_called` is never cleared |
| Connector | `waitForAnswer`, `deleteIdle`, `noOptions`, `goodAddress` | see the module |
| Process | `destroyIdle`: destroy only a Process that is not running | the destructor leaves child and handlers behind |
| | `destroyStarted`: destroy only one that was started | the destructor cleans up a struct that nothing was written to |
| | `assign`: a ProcessFd takes what it is given | a refused descriptor is owned by nobody |
| Timer | `noRestart`: Start and Reset only on a timer that is new or timed out | a queued expiry cannot tell that it was overtaken |
| | `quietCallback`: the callback of a repeating timer does not Start, Reset or Stop it | the rest of the handler overwrites what it did |
| | `stopFirst`: a stopped timer is deleted, and by DeleteLater | a queued expiry reads the destroyed Private |
| EventLoop | `madeAtHome`: an object with a parent is made on the parent's thread | it takes the parent's loop and the maker's thread, which then disagree |
| | `connectOnce`: one slot for a notify | a second Connect replaces the first |
| | `deleteOnce`, `lastWords`, `loopLast` | tasks hold a bare pointer to the object, objects one to the loop |
| Thread | `noOverlap`, `loopStays`, `notOnItself`, `whenRunning` | see the module; the second and the last are assertions in the code |
| Future | `oneContinuation`: one Then or OnError per future | `then` is overwritten, the result is moved away |
| WaitGroup, AsyncWaitGroup | `noExtra`: Done is called as often as was announced | the counter wraps and nothing is reported again |
| | `oneWaiter`: one thread waits | Done wakes one |
| | `quietSlot`: the slot of Finished neither calls Done nor deletes the group | it runs with the mutex held |
| CountGroup | `noStale`: tasks of one Add are through before the next | a task cannot tell which Add it belongs to |
| SyncQueue | `quietFunction`: the function of FrontDo and BackDo does not use the queue | the mutex is not recursive |
| | `emptySwap`: the queue passed to Swap is empty | what it holds goes back into the shared one |
| SequenceHash | `notBeforeHead`, `notAfterTail`: no push in front of the first or after the last key | both leave the ends of the list wrong |
| Tree | `notOwn`: no tree is grafted into itself; `overNone`: move-assign only to a tree that was moved from | a ring without a root; the old nodes leak |
| JsonReflect | `noEmpty`, `narrow`, `onceList` | see below |
| XmlReflect | `onePath`, `noNull`, `noBlank` | see below |
| EPoll | `nestedKeeps`: a nested loop unregisters nothing | an outer loop goes on with the event it is processing |
| | `postedFlat`: the receiver of a posted event nests no loop | a nested loop may take the outer one's wake-up |

The rules of the reflection say where a value does not come back. In JSON an empty list
and a null pointer are both written as an empty object: the reader asserts that a list is
an array, and makes an object for the pointer. Integers are read by
`yyjson_mut_get_int`, which cuts them to 32 bits; lists are appended to, so reading into
a list that is not empty adds to it. In XML each Write with a path makes its own
tags, and one behind an earlier tag of that name is not found; a null pointer is dereferenced unless
it is a member; text of blanks alone is dropped by the parser.

## 3. The runs

Six runs ask what holds; six show where the code disagrees with its own docs and
tests (section 4). A module of a passing run holds several components side by side,
each with variables of its own; the variable `part`, chosen in the initial state and
never changed, says which of them a behaviour exercises, and the others keep their initial
state. So the state space of a run is the sum, not the product, of its parts, and
nothing is lost: the components either do not use each other or are modelled with
what they need of the other (section 2). All runs finish within two minutes.

| Run | Parts | Question | States | Bounds, and why they suffice |
|---|---|---|---|---|
| `data_rules` | buffer, hash, map, tree, JSON, XML | Does what is put in come out as it was, in order and once? | 51 000 | Buffer: a vector of 2, calls up to 3, 6 bytes: compaction, growth, and growth after compaction. SequenceHash: 4 keys, 5 addresses, 2 containers: an element with neighbours on both sides, moves, reuse of addresses; four of the addresses are exchanged by symmetry. BiMap: 3 keys on either side, so a value that is set can push out two entries. Tree: 5 nodes in 2 trees: a graft of siblings under an inner node. Reflection: every pair of two members out of six types (JSON), two writes under three paths (XML) |
| `net_rules` | connector, server, udp, device | Are attempts and opens answered, clients handed over, descriptors given back? | 76 500 | 2 attempts: a cancelled one and the one begun over it. Server: 6 clients, 3 peers: one accept completed, one pending, one connection waiting, around a stop and a second listen. Udp: 2 opens, 2 datagrams, 1 send. Device: 2 opens for SocketCan's second stream, 2 writes, 2 reads |
| `stream_rules` | stream, process | Do bytes stay in order, does exactly one operation watch a stream, is one Error reported and nothing after it? Does a child's output come before its end and everything go back? | 119 000 | buffers of 2 that grow by 2, 4 bytes each way: both are compacted and grown under pending operations, writes are sent in parts. Process: 2 children, the second started inside a callback of the first; 1 byte per pipe |
| `loop_rules` | thread, loop | Do calls, Quit and `~Thread` return; do slots run at home, once and in order; is nothing used after its end? | 314 300 | 2 callers, one of which may quit or destroy the thread at any point of the other's call, and 2 tasks. EventLoop: 2 threads, 1 object, 1 notify, 3 emissions, slots inside slots |
| `timer_rules` | timer, epoll | What holds of a timer whatever the user does; is a wake-up ever lost, or an event sent to what is gone? | 297 300 | two intervals, user calls while fewer than 3 completions wait: a stale expiry, an aborted wait and a delete can be queued at once. EPoll: a timer, a zero timer, both notifiers of a socket; one nested loop; up to 2 calls in receivers, or one and 2 posts |
| `shared_rules` | future, wait, async, count, pool, queue | Do threads that share these get each result, wake-up and object once? | 141 500 | 4 futures: a chain of three and one beside it, or a Then whose callback returns a future; groups of 2 with a counter that wraps at 4 or 16 and up to 5 Dones; blocks of 2 with 6 objects in use; 2 elements per thread |

No user has to call anything, so all of these systems may stop, and deadlock is not
checked; what must go on is stated as liveness.

Every property has a mutant in `PROJECT.json`: a plausible slip in the modelled code
under which TLC finds that property violated. The mutated forms are the definitions
marked `Mutant` in the modules.

### Fairness

- `IoStream`, `Device`, `Server`, `Connector`, `Timer`, `Process`, `EventLoop`: weak fairness of the loop.
  `io_service::run` takes the next handler as long as there is one. Nothing is assumed of
  users, nor of peers: `DisconnectReported` holds although no read, write or connect need
  ever complete by itself, as closing completes them. In `Timer`, `Connector` and `Process` time passes
  and an expired wait is noticed; asio does both. The kernel accepts who waits (`Server`)
  and ends a connect (`Device`). In `Process` killed children exit, and the pipe of a child that
  is gone ends: `StopAnswered` fails for a grandchild that keeps it open for ever.
- `Future`, `Thread`, `AsyncWaitGroup`, `WaitGroup`: weak fairness of each thread inside a call.
  Fairness of taking a mutex is not needed, as it is never held while foreign code
  runs, except where a rule of use says so. No fairness of beginning a call.
- `EPoll`: the thread that runs the loop goes on unless its outermost loop waits with the wake-up
  descriptor empty, and a thread that set the flag writes the descriptor. That no event
  is promised to a waiting loop is what makes `NeverAsleep` say something.

In a composed run an unused part is never asked to move.

### What the properties say

- **Buffer.** `BytesIntact`, `QueueSpec`: whatever is compacted, grown or unread, it is a byte queue.
- **SequenceHash.** `HashListed`, `InsertionOrder`: a traversal in either direction shows exactly the
  elements of the hash in the promised order, and every allocated node is some container's.
- **BiMap, Tree.** `BothWays`, `OneToOneSpec`: the maps are inverse to each other, and what a value that
  is set pushes out leaves both. `TreesWalk`: every node is met once, in the order nodes were
  added, after any adds, grafts and moves.
- **Reflection.** `ReadsBack`: members come back as they were; one the peer left out, or made null, keeps
  what the target had and disturbs no other.
- **Connector.** `AttemptsAnswered`: one answer per attempt, `pending` is the attempt under way, and
  the slots' plain pointers are never used after a delete. `KeepsEstablished`: no deadline closes
  a socket that was handed out. `AllAnswered`: each attempt, and each Open of a device.
- **Server.** `ClientsHandedOver`: one accept at a time, and every client waits in it, is handed over or
  is deleted. `Served`: who connects is accepted.
- **UdpSocket, Device.** `EndsClosed`: a stopped socket has given its descriptor back, whichever of open,
  read and write failed, and nothing is reported through a null or replaced object.
- **IoStream.** `SentInOrder`, `ReceivedInOrder`: bytes arrive once, in order, whatever
  the buffers do under pending operations. `OneWatch`: while a stream runs, exactly one
  connect or read, pending or completed, can tell it that the peer is gone; `NoStalledWrite`
  is the same for writes. `ErrorOnce`, `SilentAfterError`: the two or three handlers that
  one close aborts report it once, and nothing after it. `NoGoneUse`: nothing is reported
  through the null owner. `DisconnectReported`: a user who disconnects hears of it.
- **Process.** `ChildReleased`: a Process that is not running owns no child, pipe, file or ProcessFd,
  whichever step of creation failed. `OutputBeforeStopped`, `StopAnswered`.
- **Timer.** `Kept`: a running timer has a pending wait or a queued expiry, whatever
  order restarts, callbacks and expiries come in, and a single shot gives one timeout per start.
  `OnlyWhenDue`, `TimesOut`: with the rules each of them names.
- **EPoll.** `Registered`: an event info lives as long as it is registered or some loop, nested or not, has
  yet to process it, and events go only to what is registered. `NeverAsleep`: posted events are
  sent however the wake-up falls between the read of the descriptor, the reset of the
  flag and the wait, and a loop that was told to exit ends.
- **EventLoop, Thread.** `NoGoneUse`, `RunsAtHome`, `CallsReturn`, and `Deleted`: a DeleteLater behind a Quit still
  deletes, as ExecEx runs what is queued behind the stop.
- **Future.** `Continuations`: a continuation runs once at most, with the first result, and none falls
  between the thread that attaches and the one that resolves. `NoRace`: no one
  changes a result another is about to read outside the mutex. `Propagates`: chains finish.
- **Groups, pool, queue.** `Groups`: nobody passes early, Finished and AllDone come once and with the
  last Done. `GroupsEnd`: whoever waits alone or reports returns. `HandedOutOnce`: no object is
  lost or doubled and the pool grows only with use; elements leave in each pusher's order.

## 4. What the code does against its own docs and tests

| Run | Finding |
|---|---|
| `stream_delete` | BytesRead and BytesWritten are emitted through `q`, which the owner's destructor set to null, although a comment beside them says that `q` may have gone. |
| `hash_front` | PushFront on a container that is not empty cuts the list behind the former first element. |
| `future_inner` | The error of a future that a Then callback returned is cast to `absl::any`, which throws; the outer future stays pending. |
| `connector_cancel` | CancelConnect that finds a successful connect queued is answered by ConnectionEstablished, with a closed socket. |
| `udp_overwrite` | The next receive is started before the datagram is taken out of the one buffer: of two that wait, the second is delivered twice. |
| `process_kill` | The poll reaps an exited child and zeroes its pid; AsyncStop before both pipes ended then kills process group 0, the caller's own. |

The rules of use mark more of the same kind. Leaving one out
makes TLC show why it is there: without `noReuse` a socket that was connected
a second time can no longer be closed; without `notAfterTail` the next PushBack lands before the
last element; without `quietCallback` a Stop in the callback of a repeating timer has no effect;
without `oneWrite` the peer gets other bytes; without `acceptWorks` a server is deaf after one failed
accept; without `postedFlat` a posted event waits for the next unrelated one.

## 5. The proofs

TLC checks one instance; the following hold for all values of the constants. Each proof has the
same shape: an inductive invariant, which TLC checked before it was proved, one lemma per action, and
lemmas about the sequences, stacks and counts the model is built from. A module that proves what a run
checks extends the module of that run, so that the theorem is about the very property of the run.

**Buffer** (`DataProofs`, over `ContainerLemmas`). `BufferTypeSafety`, `Intact` and `QueueRefinement`, for
every capacity and any calls. The inductive invariant is `TypeOK /\ BytesIntact`: the cursors lie
inside the vector, and everything below `widx`, the part already read included, is the newest
stretch of what was written. The part already read is needed because UnReadBytes gives it
back. With it each call is one step of `ByteQueue`, where `next` and `floor` are the unread and the
retrievable part. There is one lemma for each operation of `BufferOps`; the proofs of
`IoStream` cite the same lemmas.

**IoStream** (`IoStreamProofs`). `TypeSafety`, `WatchSafety`, `WriteSafety`, `ErrorSafety`,
`ReceiveSafety` and `Silence`, for buffers of every size and any number of bytes and
completions. The inductive invariant joins:

- `TypeOK`: the types, with the cursors of both buffers in range;
- `Untouched`: before the first open nothing has happened, so nothing old is pending;
- `Shut`: a closed socket has no pending operation, and a stopped stream is closed;
- `Reported`: `ErrorOnce`, and no error counted yet when an open failed;
- `OneWatch` and `NoStalledWrite`: one watcher while the stream runs, and one writer exactly when
  data waits;
- `RecvInv`: the pending read points at the receive buffer's write cursor with the space behind
  it, a completed read of n bytes has exactly those n bytes there (`Received`), and the buffer
  holds what was committed; `Holds(send, accepted)`: the send buffer holds what was accepted.

Type correctness alone is not inductive: a commit is only in range when the read was given that
space. There is one lemma per action, one section per operation on queues of completions (append,
tail, concatenation, abort), and `Inductive` joins them. All of them assume that `noReuse` is among the rules, since the invariant
does not hold of a reused stream; the six above need no other rule.

Two more follow from the same invariant. `SentSafety`, for users who keep `oneWrite`
as well, needs `SentInv`: what waits in the send buffer is what was not acknowledged, the pending
write has sent as much of it as the peer has beyond that, and a completed one had sent all.
`GoneSafety`, for users who keep `closeFirst`, needs `GoneInv`: a socket that is being deleted is
closed, and whatever is queued for it that reports through `q` is queued before its delete.

**BiMap** (`DataProofs`). `MapsSafety` and `MapRefinement`, for any finite set of left keys, any values
and any function that gives a value its right key. `BothWays` alone is not inductive: it does not say
that an entry's own keys lead to that entry. The invariant does (`ByLeft`, `ByRight`), and `ByRight` has a parameter, the
entries that are found, as the one that is being set is in the left map and not yet in the right one. `FreshIsFree` counts:
the left map reaches every entry, so a slot is free. The keys are finite only for that count.

**SequenceHash** (`DataProofs`). `HashSafety` and `OrderSafety`, for any keys and containers, finitely many
addresses, and users who keep `notBeforeHead` and `notAfterTail`. The invariant `HashInv` says of each container that there is a
sequence `s` of different nodes (`ListOk`) that are linked one after the other between head and tail (`Chain`) and to
which the hash leads from the keys the calls asked for, in that order (`Indexed`); and of the heap that each node is in
exactly one container (`Owned`), as otherwise an insertion into one could change a node of another. `InsertedList` and
`RemovedList` say what linking in or out at a place does to one list; `Grown` and `Shrunk` are the heaps that the code's
assignments of links amount to. The traversal is a recursive function: `Traversal` shows that it returns `s`, by
induction over its steps (`UpTo`), and that as many steps as there are nodes are enough, as `s` is injective.

**Tree** (`DataProofs`). `TreesSafety`, for any trees, any number of nodes and users who keep `notOwn` and `overNone`:
`TreesWalk`, that is `Owned` and `WalksInOrder` of `Tree`. Neither is inductive: they speak of what walks return, and say
nothing of the links. The invariant `TreeInv` does:

- `Kept`: the first child and the ring of siblings of each node are, in both directions, the sequence of different
  children that the calls asked for;
- `Forested`: each node has a tree and a depth; its children are in the same tree, one deeper, and are no other node's; the
  node of depth 0 is its tree's root, and every other has a parent. This is what keeps rings of parents out. Tree and depth
  are no variables of the model; the invariant says that there are such functions, and each call's lemma gives the next
  ones: a graft moves the grafted tree's nodes to the other tree and down by the depth of their new parent plus one;
- `Near`: no link leaves its tree, so a freed tree leaves no link behind.

`AddedKept` and its lemmas show what AddChildNode's assignments do to each ring, the only place where the heap's links are
rewritten. From the invariant to the walks: `ChildrenPushed` shows that the code's loops around a ring return the children,
forwards and backwards; then a walk's step is one in terms of `asked` (`WalkSteps`). `WalkTotal` is a count: every step shows
a node that was not shown, so the walk has ended after as many steps as there are nodes, and has met all nodes of its tree.
`LevelWalk` and `BranchWalk` show in which order, each by an induction over the steps of the walk: the queue holds the rest of a
level and the children of the part that was shown (`InLevel`); the stack holds the nodes whose branches are still to come.
Ring, walk, level and branch are recursive functions, and their definitions are unfolded one step at a time.

**Process** (`ProcessProofs`). `ReleasedSafety` and `DeliveredSafety`, from `ProcessSafety` and `OutputSafety`, for any number
of starts, of calls inside callbacks and of bytes, whichever of the steps of creation fails. The invariant `ChildInv`:

- `StackInv`: which calls may be inside which callback: Start is creating or attaching at the top of the stack only, and
  the report of the end is the outermost;
- `KidInv`: what there is of a child and of its pipes at each step of creation, and nothing when it failed or was reaped;
- `FdInv`, `AttInv`: each ProcessFd has its read pending or queued, once, until it stopped, and is deleted once after that;
- `PollInv`: the poll is off, waits, or has its one expiry queued, and only while a child runs;
- `OutputInv`: a queued read brings what the child wrote and nobody has read yet, and nothing only when the pipe has ended;
- `CountInv`: each child that was created runs, was reported, or is being reported.

All but the types and the stack hold of users who keep `destroyIdle` and `destroyStarted`. `OutputSafety` is about the step
that reports the end: both ProcessFds have stopped by then, and `OutputInv` says that neither left anything in its pipe.

**Timer** (`TimerProofs`). `KeptSafety` and `DueSafety`, from `ArmedSafety`, `OnceSafety`, `GoneSafety`, `OffSafety`
and `EarlySafety`, for any intervals. The invariant adds to `TypeOK` and `Armed`: a single shot that fired does not run (`ShotInv`);
a timer that runs, or is in its callback, was not stopped by the user's last call (`OnInv`); a timer that is not restarted has one wait,
pending or expired, with no less left than the user asked for (`WaitInv`); and no expiry is queued behind the
delete of a timer that was stopped (`DeleteInv`). Each of the last three depends on a rule in `broken`, so the theorems hold of
users who keep to it and say nothing of the others.

**EPoll** (`TimerProofs`, over `MCTimers`). `CountedSafety` and `RegisteredSafety`, for any timers and sockets, any depth of
nested loops and any calls of receivers. `DispatchInv` says of the infos, the registrations and the stack of processEvents (`Good`):

- `RefsOk`: what is allocated is what somebody has, registration or frame, and is referenced as often;
- `FrameOk`: what a frame holds at each place it can be, so that each Deref has a reference of its own to give up;
- `ItemsOk`: an info that is registered has exactly the items registered for it; what is left of a timer keeps its item, what is
  left of a socket has none;
- `HeldOnce`: what is no longer registered is held by one frame at most. That is why `canProcess`, which only looks for a
  second reference, finds out what is registered, and it is what a receiver that unregisters in a nested loop breaks;
- a bound: there is a number left for every info that may still be allocated.

`KeepTop`, `TakeTop`, `DropTop`, `PushFrame` and `PopFrame` say what each kind of step does to all of this; the lemma of an
action only says which kind it is. `CountedSafety` needs no rule, `RegisteredSafety` needs `nestedKeeps`.

**Connector, Server, UdpSocket, Device** (`NetProofs`). `ConnectorSafety` and `EstablishedSafety`, for any number of
attempts; `ServerSafety`, for any number of clients and peers; `EndsClosedSafety`, for the two others, where the device's user
keeps all of `DeviceRules`. What these invariants have in common is that they say
what may stand behind what in the loop's queue: a section of lemmas is about `Has`, some entry of a kind is queued, and `Never`,
none of one kind is queued behind one of another, and how appending, taking the head and aborting change them.

- Connector: each attempt has one of a pending connect, a queued completion or an answer (`OpenInv`); its timer runs until the
  answer and no expiry is queued behind its delete (`TimerInv`); nothing is deleted before it is answered
  (`DeleteInv`), nor twice (`OnceInv`); and no answer is queued behind the delete of the connector (`LifeInv`).
- Server: one accept is pending or answered where the acceptor listens (`AcceptInv`), and each client is in one place (`ClientInv`).
- UdpSocket and Device: one receive, pending or queued (`OneReceive`); a socket that is stopped has no
  descriptor; reports are queued before the delete that clears `q` (`DeletedClosed`).

**Groups** (`SharedProofs`). `PassSafety`, `WakeSafety` and `GroupsSafety`, for any threads, announced counts and
widths of the counters that hold them. WaitGroup: the counter is what is left until it was counted
down that often, and nobody who keeps the rules waits beside another. `WakeSafety` is the safety half of
`GroupsEnd`: who waits alone is not asleep when the counter is zero. CountGroup: a counter that late tasks brought below
zero has wrapped so far up that the tasks that are still out cannot bring it down again, which
needs `MaxTotal * MaxAdds < CountModulus`.

**Future** (`SharedProofs`). `ContinuationsSafety` and `RaceSafety`, for any threads, futures and results, where the user
keeps `oneContinuation`. The invariant follows each continuation: it is in its context or in the
frame of one thread, never in two places (`Waiting`, `Unique`), as is the work of the callback it leads to
(`Valid`, `Spare`); one that was attached was given the result, is carried, or waits (`Reached`); and the result of a finished
context stays until the one continuation was given it (`Unmoved`), which is why reading it with no mutex held is
no race.

**Queue and pool** (`SharedProofs`). `HandedOutSafety`, for any finite set of threads and blocks of any size.
Queue: what left it, followed by what is in it, has every thread's elements once and in order
(`Ordered`). Pool: `made_ + InMaking <= peak + Slack`, that is, who makes a block is counted as if it had made it already, since two threads may
both have found the shared queue empty; objects in blocks are counted by pairs of a thread and a place in its block.

`SharedSafety` puts these together: each behaviour of the run's specification `MCSpec`, on threads,
futures and groups of any number and size, keeps all of them.

**Thread** (`LoopProofs`). `ThreadSafety`, for any callers and tasks. The invariant `Calm` holds while no rule is broken: who
quits or destroys the thread is the only one inside it; nobody stands between the look at `loop` and its use once the loop may
stop; and a worker that stops has somebody waiting in join.

**EventLoop, Object, Notify** (`LoopProofs`). `LoopSafety`, for any threads, objects, notifies, emissions and depth of nesting.
`QueueOk` says of each loop's queue that what is in it belongs to a living object of that loop, that a delete is the
last task of its object, and that slots wait in the order of their emissions, behind those that ran
(`InOrder`); `NotifyOk` that a notify has one slot, and ran it on its thread. `NoGoneUseSafety` and `RunsAtHomeSafety` state the run's own
properties of `MCSpec`.

**What the theorems assume.** `FutureAssumption`, `ThreadAssumption` and the other assumptions of the modules, which TLC evaluates. Of the
constants: that the announced counts fit their counters (`Sizes`, `AsyncSizes`, `CountSizes`); that there are finitely
many threads and at least one, and blocks are not empty (`PoolSizes`); that there are finitely many addresses, keys, timers
and sockets, and null is no address (`ContainersAssumption`, `DispatchAssumption`); and the rules of use each theorem names.
The values of the runs satisfy all of them. Where rules are recorded in `broken`, `unserved`, `misused` or the like, there is
no hypothesis: the property itself says which ones it rests on.

**Only model-checked.** Liveness under fairness, which is out of TLAPS's reach. `JsonReflect` and
`XmlReflect`, whose operators are RECURSIVE, which takes the SMT backend from every module that reaches them.

## 6. Not modelled

- `Signals`: a wait that is started once, in the constructor, with a handler of a few lines.
- `BitmapReader`, `BitmapWriter`, `BinaryWriter`, the endian helpers: encodings of one value at a time,
  which tests over values reach and no order of calls changes.
- `ErrorCode`, `Variant`, `AnyView`, `BinaryView`, ranges and traits: value types, mostly resolved by the compiler.
- `NotifySpy` (a test helper), `ppk_assert` (it formats and prints), the reflection backends other than
  yyjson and pugixml, and the Windows half of `subprocess.h` with the reads that Process does not use.
- `TcpSocket`: options, local bind and address getters; the settings of the serial line; multicast and
  buffer options of `UdpSocket`; Write of `ProcessFd`, which Process never calls.
- `EventLoop`: RunAfter, a wait of its own that ends in the loop; the shared pointer of MakeObject, which
  calls DeleteLater.
- `Future`: copies and moves of handles, and `Wait`, which is declared and never defined.
- `Thread`: move construction and assignment, GetThreadId, and the life of the object that
  `ThreadData::New` makes.
- `SequenceHash`: the const overload of Backward (it throws for an unknown key).
- Reflection: floating-point and boolean members, converted types, placeholders.
- The dispatcher: the times of timers, disabling by flags, and flush.
- After an undefined step (freed memory used, a failed assertion) a model ends or claims
  nothing more.

## 7. Plan

1. Abstract specifications: a reliable byte pipe for IoStream, an answer-once service for Connector
   and Device together.
2. `EventLoop`: RunAfter, and `Thread` and the posting in other modules shown to use it.
