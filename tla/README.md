# lim-server in TLA+

This directory models lim-server (a reactor-style TCP and HTTP server in C++) in
TLA+: the event loop and its threads, connections and the server that owns them,
buffers, asynchronous logging, and on top of them HTTP with its router, middlewares
and sessions. TLC checks the modules on small instances; TLAPS proves the most
important invariants, and all the refinements, for all values of the
constants. Paths below are relative to the repository's root (`net/src/...`,
`base/src/...`, `http/src/...`).

## 1. Inventory

| Component | State | Operations | Talks to |
|---|---|---|---|
| EventLoop (`net/src/EventLoop.cc`) | `quit_`, `callingPendingFunctors_`, `pendingFunctors_` (mutex), eventfd, `activeChannels_` | `loop`, `quit`, `runInLoop`, `queueInLoop`, `wakeup`, `handleRead`, `doPendingFunctors` | any thread hands it tasks; Poller; Channels |
| EventLoopThread | `loop_` (mutex, condition), `thread_`, the loop on the child's stack | `startLoop`, `threadFunc`, destructor | EventLoop, Thread |
| EventLoopThreadPool | `loops_`, `next_` | `start`, `getNextLoop` | EventLoopThread; used in the base loop's thread only |
| Channel, EPollPoller | `events_`, `revents_`, `index_`, `tie_`; `channels_`, epoll's interest set | `enable*`, `disable*`, `remove`, `handleEvent`; `poll`, `updateChannel`, `removeChannel` | EventLoop; the kernel |
| TcpConnection | `state_`, `channel_`, `inputBuffer_`, `outputBuffer_` | `send`, `shutdown`, `forceClose`, `handleRead/Write/Close/Error`, `connectEstablished/Destroyed` | its loop, the user's callbacks, TcpServer, the peer |
| TcpServer | `connections_`, `nextConnId_`, `started_` | `start`, `newConnection`, `removeConnection`, `removeConnectionInLoop`, destructor | Acceptor, pool, connections in other threads |
| Acceptor | `listening_`, `idleFd_` | `listen`, `handleRead` | TcpServer by callback |
| Buffer | `buffer_`, `readerIndex_`, `writerIndex_` | `append`, `retrieve*`, `prepend`, `readFd`, `makeSpace` | TcpConnection, HTTP |
| AsyncLogging (`base/src/AsyncLogging.cc`) | `currentBuffer_`, `nextBuffer_`, `buffers_` (mutex, condition), `running_`, the backend's locals | `append`, `start`, `stop`, `threadFunc` | every thread logs; LogFile |
| Logger, LogStream, LogFile, FileUtil | formatting; the current file, roll and flush times | `append`, `rollFile`, `flush` | AsyncLogging's backend |
| Thread, MutexLock, Condition, CountDownLatch | pthread objects | `start`, `join`, `wait`, `notify`, `countDown` | EventLoopThread, AsyncLogging |
| HttpContext, HttpServer | parser state, request per connection | `parseRequest`, `onConnection`, `onMessage`, `onRequest` | TcpConnection callbacks, Router, middleware |
| Router, MiddlewareChain, CORS, static files | tables filled before `start()` | `route`, `processBefore`, `processAfter` | HttpServer |
| SessionManager, SessionStorage | map of sessions, expiry | `getSession`, `destroySession`, `load`, `save` | request handlers of all I/O threads |

What is hard here: tasks and wakeups between threads; the end of an object that
another thread is using (a loop, a channel, a server); one connection ended by the
peer, the user, the server and the process at once; short writes; buffers that
change hands without a copy; the order in which `stop()` and the last `append()`
fall; the last descriptor, taken by somebody else; requests cut anywhere, or sent
two at a time; a middleware that throws; a session that one request destroys while
another holds it. `PROJECT.json` lists these hazards line by line with the properties that
cover them.

What makes each component correct:

* **EventLoop**: no task is lost, repeated, overtaken or left behind a blocked
  `epoll_wait`; tasks do not starve I/O; `quit()` is obeyed.
* **EventLoopThread**: the pointer from `startLoop()` is good while nobody makes the
  loop quit; the destructor joins the thread and returns.
* **Channel/Poller**: `index_` and `events_` agree with the kernel.
* **TcpConnection**: bytes in order, EPOLLOUT watched exactly when needed, shutdown
  after the output, one UP and one DOWN, removal in the end, no channel left in
  epoll.
* **TcpServer, Acceptor, pool**: started once; every connection up, then down, then
  closed, across two loops; the spare descriptor survives; no client waits for ever;
  descriptors come back.
* **Buffer**: a queue of bytes; indices in order and in bounds.
* **AsyncLogging**: lines in order and written in time; the asserts on the spare
  buffers hold; `stop()` returns and (claimed, not true) loses nothing.
* **HTTP**: requests read as they were sent, however they are cut; routed by the
  documented priority; middlewares an onion; one answer each, in order.
* **Session**: nobody gets another's session; one in use is kept; one that was
  logged out of or has lapsed does not come back.

## 2. Modules

| Module | Models |
|---|---|
| `TaskQueue` | what `queueInLoop` promises: a FIFO queue of tasks, each run once (abstract) |
| `EventLoop` | one loop, its thread as a program counter `pc`, any number of callers; refines `TaskQueue` |
| `EventLoopThread` | EXTENDS `EventLoop` with `startLoop`, `threadFunc`, the destructor, and users of the loop |
| `Channel` | a channel and its registration as a value, with the poller's operations on it |
| `TcpConnection` | EXTENDS `Channel`: one connection, its loop's turn, callbacks, user threads, server, peer |
| `Connections` | what a TcpServer promises of its connections (abstract) |
| `TcpServer` | the server, its Acceptor, its pool of loops and all its connections; refines `Connections` |
| `ByteQueue` | what a Buffer promises: a sequence of bytes (abstract) |
| `Buffer` | the vector and its two indices; refines `ByteQueue` |
| `AsyncLogging` | the logging front, the backend thread and the owner that starts and stops it |
| `HttpContext` | the parser of one connection and the request it fills in |
| `Router` | the four tables, registration and `route()` |
| `Middleware` | EXTENDS `HttpContext`: responses and the CORS middleware |
| `HttpExchange` | what a connection promises an HTTP client (abstract) |
| `HttpServer` | EXTENDS `Router`, `Middleware`: `onConnection`, `onMessage`, `onRequest`, the chain, and a client; refines `HttpExchange` |
| `Session` | sessions, their manager and their map, used by the requests of several I/O threads |
| `EventLoop_proofs`, `EventLoopThread_proofs`, `TcpConnection_proofs`, `TcpServer_proofs`, `Buffer_proofs`, `AsyncLogging_proofs`, `HttpServer_proofs`, `Session_proofs` | the theorems of the module they are named after, and their proofs |
| `MC*`, `*.cfg` | instances for TLC |

The layers are joined by what the lower one promises: `TcpServer` takes from
`EventLoop` that a queued task wakes its loop and from `TcpConnection` that a
connection is told up and down once; `HttpServer` takes from TCP that bytes come in
order and that `send()` does nothing after `shutdown()`; `TcpConnection` takes
from `Buffer` that it is a queue.

### Correspondence with the code

**EventLoop.** Each location of `pc` is a point of `loop()`: `start`, the `while`,
`epoll_wait` (`poll`), the dispatch loop, a callback, the loop of
`doPendingFunctors`, a task, the end. The actions in the loop's thread are the
pieces of `loop()` between points where another thread's step matters: the
reading of `quit_`, the poll, the reading of the eventfd, the swap under the
mutex. A caller's `queueInLoop` and `quit` are two steps, publish and `::write`
to the eventfd; the set `waking` has the threads between them. What tasks and
handlers do is open: while one runs (`handler`, `functor`) the loop's thread may
make any calls itself. The loop's thread has nothing else that the other threads
see. `Poll` is level triggered, as the poller registers its channels, and the
timeout is an empty result. Setting `callingPendingFunctors_` and swapping are
one step because only the loop's own thread's value of the flag matters: for the
others the first disjunct of line 121 is true already.

**EventLoopThread.** `child` and `owner` are the locations in `threadFunc()` and in
`startLoop()`/the destructor. Critical sections of `mutex_` are single steps, but
the child's last one is two, since the destructor takes no lock: it reads `loop_`
(`Destroy`), reads it again for the call (`DestroyReads`), and is then in `quit()`
(`DestroyQuits`), which is EventLoop's, wakeup included. In between a loop that
somebody else has made quit may clear the pointer and leave its frame. What follows
is undefined, and `Access` makes it a choice: the process ends (`crashed`), or
nobody notices. A null pointer always ends it. The same goes for a user's call on
a loop that is gone (`UserCallsDead`), for the second half of a call whose loop ended
after the first (`UserWakes`), and for `mutex_`, which a destructor that finds
`loop_` null destroys while the child may still hold it (`Unlock`). What a stray
write might spoil elsewhere is not followed. `Condition::wait` may return spuriously.
DestroyAtOnce says whether the destructor may run before the child has entered
`loop()`.

**Channel.** A record of `events_`, `index_` and `interest`, the latter what
`epoll_ctl` last established. Failures of `epoll_ctl` are not modelled: that they
cannot happen is `InSync`.

**TcpConnection.** `state`, `channel`, `outputBuffer` are the members; `socket` is
the kernel's end. `phase`, `due`, `functors`, `pendingFunctors` are the loop's turn
as EventLoop describes it: poll, the handlers in the order of
`handleEventWithGuard`, one batch of tasks. Each handler and task is one action;
where it makes a user callback it ends at the callback, and `CallbackReturns` does
what follows (the close callback of `handleClose`, the `remove()` of
`connectDestroyed`, recorded in `after`). In a callback the user may `send`,
`shutdown` and `forceClose`; user threads do the same in three steps each, the
reading of `state_`, its setting, the queueing. A message is a sequence of units,
so a write can be short. `RemoveConnection`, `RemoveConnectionInLoop` and
`ServerDestroyed` are the TcpServer's part for this connection; `sameLoop` says
that there are no I/O threads, when the base loop runs `removeConnectionInLoop` in
place. `Alive` says whether some `shared_ptr` is left. `resurrected` records that a
user thread's late `setState(kDisconnecting)` has overwritten `kDisconnected`;
properties that this makes false say so, and calls end there (a bound).
`inputBuffer_` is abstracted to "input unread"; `disableReading` is not used by
TcpConnection. The high-water callback and the write-complete callback are always
set, which is the case with more behaviours.

**AsyncLogging.** `owner` and `backend` are locations in `start()/stop()` and in
`threadFunc()`. `append()` is one step, under the mutex. The backend's critical
section is `Wait` and `TakeBuffers`; dropping, writing one buffer at a time and
refilling are separate steps, without the mutex. A `unique_ptr` that has been
moved from is `NoBuffer`. A buffer that holds exactly its capacity is impossible
because `avail() > len` is strict. The notice "Dropped log messages" that goes to
the file and the calls of `flush()` are left out: no property is about them, and
LogFile itself is external. What a buffer holds in all (`Used`) is a recursive
function of its length, which the proofs can unfold. `LinesInOrder` says of the whole
output (file, backlog, queue, current buffer) that it has each line that was logged,
fits a buffer and was not dropped, and any two of them in the order in which they
were logged.

**TcpServer.** Loop 0 is `baseLoop_`, the others are the pool's. Of a loop's
iteration remain its queue, the batch that `doPendingFunctors()` has swapped out
(which keeps its connections alive until the last task has run) and the look at
`quit_`; a stopped loop's queue goes with the loop. `startLoop()` returns before its
thread calls `loop()`, which clears `quit_`: a pool's loop gets tasks from then on but
enters (`EnterLoop`) when it likes, and a quit before that is lost. The four system
calls of the EMFILE path are four actions, so that others may open descriptors in
between; `stolen` records that they did. Existence of a connection (`Exists`) is what the
`shared_ptr`s say: the map or some task refers to it. `~TcpServer` runs after
the base loop has returned, as in every program of the repository; its body and
then its members, last declared first, are the steps of the end: a connection at a
time, the map, one I/O thread after the other (`joining` counts those told to quit,
and the next is told when the last has ended), the acceptor.

**Buffer.** A record of the vector's size and contents and both indices; member
functions are operators on such records, and each public call is an action.
`std::copy`, `resize` and the two pieces of `readv` move real bytes, stale ones
included. Preconditions (`retrieve` excepted, which checks) are guards. Widths
are not modelled: no index exceeds the vector's size, which is what `TypeOK` says.

**HttpContext, HttpServer.** A stream is a sequence of tokens: a request line, a
header line, CRLF, a byte of a body, which may look like a line end. `OnMessage(n)`
moves any number of tokens from the wire to the input buffer and each round of
`parseRequest()`'s loop is an action, every early return a disjunct or an action of
its own; what a failed request line leaves in the request is kept (`LineProcessed`).
`std::stoull` throwing and the failing assertion of `setMethod()` end the process
(`aborted`). `onRequest()` is a step per call of user code: `before()`s, the
route, the handler, `after()`s in reverse, each of which may return, throw a
response or a `std::exception`, with the `catch` clauses in `Throw` and the inner one
of `processAfter()` in `UserAfter`, or throw what is neither, which nobody catches and
which ends the process (`ThrowOther`). `threw` remembers that a call has thrown. What
`setHttpCallback()` was given is user code like a handler (`UserHandler`, also for a
request that no route wants); `DefaultCallback` is the 404 of a program that gave
nothing. User code may set or clear the close flag. Messages whose framing the parser reads differently from the client (a GET
with a body, a header line without a colon) are not sent by the model's client
(`MessagesType`, `MessagesFramed`): "the request as sent" has no meaning for them.

**Router.** A path is a sequence of segments, of which some may be empty (`/user/` has
an empty second one); `convertToRegex` makes a parameter match one non-empty segment
(`Captures`), so that `GET /user/` does not reach `/user/:id`; the order of the four
searches is that of `route()`.
Patterns with other regular-expression characters are not modelled.

**Session.** A request is a thread's walk through `getSession()` (`Load`, `Create` or
`Reuse`, `Refresh`, `Save`), one use of the session, `updateSession()` where the
handler changed something, and the response that carries the cookie. There are no
locks in the code. Operations that do not overlap in time are separate steps and
interleave freely; where two may overlap and one writes (the map, the random
generator, the fields of one session), the behaviour is undefined, and the model
stops (`raced`): the properties speak of executions in which that has not happened.
A session's lifetime begins again at each refresh; `lapsed`, `heldAtEnd`,
`loggedOut` and `overlapped` remember what had ended, and who held it then.

## 3. What the runs check

| Run | Instance | Shows |
|---|---|---|
| `event_loop_thread` | owner, one user, two tasks, one socket, 3 pending | `NoLostWakeup`, `StartLoopGivesLoop`, refinement of `TaskQueue`, `EveryFunctorRuns`, `IoNotStarved`, `StartLoopReturns`, `DestructorReturns` |
| `tcp_connection` | one user thread with one call, callbacks with a message of two units, high-water mark 2 | nine properties, below |
| `async_logging` | five lines (lengths 1, 1, 2, 2, 3), buffers of which 2 units can be used, backlog limit 2 | `SparesSuffice`, `LinesInOrder`, `EveryLineWritten`, `StopCompletes` |
| `buffer` | reserve 2, initial size 2, extrabuf 2, strings of one and two bytes, 3 readable | index order, refinement of `ByteQueue` |
| `tcp_server` | 0 to 2 I/O threads, two callers of `start()`, three clients, three descriptors of which others may take one | `SpareKept`, `WaitingServed`, `DescriptorReturned`, refinement of `Connections` |
| `http_server` | two requests out of seven, two routes out of five, chains of no or two middlewares | `RequestsAsSent`, `RoutedAsRegistered`, `Onion`, refinement of `HttpExchange`, `EveryRequestAnswered` |
| `session` | two threads, two clients, two sessions, `maxAge` 1, time up to 2 | `Isolation`, `ActiveKept`, `LogoutFinal`, `LapseFinal` |

`tcp_connection` checks: `WireInOrder` (kernel output, then `outputBuffer_`, is what
was taken over), `EpollInSync`, `WatchedIffBuffered` (of `events_`, which
`EpollInSync` ties to the kernel's registration), `UpThenDown`,
`NoDanglingChannel` (a dead connection's channel is out of epoll and the poller),
`ShutdownKeepsOutput` (no SHUT_WR of an open connection with output left),
`PeerCloseRemoves`, `ShutdownCompletes`.

What some of the others say, with their exceptions, which are the code's:

* `StartLoopGivesLoop`, of executions in which only the destructor makes the loop quit:
  the pointer is good from `startLoop()` to the destructor's call, and if the process
  dies of a loop that is gone, it does so in the `wakeup()` of the destructor's own
  `quit()`. `DestructorReturns` is for all executions: the destructor returns, or
  the process dies in it (`crashed`). What it forbids is a wait without end.
* `DescriptorReturned` except the connections whose removal waits for ever in the
  queue of the base loop, which has stopped, while `~TcpServer` hangs in the
  `join()` of a thread whose quit was lost (`QuitLost`); no others. It is
  `quit_before_loop` seen from above.
* `SpareKept`, `WaitingServed` except executions in which the rest of the program
  took a descriptor during the EMFILE path and the spare could not be opened again
  (`stolen`); from then on the base loop spins on a client it can neither accept
  nor turn away.
* `Connections` lets connections be dropped without a DOWN once the server is being
  destroyed: tasks that are pending when a loop has returned are never run.
* `EveryRequestAnswered` is about a client that waits for each answer. One that
  pipelines may wait for ever: `onMessage()` handles one request, and a second that
  came with it stays in the buffer until the next bytes come. Order and
  one-answer-each hold for both (`HttpExchange`). It excepts a process that has ended
  (`aborted`): `std::stoull`, the assertion, or what nobody catches.
* `Onion` lets the answer go out early only if the last call has thrown (`threw`),
  and `RoutedAsRegistered` gives a parameter no empty segment.
* `LogoutFinal` and `LapseFinal` except sessions that another request held when they
  ended: that request saves or refreshes them again, which brings them back.

Five more runs show where the code does not do what a comment of it says:

| Run | The code | The comment |
|---|---|---|
| `quit_before_loop` | `loop()` clears `quit_`; a destructor that came first joins for ever | `net/src/EventLoopThread.cc:16` |
| `channel_outlives_connection` | `connectDestroyed` leaves `kDisconnecting`; a queued send registers the channel again | `net/src/Channel.cc:30` |
| `lines_lost_at_stop` | the backend leaves without the front's buffers | `base/include/AsyncLogging.h:42` |
| `http_assert` | after a 400 the context keeps its method; the same line parsed again fails `setMethod()`'s assertion | `http/src/HttpRequest.cc:8` |
| `http_preflight` | OPTIONS is no method to `setMethod()`: 400 before any middleware | `http/include/CorsMiddleware.h:7` |

Three more disagreements have no run, since a property against them could only
restate the line: between `quit_ = true` and `wakeup()` of another thread the loop
may return and be destroyed (`net/src/EventLoop.cc:97`, although
`net/include/EventLoop.h:55` allows calls across threads), which `event_loop_thread`
has in its model as a possible end of the process; a `send()` of another
thread still queued when `shutdown()` closes the write end is dropped
(`net/src/TcpConnection.cc:269` says the data has been sent); and
`net/src/IgnoreSigPipe.cc` is in no `CMakeLists.txt`, so that a write after a reset
raises SIGPIPE (`SigPipeIgnored = FALSE` in `TcpConnection`).

**Bounds.** Two callers suffice for a lost wakeup (one in the middle of its call,
one beginning) and the properties treat callers alike; three pending tasks give a
batch, a task queued during it and one behind. A message of two units can be
split once, and a second message queued behind the rest. `MaxTasks` limits when
calls begin, not what the code queues itself; `MaxCalls = 1` is raised to 2 where a
finding needs `send()` and `shutdown()`. Three buffers are a backlog of more than
two, so dropping happens. With a reserve of 2, room for 2 and 3 readable bytes a
buffer fills up, moves, grows and overflows into extrabuf. Three clients and
three descriptors leave, besides the spare, two: accepting, running out and turning
away all happen, and with two pool threads the round robin wraps. Two requests
are what one may leave to the next; the seven messages have a repeated header,
a body with a line end, HTTP/1.0 with an empty segment, `Connection: close`, a bad length, a bad version
and OPTIONS; two routes are enough for each pair of the priority. Two threads and
two sessions have every pair of steps of two requests and a session that replaces
another; the clock passes a session's end. The theorems remove the bounds for the
properties they cover.

**Deadlock** is not checked: a loop that has quit, a connection that is gone, a
logger that was stopped, a server that was destroyed, a process that has ended and a
client that has sent all it wants have no next step, rightly; a buffer that is full up to its bound and a
clock at its bound end a run.

**Fairness.** The operating system runs every thread: weak fairness of the loop's
steps, of a caller between the halves of a call, of the backend and of the owner in
a call it has begun. `epoll_wait` is owed a return only when something it watches is
ready; neither the ten-second timeout nor traffic is assumed. Users, peers and
owners need not do anything, but the destructor, once begun, goes on, and a thread of
a pool gets to its loop. Callbacks and tasks return (`LoopThreadProgress`,
`CallbackReturns`). For a connection whose output is watched, room in the kernel
comes again and again (strong fairness): the peer, while it stays, reads. The
backend's wait is timed, so it ends. In `TcpServer` loops, callers of `start()` and
the destructor go on; the acceptor has strong fairness, since a listening socket that
is readable is reported by every poll and handled in that iteration, so that tasks
of the base loop, which disable it for a while, cannot keep it waiting. In
`HttpServer` the loop's thread goes on; the client owes nothing. `Session` and
`Buffer` promise nothing about progress.

## 4. What is proved

All proofs are by TLAPS, for every value of the constants allowed by the named
assumptions.

* `EventLoop_proofs`. `LoopInv` (types; `callingPendingFunctors_` is true exactly
  while a batch runs; there is a batch only then) is inductive, with which
  `Refinement` shows `SafetySpec => Tasks!Spec`: the swap is a stutter because the
  batch is empty before it, the start of a task is `Run`, publishing is `Put`.
  `NoWakeupIsLost` needs more: from the check of `quit_` to the swap's return a
  pending task has a wakeup due (`PendingInv`; between the reading of the eventfd
  and the swap it needs none, which is why `NoLostWakeup` alone is not inductive),
  and a quit seen at `poll` was another thread's (`QuitInv`). It assumes
  `~QueueBeforeLoop`: without it the statement is false, since line 121 does not
  wake when the loop's own thread queues before `loop()`.
* `EventLoopThread_proofs`. `RunsAnEventLoop`: every step of the thread and of its
  owner is a step of `EventLoop` or leaves it alone, so the theorems above hold of
  the loop that an EventLoopThread runs (`ThreadRefinement`,
  `ThreadLosesNoWakeup`). `PointerIsGood` needs where owner and child can be at the
  same time (`ReturnedInv`, `ChildInv`): `loop_` is set exactly while the child is in
  `loop()`, and an owner that runs has seen it. That a crash can only come from the
  destructor's own `wakeup()` takes two more parts: `CallersInv`, who can be between
  the halves of a call, and `CrashInv`, where the process can have ended; the lemma
  `DeadLoop` says that while nobody else has made it quit, a loop that has ended was
  ended by the destructor.
* `TcpConnection_proofs`. `IInv`: types, the tasks queued and in the callers' hands
  are well formed (`TaskInv`), the units on the wire and taken over are units
  (`DataInv`), with `WireInOrder` and `EpollInSync`. One lemma per group of
  actions; `ChannelOps` says that the poller's operations keep a channel in step,
  `SplitSeq` and `ConcatAssoc` are the sequence facts of a short write.
  On top of it `LifeInv` gives the four properties of the connection's life.
  None of them is inductive, because what a handler or a task may do depends on what
  is queued behind it: `FirstInv` puts `connectEstablished` before any other task,
  `ConnectingInv` says that before it nothing has happened to the connection and
  nobody else has it, `CallInv` that user threads queue neither it nor
  `connectDestroyed`, `TurnInv` that what is left over of a turn belongs to where the
  loop is, and `EndInv` ties `state_` to the channel, to what the user has heard and
  to the removal that is on its way through `closeCallback_`, the base loop and
  `connectDestroyed`. `EndInv` has the exceptions of the properties: a server that is
  being destroyed, and a user thread's `setState` that comes after the end.
* `TcpServer_proofs`. `IInv` has four parts. `ControlInv`: types, one thread at most
  starts the pool, a loop has a batch only while it runs it, the server is destroyed
  after its loop has returned. `ConnsInv`: a connection's state tells what its callback
  was told (`ConnInv`); tasks are in the loop they belong to (`TaskInv`);
  `connectEstablished` is the first task of its connection in its loop (`OrderInv`,
  without which a `connectDestroyed` might overtake it); a connection is connecting
  exactly while that task waits (`PendingInv`); and none is given up while it may be
  connected (`HeldInv`, which during `~TcpServer` speaks of the connections not yet
  visited). `SpareInv`: where the spare descriptor is at each step of the EMFILE path.
  `FdInv`: never more descriptors than there are, by cardinalities of the finite
  sets of connections. `SpareIsKept` follows, and `Refinement`, which maps every step
  of the server to a step of `Connections` or a stutter.
* `AsyncLogging_proofs`. `IInv`: the front's spare is missing only when a buffer was
  queued (`FrontInv`), and the backend has either both spares or enough buffers to
  make them (`BackInv`). Together they are what makes the asserts of lines 124 and
  131 hold; neither is visible from `SparesSuffice` alone.
  `LinesAlwaysInOrder` adds `LineInv`: no line is logged twice, the spares are empty,
  nothing is written that is still queued, and `Output`, the concatenation of all that
  holds lines, is in the order of logging. Taking the buffers, writing one and
  refilling regroup the concatenation without changing it; an append adds to its end;
  `DropBacklog` cuts a piece out of its middle. The first lemmas of the module derive
  induction over the natural numbers from the well-foundedness of `<`, and from it that
  a function may be defined by recursion and what `FlattenSeq` and `Used` give:
  the library's own induction theorems take an operator, which no prover here can
  instantiate.
* `HttpServer_proofs`. `TypeInv`: types of the request, the response, the chain's index
  and the stream, with which no finished request stays in the context between two
  callbacks (`TypeCorrect`). `OnionInv`: the number of calls made, by where
  `onRequest()` is; nothing is called before it runs, and it leaves the layers early only
  when a call has thrown. `RoutesInv`: a static table has the keys of the
  routes registered in it, each with the last one's handler, and a list of patterns is
  an increasing enumeration of the registrations. `StaticLookup` and `RegexLookup` read
  from it what one table answers, `RouteWanted` what the four do, and since the server's
  tables are not written once it has started, `RoutesAlwaysHonoured` follows. The
  assumptions are types: `RoutesType`, `ChainsType`, `MessagesType` (a path is a
  sequence of strings, a header line has a field and a value, ...), `NumeralType`
  (`std::stoull` gives a natural number) and `KInvalidApart` (no word of a request line
  is the value that stands for `kInvalid`).
  `StreamInv` is what `RequestsAlwaysAsSent` needs: there is an alignment (`Aligned`) of
  the messages sent with what is in the buffer and on the wire, one long stream, and
  the parser's state tells how far into the current message it is and what the request
  has by then (`Progress`): all of it before the line, the first `h` headers
  (`AtHeaders`), everything but the body (`AtBody`), everything. Sending appends to the
  stream, a callback moves the border between wire and buffer, a step of
  `parseRequest()` shifts the alignment by what it consumes, and since the buffer is
  then the rest of the current message (`Facing`), the line it finds is the next one of
  that message (`RequestLineIs`, `HeaderLineIs`). `LastIn` says what a sequence of pairs
  makes of keys, the last counting; that the fold over the query computes it is an
  induction over the sets of its indices, made like the one above. One assumption is
  more than a type: `MessagesFramed`, the Content-Length of a message, where the parser
  looks at it, is its body's, and without one there is no body. A client that breaks
  it has no requests that the server could read as sent.
  `ExchangeInv` counts: while the connection is open and the process runs there is an
  answer to each request handled but for the one `onRequest()` is at. With it each `send()` on an open
  connection is an `Answer` of `HttpExchange` and each message an `Ask`, and the rest
  are stutters; that the request answered was asked is `StreamInv` again, also for the
  400, whose request line is the current message's.
* `Buffer_proofs`. One lemma per member function: a good buffer (`Good`: types, index
  order, and a vector not shorter than the reserve) becomes a good one, and its
  readable bytes are the abstract ones. `MovesForward`: where `makeSpace()` moves, it
  moves towards the front, so its `std::copy` of overlapping ranges is defined, and
  the room is enough. The reserve's place in `Good` is what `retrieveAll()` needs;
  `TypeOK` alone is not inductive. `Refinement` follows by `StepFacts`.
* `Session_proofs`. `IInv` has types and what is known to have been made (`TypeInv`);
  `OwnInv`, a session has one client for all time, through cookies and requests
  under way, which is stronger than `Isolation`'s look at cookies alone;
  `ExpiryInv`, `expiryTime_` is the last use plus `maxAge`, and whatever is past it
  is `lapsed`; `LapseInv`, a lapsed session that nobody held is expired for good;
  and `KeptInv`: live sessions are in the map from the time a client may learn of
  them, a request that came with one has it, and who was logged in still is. One
  lemma per conjunct, one case per step, and `TickStep` for the clock. The
  theorems share the model's limit: they speak up to the first overlap of unlocked
  operations.

Five modules are shown to implement an abstract one: `EventLoop` (and with it
`EventLoopThread`) a `TaskQueue`, `Buffer` a `ByteQueue`, `TcpServer` its `Connections`,
`HttpServer` an `HttpExchange`.

Every safety property of a passing run is a theorem. Only model-checked are the
liveness properties: fairness is out of this prover's reach.

## 5. Not modelled

* **LogFile and FileUtil**: rolling by size, day and flush interval depends on the
  clock and the file system in one thread; AsyncLogging takes `LogFile::append` as
  external.
* **Formatting and conversion** (Logger, LogStream, Timestamp, InetAddress, the text of
  `HttpResponse`): no state, no order, no concurrency.
* **StaticFileReader, MimeType, JsonUtil**: pure functions of a path or a text and of
  the file system.
* **Regular expressions** beyond literal segments and `:name` parameters.
* **EventLoop**'s one-loop-per-thread check and its thread assertions; of `EPollPoller`
  the growth of its event list; of `Channel` `disableReading`, which nothing uses.
* **Programs that destroy a TcpServer while its base loop runs**, or a loop with calls
  on it under way: nothing in the repository does, and the code makes no provision.
* **What user code does to a request**: `before()` gets a copy of it that it may
  change before `route()` reads it. And bodies of responses.
* **What undefined accesses spoil**: a process that survives one goes on unharmed.
* **The length a reader of a Buffer asks for**: `ByteQueue` takes any, so a caller
  that retrieves too much or too little is the caller's affair (`HttpContext` for
  requests, `WireInOrder` for output).
* The test programs and the bundled JSON library.

What a continuation could add: LogFile's rolls, with a clock that stands still or
jumps a day; two HTTP connections over one chain, once middlewares have state of
their own.
