------------------------------ MODULE TcpServer ------------------------------
(***************************************************************************)
(* A TcpServer (net/src/TcpServer.cc) with its Acceptor and its pool of    *)
(* I/O loops: start(), new connections from accept() to the loop that will *)
(* own them, their removal by way of the server's loop, and the end.       *)
(*                                                                         *)
(* Loops are numbered: 0 is baseLoop_, the others are the pool's.  Of a    *)
(* loop's iteration (EventLoop) the parts that matter here are its queue,  *)
(* the batch that doPendingFunctors() has swapped out, which holds its     *)
(* tasks until the last has run, and the look at quit_.  That a queued     *)
(* task wakes the loop is EventLoop's NoLostWakeup.  Of a connection       *)
(* (TcpConnection) its state and what connectionCallback_ was told remain. *)
(* Descriptors are counted: the spare one, those of connections, and those *)
(* of the rest of the program, which may change at any time.               *)
(***************************************************************************)
EXTENDS Naturals, Sequences, FiniteSets

CONSTANTS MaxThreads,    \* bound on the threads of the pool
          Starters,      \* threads that call start()
          BaseThread,    \* the one of them that runs baseLoop_
          MaxClients,    \* bound on the clients that connect
          MaxFds,        \* descriptors the process may have, in excess of the fixed
          MaxOthers      \* bound on those of the rest of the program

ASSUME MaxThreadsType == MaxThreads \in Nat
ASSUME BaseThreadType == BaseThread \in Starters
ASSUME BoundsType == MaxClients \in Nat /\ MaxFds \in Nat \ {0} /\ MaxOthers \in Nat

VARIABLES numThreads,   \* what setThreadNum() was given, before start()
          started,      \* TcpServer::started_
          starting,     \* where each of Starters is in start()
          loops,        \* how many of the pool's loops_ there are
          next,         \* EventLoopThreadPool::next_
          listening,    \* Acceptor::listening_
          idleFd,       \* Acceptor::idleFd_: of /dev/null, of a client, or none
          acc,          \* where the base thread is in Acceptor::handleRead()
          backlog,      \* clients in the listening socket's queue
          arrived,      \* history: clients that have connected
          stolen,       \* history: others took one in handleRead(), and idleFd_ is lost
          others,       \* descriptors of the rest of the program
          nextConnId,   \* TcpServer::nextConnId_
          connections,  \* TcpServer::connections_
          state,        \* of connections: TcpConnection::state_, or "none"
          told,         \* history: the last that connectionCallback_ was told
          loopOf,       \* the loop of a connection
          queue,        \* of loops: pendingFunctors_
          batch,        \* of loops: the functors being run
          done,         \* of loops: how many of those have been run
          loc,          \* of loops: where in the iteration
          quit,         \* of loops: quit_
          server,       \* where ~TcpServer is
          unvisited,    \* connections the loop in ~TcpServer has still to do
          joining       \* how many of the pool's threads it has told to quit

startVars  == <<numThreads, started, starting, loops>>
acceptVars == <<listening, idleFd, acc, backlog, arrived, stolen, others>>
connVars   == <<next, nextConnId, connections, state, told, loopOf>>
loopVars   == <<queue, batch, done, loc, quit>>
serverVars == <<server, unvisited, joining>>
vars == <<startVars, acceptVars, connVars, loopVars, serverVars>>

Base    == 0
IoLoops == 1..MaxThreads
Loops   == 0..MaxThreads
Conns   == 1..MaxClients
NoConn  == 0

\* The base thread is in the middle of handleRead().
Accepting == acc \notin {"idle", "handled"}

Task(what, c) == [what |-> what, conn |-> c]

-----------------------------------------------------------------------------
(* Descriptors.                                                            *)

Refers(tasks, c) == \E i \in DOMAIN tasks : tasks[i].conn = c

\* The TcpConnection exists: the map or a functor has a pointer to it.
Exists(c) == \/ c \in connections
             \/ \E l \in Loops : Refers(queue[l], c) \/ Refers(batch[l], c)

Used == Cardinality({c \in Conns : Exists(c)}) + others
        + (IF idleFd # "none" THEN 1 ELSE 0)

FdFree == Used < MaxFds

-----------------------------------------------------------------------------
Init == /\ numThreads \in 0..MaxThreads
        /\ started = 0 /\ starting = [t \in Starters |-> "no"] /\ loops = 0
        /\ listening = FALSE /\ idleFd = "null" /\ acc = "idle"
        /\ backlog = 0 /\ arrived = 0 /\ stolen = FALSE /\ others = 0
        /\ next = 0 /\ nextConnId = 1 /\ connections = {}
        /\ state = [c \in Conns |-> "none"]
        /\ told = [c \in Conns |-> "none"]
        /\ loopOf = [c \in Conns |-> Base]
        /\ queue = [l \in Loops |-> <<>>] /\ batch = [l \in Loops |-> <<>>]
        /\ done = [l \in Loops |-> 0]
        /\ loc = [l \in Loops |-> "before"]
        /\ quit = [l \in Loops |-> FALSE]
        /\ server = "alive" /\ unvisited = {} /\ joining = 0

-----------------------------------------------------------------------------
(* start().                                                                *)

\* Mutant: the counter is looked at and increased at two times.
FirstToStart_Racy == \A t \in Starters : starting[t] # "done"

\* started_++ == 0
FirstToStart == started = 0

Start(t) ==
    /\ starting[t] = "no" /\ server = "alive"
    /\ t = BaseThread => loc[Base] = "before"
    /\ started' = started + 1
    /\ starting' = [starting EXCEPT ![t] = IF FirstToStart THEN "pool" ELSE "done"]
    /\ UNCHANGED <<numThreads, loops, acceptVars, connVars, loopVars, serverVars>>

\* EventLoopThreadPool::start(): one thread more; startLoop() returns its loop,
\* which the thread may still have to enter.
StartThread(t) ==
    /\ starting[t] = "pool" /\ loops < numThreads
    /\ loops' = loops + 1
    /\ UNCHANGED <<numThreads, started, starting, acceptVars, connVars, loopVars,
                   serverVars>>

\* runInLoop(): at once in the loop's thread.
StartListening(t) ==
    /\ starting[t] = "pool" /\ loops = numThreads
    /\ starting' = [starting EXCEPT ![t] = "done"]
    /\ IF t = BaseThread
       THEN listening' = TRUE /\ UNCHANGED queue
       ELSE queue' = [queue EXCEPT ![Base] = Append(@, Task("listen", NoConn))]
            /\ UNCHANGED listening
    /\ UNCHANGED <<numThreads, started, loops, idleFd, acc, backlog, arrived, stolen, others,
                   connVars, batch, done, loc, quit, serverVars>>

-----------------------------------------------------------------------------
(* Connections, as their loop's thread handles them.                       *)

Told(c, s, what) == /\ state' = [state EXCEPT ![c] = s]
                    /\ told' = [told EXCEPT ![c] = what]

\* connectDestroyed(): only one that is still connected is told.
ConnectDestroyed(c) ==
    IF state[c] = "kConnected" THEN Told(c, "kDisconnected", "down")
                               ELSE UNCHANGED <<state, told>>

\* Mutants: connectDestroyed() is left out; the map keeps its pointer.
Removed_NotErased(c) ==
    /\ UNCHANGED connections
    /\ queue' = [queue EXCEPT ![loopOf[c]] = Append(@, Task("destroyed", c))]
Removed_NoDestroy(c) == connections' = connections \ {c} /\ UNCHANGED queue

\* removeConnectionInLoop(): out of the map, and back to the connection's loop.
Removed(c) ==
    /\ connections' = connections \ {c}
    /\ queue' = [queue EXCEPT ![loopOf[c]] = Append(@, Task("destroyed", c))]

\* The peer closes, or forceClose(): handleClose() and closeCallback_, which is
\* removeConnection().
HandleClose(c) ==
    LET l == loopOf[c]
    IN  /\ loc[l] = "events" /\ state[c] = "kConnected"
        /\ l = Base => ~Accepting
        /\ Told(c, "kDisconnected", "down")
        /\ IF l = Base THEN Removed(c)
           ELSE /\ queue' = [queue EXCEPT ![Base] = Append(@, Task("remove", c))]
                /\ UNCHANGED connections
        /\ UNCHANGED <<startVars, acceptVars, next, nextConnId, loopOf,
                       batch, done, loc, quit, serverVars>>

-----------------------------------------------------------------------------
(* A loop's iteration: events, then tasks, then the look at quit_.         *)

\* loop() is entered, and whoever told it to quit before was not heard.  The look
\* at quit_ comes next, as after a batch of no tasks.
EnterLoop(l) ==
    /\ loc[l] = "before"
    /\ IF l = Base THEN starting[BaseThread] \in {"no", "done"} ELSE l <= loops
    /\ quit' = [quit EXCEPT ![l] = FALSE]
    /\ loc' = [loc EXCEPT ![l] = "tasks"]
    /\ UNCHANGED <<startVars, acceptVars, connVars, queue, batch, done, serverVars>>

TakeBatch(l) ==
    /\ loc[l] = "events"
    /\ l = Base => ~Accepting
    /\ queue[l] # <<>> \/ quit[l] \/ (l = Base /\ acc = "handled")
    /\ batch' = [batch EXCEPT ![l] = queue[l]]
    /\ queue' = [queue EXCEPT ![l] = <<>>]
    /\ done' = [done EXCEPT ![l] = 0]
    /\ loc' = [loc EXCEPT ![l] = "tasks"]
    /\ UNCHANGED <<startVars, acceptVars, connVars, quit, serverVars>>

Running(l, what) == /\ loc[l] = "tasks" /\ done[l] < Len(batch[l])
                    /\ batch[l][done[l] + 1].what = what
                    /\ done' = [done EXCEPT ![l] = @ + 1]

ConnOfTask(l) == batch[l][done[l] + 1].conn

\* Acceptor::listen().
RunListen ==
    /\ Running(Base, "listen")
    /\ listening' = TRUE
    /\ UNCHANGED <<startVars, idleFd, acc, backlog, arrived, stolen, others, connVars,
                   queue, batch, loc, quit, serverVars>>

RunEstablished(l) ==
    /\ Running(l, "established")
    /\ Told(ConnOfTask(l), "kConnected", "up")
    /\ UNCHANGED <<startVars, acceptVars, next, nextConnId, connections, loopOf,
                   queue, batch, loc, quit, serverVars>>

RunRemove ==
    /\ Running(Base, "remove")
    /\ Removed(ConnOfTask(Base))
    /\ UNCHANGED <<startVars, acceptVars, next, nextConnId, state, told, loopOf,
                   batch, loc, quit, serverVars>>

RunDestroyed(l) ==
    /\ Running(l, "destroyed")
    /\ ConnectDestroyed(ConnOfTask(l))
    /\ UNCHANGED <<startVars, acceptVars, next, nextConnId, connections, loopOf,
                   queue, batch, loc, quit, serverVars>>

\* All of the batch has been run, and is destroyed; a loop that stops goes with
\* what is left in its queue, unless it is baseLoop_, which outlives the server.
EndIteration(l) ==
    /\ loc[l] = "tasks" /\ done[l] = Len(batch[l])
    /\ batch' = [batch EXCEPT ![l] = <<>>]
    /\ done' = [done EXCEPT ![l] = 0]
    /\ loc' = [loc EXCEPT ![l] = IF quit[l] THEN "stopped" ELSE "events"]
    /\ queue' = IF quit[l] /\ l # Base THEN [queue EXCEPT ![l] = <<>>] ELSE queue
    /\ acc' = IF l = Base THEN "idle" ELSE acc
    /\ UNCHANGED <<startVars, listening, idleFd, backlog, arrived, stolen, others,
                   connVars, quit, serverVars>>

LoopStep(l) == \/ TakeBatch(l) \/ RunEstablished(l) \/ RunDestroyed(l)
               \/ EndIteration(l)
               \/ l = Base /\ (RunListen \/ RunRemove)

-----------------------------------------------------------------------------
(* Acceptor::handleRead().                                                 *)

\* Once in an iteration.
ReadEvent == loc[Base] = "events" /\ acc = "idle" /\ listening /\ backlog > 0

\* getNextLoop(): the loop, and next_ after it.
NextLoop == IF loops = 0 THEN Base ELSE next + 1
After(n) == IF n + 1 >= loops THEN 0 ELSE n + 1

\* accept() succeeds: newConnection().
NewConnection ==
    LET c == nextConnId
        l == NextLoop
    IN  /\ ReadEvent /\ FdFree
        /\ backlog' = backlog - 1
        /\ next' = IF loops = 0 THEN next ELSE After(next)
        /\ nextConnId' = nextConnId + 1
        /\ connections' = connections \cup {c}
        /\ loopOf' = [loopOf EXCEPT ![c] = l]
        /\ IF l = Base
           THEN Told(c, "kConnected", "up") /\ UNCHANGED queue
           ELSE /\ queue' = [queue EXCEPT ![l] = Append(@, Task("established", c))]
                /\ state' = [state EXCEPT ![c] = "kConnecting"]
                /\ UNCHANGED told
        /\ acc' = "handled"
        /\ UNCHANGED <<startVars, listening, idleFd, arrived, stolen, others,
                       batch, done, loc, quit, serverVars>>

AcceptorAt(here, there) ==
    /\ acc = here /\ acc' = there
    /\ UNCHANGED <<startVars, listening, arrived, others, connVars, loopVars, serverVars>>

\* accept() fails with EMFILE; the four calls that follow.
AcceptFails ==
    /\ ReadEvent /\ ~FdFree
    /\ AcceptorAt("idle", "close")
    /\ UNCHANGED <<idleFd, backlog, stolen>>

\* Mutant: no room is made for the client.
IdleClosed_Kept == idleFd

IdleClosed == "none"

CloseIdle ==
    /\ AcceptorAt("close", "accept")
    /\ idleFd' = IdleClosed
    /\ UNCHANGED <<backlog, stolen>>

AcceptAway ==
    /\ AcceptorAt("accept", "closeAway")
    /\ IF FdFree /\ backlog > 0
       THEN idleFd' = "client" /\ backlog' = backlog - 1
       ELSE idleFd' = "none" /\ UNCHANGED backlog
    /\ UNCHANGED stolen

\* Mutant: the client's descriptor is not closed before idleFd_ is set again.
AwayClosed_Kept == idleFd

AwayClosed == "none"

CloseAway ==
    /\ AcceptorAt("closeAway", "open")
    /\ idleFd' = AwayClosed
    /\ UNCHANGED <<backlog, stolen>>

OpenIdle ==
    /\ AcceptorAt("open", "handled")
    /\ idleFd' = IF FdFree THEN "null" ELSE "none"
    /\ stolen' = (stolen /\ ~FdFree)
    /\ UNCHANGED backlog

AcceptorStep == \/ NewConnection \/ AcceptFails \/ CloseIdle \/ AcceptAway
                \/ CloseAway \/ OpenIdle

-----------------------------------------------------------------------------
(* Clients, and the rest of the program.                                   *)

envUnchanged == <<startVars, listening, idleFd, acc, connVars, loopVars, serverVars>>

ClientConnects ==
    /\ listening /\ server = "alive" /\ arrived < MaxClients
    /\ arrived' = arrived + 1 /\ backlog' = backlog + 1
    /\ UNCHANGED <<stolen, others, envUnchanged>>

\* A client that gave up while it waited: accept() would find nothing.
ClientLeaves ==
    /\ backlog > 0
    /\ backlog' = backlog - 1
    /\ UNCHANGED <<arrived, stolen, others, envUnchanged>>

OtherOpens ==
    /\ FdFree /\ others < MaxOthers
    /\ others' = others + 1
    /\ stolen' = (stolen \/ Accepting)
    /\ UNCHANGED <<arrived, backlog, envUnchanged>>

OtherCloses ==
    /\ others > 0
    /\ others' = others - 1
    /\ UNCHANGED <<arrived, backlog, stolen, envUnchanged>>

\* quit() of baseLoop_, by any thread.
QuitBase ==
    /\ loc[Base] # "stopped" /\ ~quit[Base]
    /\ quit' = [quit EXCEPT ![Base] = TRUE]
    /\ UNCHANGED <<startVars, acceptVars, connVars, queue, batch, done, loc, serverVars>>

-----------------------------------------------------------------------------
(* ~TcpServer, in the base thread once loop() has returned, then ~EventLoop *)
(* of the base loop.                                                       *)

DestructorBegins ==
    /\ server = "alive" /\ loc[Base] = "stopped"
    /\ \A t \in Starters : starting[t] # "pool"
    /\ server' = "visiting" /\ unvisited' = connections
    /\ UNCHANGED <<startVars, acceptVars, connVars, loopVars, joining>>

\* The body's loop over connections_: runInLoop(connectDestroyed).
Visit(c) ==
    /\ server = "visiting" /\ c \in unvisited
    /\ unvisited' = unvisited \ {c}
    /\ LET l == loopOf[c]
       IN  IF l = Base THEN ConnectDestroyed(c) /\ UNCHANGED queue
           ELSE /\ queue' = [queue EXCEPT ![l] = Append(@, Task("destroyed", c))]
                /\ UNCHANGED <<state, told>>
    /\ UNCHANGED <<startVars, acceptVars, next, nextConnId, connections, loopOf,
                   batch, done, loc, quit, server, joining>>

\* The members go, last declared first: connections_,
MapDestroyed ==
    /\ server = "visiting" /\ unvisited = {}
    /\ server' = "joining" /\ connections' = {}
    /\ UNCHANGED <<startVars, acceptVars, next, nextConnId, state, told, loopOf,
                   loopVars, unvisited, joining>>

Joined(l) == loc[l] = "stopped"

\* then threadPool_, one EventLoopThread after the other: quit() and join(),
QuitLoop(l) ==
    /\ server = "joining" /\ l <= loops /\ l = joining + 1
    /\ \A k \in 1..joining : Joined(k)
    /\ quit' = [quit EXCEPT ![l] = TRUE]
    /\ joining' = l
    /\ UNCHANGED <<startVars, acceptVars, connVars, queue, batch, done, loc,
                   server, unvisited>>

\* and acceptor_, whose listening socket takes the waiting clients along.
AcceptorDestroyed ==
    /\ server = "joining" /\ \A l \in 1..loops : Joined(l)
    /\ server' = "gone" /\ idleFd' = "none" /\ backlog' = 0
    /\ UNCHANGED <<startVars, listening, acc, arrived, stolen, others, connVars,
                   loopVars, unvisited, joining>>

BaseLoopDestroyed ==
    /\ server = "gone" /\ queue[Base] # <<>>
    /\ queue' = [queue EXCEPT ![Base] = <<>>]
    /\ UNCHANGED <<startVars, acceptVars, connVars, batch, done, loc, quit, serverVars>>

EndStep == \/ DestructorBegins \/ (\E c \in Conns : Visit(c)) \/ MapDestroyed
           \/ (\E l \in IoLoops : QuitLoop(l)) \/ AcceptorDestroyed
           \/ BaseLoopDestroyed

-----------------------------------------------------------------------------
(* Specification.                                                          *)

StartStep(t) == StartThread(t) \/ StartListening(t)

Next == \/ \E t \in Starters : Start(t) \/ StartStep(t)
        \/ QuitBase
        \/ \E l \in Loops : EnterLoop(l) \/ LoopStep(l)
        \/ AcceptorStep
        \/ \E c \in Conns : HandleClose(c)
        \/ ClientConnects \/ ClientLeaves \/ OtherOpens \/ OtherCloses
        \/ EndStep

\* Threads go on.  A readable listening socket is reported by every poll and
\* handled in every iteration, which is why the acceptor's fairness is strong:
\* tasks cannot keep it waiting.
Fairness == /\ \A t \in Starters : WF_vars(StartStep(t))
            /\ \A l \in Loops : WF_vars(EnterLoop(l)) /\ WF_vars(LoopStep(l))
            /\ SF_vars(AcceptorStep)
            /\ WF_vars(EndStep)

Spec == Init /\ [][Next]_vars /\ Fairness

-----------------------------------------------------------------------------
(* Properties.                                                             *)

\* The types of the variables.  However many threads call start(), the pool has
\* at most the threads it was told to have, and next_ is the index of one; no
\* more descriptors are in use than there are.
TypeOK ==
    /\ loops \in 0..numThreads
    /\ Cardinality({t \in Starters : starting[t] = "pool"}) <= 1
    /\ next = 0 \/ next \in 0..(loops - 1)
    /\ idleFd \in {"null", "client", "none"}
    /\ acc \in {"idle", "handled", "close", "accept", "closeAway", "open"}
    /\ backlog \in 0..arrived
    /\ nextConnId \in 1..(MaxClients + 1)
    /\ connections \subseteq 1..(nextConnId - 1)
    /\ loopOf \in [Conns -> Loops]
    /\ Used <= MaxFds

\* Turning a client away costs neither its descriptor nor the spare one, unless
\* the rest of the program took a descriptor in the middle.
SpareKept == (~Accepting /\ server # "gone" /\ ~stolen) => idleFd = "null"

\* Connections are told up, then down, and closed only then; only when the server
\* is destroyed may they be dropped with a task of theirs that is never run.
Phase(c) == IF state[c] = "none" /\ c >= nextConnId THEN "none"
            ELSE IF ~Exists(c) THEN "closed"
            ELSE IF told[c] = "none" THEN "accepted" ELSE told[c]

Promise == INSTANCE Connections WITH
    phase    <- [c \in Conns |-> Phase(c)],
    stopping <- server # "alive"
ImplementsConnections == Promise!Spec

\* No client is left waiting: all that connect are accepted or turned away, as
\* long as the base loop runs and nobody takes the place of its spare descriptor.
WaitingServed ==
    (listening /\ backlog > 0) ~> (backlog = 0 \/ stolen \/ loc[Base] = "stopped")

\* ~EventLoopThread told a thread to quit that had yet to enter its loop(), and
\* waits in join() for ever: the defect that run quit_before_loop shows.
QuitLost == \E l \in 1..joining : ~quit[l]

\* What a connection that closed had is given back, whatever of its way through
\* the two loops' queues is cut off by the end of the server.  Should that end
\* hang on a lost quit(), those keep theirs whose removal waits in the queue of
\* baseLoop_, which has stopped; and only those.
DescriptorReturned ==
    []<>(\A c \in Conns : state[c] = "kDisconnected" /\ Exists(c) =>
                            QuitLost /\ Refers(queue[Base], c))
=============================================================================
