--------------------------- MODULE TcpConnection ---------------------------
(***************************************************************************)
(* One TcpConnection (net/src/TcpConnection.cc) over its whole life, with  *)
(* what acts on it: the loop of its I/O thread, the user's callbacks in    *)
(* that thread, user threads that hold a TcpConnectionPtr, the TcpServer   *)
(* that keeps it in connections_, and the peer behind the socket.          *)
(*                                                                         *)
(* The loop is the turn that EventLoop.tla describes: poll, the handlers   *)
(* of the channel's events, one batch of tasks.  Each handler is one step, *)
(* up to the user callback it makes; a callback does any calls and then    *)
(* returns to what the handler does after it (variable after).  The bytes  *)
(* of message m are units <<m, 1>>, ..., <<m, Size[m]>>, so that a short *)
(* write can split a message.                                              *)
(***************************************************************************)
EXTENDS Naturals, Sequences, Channel

CONSTANTS Users,          \* threads other than the loop's that call the API
          LoopMessages,   \* what is sent from callbacks in the loop's thread
          UserMessages,   \* what the user threads send
          Size,           \* bytes (units) of each message
          HighWaterMark,  \* highWaterMark_, in units
          MaxTasks,       \* bound: no call is begun when this many are queued
          MaxCalls,       \* bound: calls each user thread begins
          SigPipeIgnored  \* does the process ignore SIGPIPE?

Messages == LoopMessages \union UserMessages

ASSUME SizesType == Size \in [Messages -> Nat \ {0}] /\ HighWaterMark \in Nat
ASSUME BoundsType == MaxTasks \in Nat /\ MaxCalls \in Nat
ASSUME SigPipeIgnoredType == SigPipeIgnored \in BOOLEAN

VARIABLES
    state, channel, outputBuffer,   \* of the TcpConnection
    \* the kernel's end: unread input, what the peer did, our SHUT_WR, SO_ERROR
    socket,
    \* the loop: pendingFunctors_, the rest of the batch, where the thread is,
    \* the handlers due for this event, what follows the user's callback
    pendingFunctors, functors, phase, due, after,
    \* the server: is the connection in connections_, calls of
    \* removeConnectionInLoop queued in the base loop, the TcpServer object, is
    \* the base loop also the connection's (no I/O threads)?
    inMap, removals, server, sameLoop,
    \* the users: where each is in a call, and how many it will yet begin; who
    \* holds a TcpConnectionPtr
    call, calls, holds,
    \* the process has not been killed by a signal; nothing is said of what
    \* the model does once it has
    running,
    \* history: units taken over by sendInLoop, and by the kernel; calls of
    \* connectionCallback_; has a user's setState() overwritten kDisconnected?
    accepted, wire, notified, resurrected

connVars   == <<state, channel, outputBuffer>>
loopVars   == <<pendingFunctors, functors, phase, due, after>>
serverVars == <<inMap, removals, server, sameLoop>>
userVars   == <<call, calls, holds>>
dataHist   == <<accepted, wire>>
vars == <<connVars, socket, loopVars, serverVars, userVars, running, dataHist,
          notified, resurrected>>

-----------------------------------------------------------------------------
\* A task is a name and, for sendInLoop, a message.
Task(name) == <<name>>
SendTask(m) == <<"sendInLoop", m>>
Bytes(m) == [i \in 1..Size[m] |-> <<m, i>>]

Pending(task) == \E i \in DOMAIN pendingFunctors : pendingFunctors[i] = task
InBatch(task) == \E i \in DOMAIN functors : functors[i] = task

NoCall == [step |-> "none", task |-> <<>>]

\* m is not yet, or not successfully, sent; each message is sent once.
New(m) == /\ \A i \in DOMAIN accepted : accepted[i][1] # m
          /\ ~Pending(SendTask(m)) /\ ~InBatch(SendTask(m))
          /\ \A u \in Users : call[u].task # SendTask(m)

Init == /\ state = "kConnecting"
        /\ channel = NewChannel
        /\ outputBuffer = <<>>
        /\ socket = [input |-> FALSE, peer |-> "open", wrShut |-> FALSE,
                     error |-> FALSE]
        \* newConnection() has put it into the map and handed this to the loop
        /\ pendingFunctors = <<Task("connectEstablished")>>
        /\ functors = <<>>
        /\ phase = "poll"
        /\ due = {}
        /\ after = "return"
        /\ inMap = TRUE
        /\ removals = 0
        /\ server = "up"
        /\ sameLoop \in BOOLEAN
        /\ call = [u \in Users |-> NoCall]
        /\ calls = [u \in Users |-> MaxCalls]
        /\ holds = {}
        /\ running = TRUE
        /\ resurrected = FALSE
        /\ accepted = <<>>
        /\ wire = <<>>
        /\ notified = <<>>

\* Some shared_ptr refers to the connection: the map's, a user's, a task's, the
\* guard of handleEvent() or of the batch.
Alive == \/ inMap \/ removals > 0 \/ holds # {}
         \/ pendingFunctors # <<>> \/ phase # "poll"

-----------------------------------------------------------------------------
(* The socket, as the kernel presents it.                                  *)

\* ::write() to it fails: EPIPE, or ECONNRESET while that is still pending.
WriteFails == socket.wrShut \/ socket.peer = "rst"

\* The failing ::write().  EPIPE comes with SIGPIPE.
WriteError == /\ socket' = [socket EXCEPT !.error = FALSE]
              /\ running' = (socket.error \/ SigPipeIgnored)

Readable == socket.input \/ socket.peer # "open"
HungUp == socket.peer = "rst" \/ (socket.peer = "fin" /\ socket.wrShut)

\* What handleEventWithGuard() will call for the events epoll_wait reports.
\* room: the kernel has room for more output.
Handlers(room) ==
    LET in  == "read" \in channel.interest /\ Readable
        out == "write" \in channel.interest /\ (room \/ WriteFails)
    IN  IF ~Registered(channel) THEN {}
        ELSE {h \in {"close", "error", "read", "write"} :
                \/ h = "close" /\ HungUp /\ ~in
                \/ h = "error" /\ socket.error
                \/ h = "read"  /\ in
                \/ h = "write" /\ out}

\* ... and in which order: h is due, and nothing that comes before it.
Before == [close |-> {}, error |-> {"close"}, read |-> {"close", "error"},
           write |-> {"close", "error", "read"}]
Due(h) == phase = "events" /\ h \in due /\ due \intersect Before[h] = {}

PeerSends == /\ socket.peer = "open" /\ ~socket.input
             /\ socket' = [socket EXCEPT !.input = TRUE]

PeerCloses == /\ socket.peer = "open"
              /\ socket' = [socket EXCEPT !.peer = "fin"]

PeerResets == /\ socket.peer # "rst"
              /\ socket' = [socket EXCEPT !.peer = "rst", !.error = TRUE]

\* Not followed while nobody looks at the socket of a closed connection.
PeerNext == /\ Alive
            /\ Registered(channel) \/ state # "kDisconnected"
            /\ PeerSends \/ PeerCloses \/ PeerResets
            /\ UNCHANGED <<connVars, loopVars, serverVars, userVars, running,
                           dataHist, notified, resurrected>>

-----------------------------------------------------------------------------
(* Sending and closing, in the loop's thread.                              *)

\* Bounds on the users: no call begins when MaxTasks tasks are queued, nor once a
\* late setState() has shown what it does.
MayCall == Len(pendingFunctors) < MaxTasks /\ ~resurrected

InCallback == phase \in {"eventCallback", "taskCallback"}

\* Mutant: the buffered bytes of earlier messages are not waited for.
Direct_NoBufferCheck == TRUE

\* Nothing is waiting to be sent: sendInLoop() may write at once.
Direct == ~IsWriting(channel) /\ outputBuffer = <<>>

\* Mutant: sendInLoop() leaves EPOLLOUT alone.
Watch_Never(c) == c

\* EPOLLOUT is asked for, unless it is already.
Watch(c) == IF IsWriting(c) THEN c ELSE EnableWriting(c)

\* Mutant: the rest is kept as one piece, not as bytes.
Buffered_OnePiece(rest) == Append(outputBuffer, rest)

\* outputBuffer_.append()
Buffered(rest) == outputBuffer \o rest

\* The callbacks sendInLoop() queues after its write left rest.
SendNotices(rest) ==
    (IF rest = <<>> THEN <<Task("writeComplete")>> ELSE <<>>)
    \o (IF /\ rest # <<>>
           /\ Len(outputBuffer) < HighWaterMark
           /\ Len(outputBuffer) + Len(rest) >= HighWaterMark
        THEN <<Task("highWaterMark")>> ELSE <<>>)

\* sendInLoop(): write what the kernel takes at once, if nothing is waiting, and
\* buffer the rest.  An error of the connection drops the message.
SendInLoop(m) ==
    IF state = "kDisconnected"
    THEN UNCHANGED <<channel, outputBuffer, socket, pendingFunctors, running,
                     dataHist>>
    ELSE IF Direct /\ WriteFails
    THEN WriteError /\ UNCHANGED <<channel, outputBuffer, pendingFunctors,
                                   dataHist>>
    ELSE \E n \in IF Direct THEN 0..Size[m] ELSE {0} :
           LET rest == SubSeq(Bytes(m), n + 1, Size[m])
           IN  /\ wire' = wire \o SubSeq(Bytes(m), 1, n)
               /\ accepted' = accepted \o Bytes(m)
               /\ outputBuffer' = Buffered(rest)
               /\ channel' = IF rest = <<>> THEN channel ELSE Watch(channel)
               /\ pendingFunctors' = pendingFunctors \o SendNotices(rest)
               /\ UNCHANGED <<socket, running>>

\* Mutant: SHUT_WR whether or not output is waiting.
MayShutDown_Always(c) == TRUE

\* `!channel_->isWriting()`, in shutdownInLoop().
MayShutDown(c) == ~IsWriting(c)

\* The socket after shutdownInLoop(), with c the channel it finds.
ShutdownInLoop(c) ==
    IF MayShutDown(c) THEN [socket EXCEPT !.wrShut = TRUE] ELSE socket

\* handleClose() up to its second callback; back is where the thread then is.
HandleClose(back) == /\ state' = "kDisconnected"
                     /\ channel' = DisableAll(channel)
                     /\ notified' = Append(notified, "DOWN")
                     /\ after' = "closeCallback"
                     /\ phase' = back
                     /\ UNCHANGED outputBuffer

-----------------------------------------------------------------------------
(* One turn of the loop.                                                   *)

\* epoll_wait returns.
Poll(room) == /\ phase = "poll"
              /\ due' = Handlers(room)
              /\ phase' = "events"
              /\ UNCHANGED <<connVars, socket, pendingFunctors, functors, after,
                             serverVars, userVars, running, dataHist, notified,
                             resurrected>>

\* closeCallback_: EPOLLHUP without EPOLLIN.
CloseEvent == /\ Due("close")
              /\ due' = due \ {"close"}
              /\ HandleClose("eventCallback")
              /\ UNCHANGED <<socket, pendingFunctors, functors, serverVars,
                             userVars, running, dataHist, resurrected>>

\* handleError(): getsockopt(SO_ERROR) clears the error, which is only logged.
HandleError == /\ Due("error")
               /\ due' = due \ {"error"}
               /\ socket' = [socket EXCEPT !.error = FALSE]
               /\ UNCHANGED <<connVars, pendingFunctors, functors, phase, after,
                              serverVars, userVars, running, dataHist, notified,
                              resurrected>>

\* handleRead(), bytes read: messageCallback_.
ReadMessage == /\ Due("read")
               /\ socket.input
               /\ due' = due \ {"read"}
               /\ socket' = [socket EXCEPT !.input = FALSE]
               /\ phase' = "eventCallback"
               /\ UNCHANGED <<connVars, pendingFunctors, functors, after,
                              serverVars, userVars, running, dataHist, notified,
                              resurrected>>

\* handleRead(), the read failed: handleError().  The error is gone now.
ReadError == /\ Due("read")
             /\ ~socket.input /\ socket.error
             /\ due' = due \ {"read"}
             /\ socket' = [socket EXCEPT !.error = FALSE]
             /\ UNCHANGED <<connVars, pendingFunctors, functors, phase, after,
                            serverVars, userVars, running, dataHist, notified,
                            resurrected>>

\* Mutant: end of file is treated as an error, that is, logged.
ReadEnd_Logged == /\ Due("read")
                  /\ ~socket.input /\ ~socket.error
                  /\ due' = due \ {"read"}
                  /\ UNCHANGED <<connVars, socket, pendingFunctors, functors,
                                 phase, after, serverVars, userVars, running,
                                 dataHist, notified, resurrected>>

\* handleRead(), end of file: handleClose(), even of a half-closed peer.
ReadEnd == /\ Due("read")
           /\ ~socket.input /\ ~socket.error
           /\ due' = due \ {"read"}
           /\ HandleClose("eventCallback")
           /\ UNCHANGED <<socket, pendingFunctors, functors, serverVars,
                          userVars, running, dataHist, resurrected>>

\* Mutant: handleWrite() does not finish a shutdown() it kept waiting.
AfterDrain_NoShutdown(c) == socket

\* `if (state_ == kDisconnecting) shutdownInLoop();`, the buffer sent.
AfterDrain(c) == IF state = "kDisconnecting" THEN ShutdownInLoop(c) ELSE socket

\* handleWrite(): the kernel takes n units of the buffer.
HandleWrite == /\ Due("write")
               /\ IsWriting(channel) /\ ~WriteFails
               /\ due' = due \ {"write"}
               /\ \E n \in 1..Len(outputBuffer) :
                    /\ wire' = wire \o SubSeq(outputBuffer, 1, n)
                    /\ outputBuffer' =
                         SubSeq(outputBuffer, n + 1, Len(outputBuffer))
                    /\ IF n < Len(outputBuffer)
                       THEN UNCHANGED <<channel, socket, pendingFunctors>>
                       ELSE /\ channel' = DisableWriting(channel)
                            /\ pendingFunctors' =
                                 Append(pendingFunctors, Task("writeComplete"))
                            /\ socket' = AfterDrain(channel')
               /\ UNCHANGED <<state, functors, phase, after, serverVars,
                              userVars, running, accepted, notified, resurrected>>

\* handleWrite() when nothing is to be written any more, or ::write() fails.
HandleWriteFails == /\ Due("write")
                    /\ ~IsWriting(channel) \/ WriteFails
                    /\ due' = due \ {"write"}
                    /\ IF IsWriting(channel) THEN WriteError
                                             ELSE UNCHANGED <<socket, running>>
                    /\ UNCHANGED <<connVars, pendingFunctors, functors, phase,
                                   after, serverVars, userVars, dataHist,
                                   notified, resurrected>>

\* doPendingFunctors() takes the batch ...
SwapPending == /\ phase = "events"
               /\ due = {}
               /\ functors' = pendingFunctors
               /\ pendingFunctors' = <<>>
               /\ phase' = "batch"
               /\ UNCHANGED <<connVars, socket, due, after, serverVars,
                              userVars, running, dataHist, notified, resurrected>>

\* ... and returns.
BatchDone == /\ phase = "batch"
             /\ functors = <<>>
             /\ phase' = "poll"
             /\ UNCHANGED <<connVars, socket, pendingFunctors, functors, due,
                            after, serverVars, userVars, running, dataHist,
                            notified, resurrected>>

-----------------------------------------------------------------------------
(* The tasks.                                                              *)

\* The next task of the batch is the named one.
Runs(name) == /\ phase = "batch"
              /\ functors # <<>>
              /\ Head(functors)[1] = name
              /\ functors' = Tail(functors)

\* connectEstablished(): the user's callback may hand the pointer to others.
ConnectEstablished ==
    /\ Runs("connectEstablished")
    /\ state' = "kConnected"
    /\ channel' = EnableReading(channel)
    /\ notified' = Append(notified, "UP")
    /\ phase' = "taskCallback"
    /\ holds' = Users
    /\ UNCHANGED <<outputBuffer, socket, pendingFunctors, due, after,
                   serverVars, call, calls, running, dataHist, resurrected>>

RunSend == /\ Runs("sendInLoop")
           /\ SendInLoop(Head(functors)[2])
           /\ UNCHANGED <<state, phase, due, after, serverVars, userVars,
                          notified, resurrected>>

RunShutdown == /\ Runs("shutdownInLoop")
               /\ socket' = ShutdownInLoop(channel)
               /\ UNCHANGED <<connVars, pendingFunctors, phase, due, after,
                              serverVars, userVars, running, dataHist,
                              notified, resurrected>>

\* forceCloseInLoop() looks at the state again.
RunForceClose ==
    /\ Runs("forceCloseInLoop")
    /\ IF state \in {"kConnected", "kDisconnecting"}
       THEN HandleClose("taskCallback")
       ELSE UNCHANGED <<connVars, notified, after, phase>>
    /\ UNCHANGED <<socket, pendingFunctors, due, serverVars, userVars, running,
                   dataHist, resurrected>>

\* writeCompleteCallback_ and highWaterMarkCallback_.
RunNotice == /\ \E name \in {"writeComplete", "highWaterMark"} : Runs(name)
             /\ phase' = "taskCallback"
             /\ UNCHANGED <<connVars, socket, pendingFunctors, due, after,
                            serverVars, userVars, running, dataHist, notified,
                            resurrected>>

\* Mutant: the channel is only disabled, not removed.
Removed_DisabledOnly(c) == DisableAll(c)

\* channel_->remove()
Removed(c) == RemoveChannel(c)

\* Mutant: connectDestroyed() takes every connection down, closed or not.
StillUp_Always == TRUE

\* `state_ == kConnected`, in connectDestroyed().
StillUp == state = "kConnected"

\* connectDestroyed(): a connection still up is taken down here.
ConnectDestroyed ==
    /\ Runs("connectDestroyed")
    /\ IF StillUp
       THEN /\ state' = "kDisconnected"
            /\ channel' = DisableAll(channel)
            /\ notified' = Append(notified, "DOWN")
            /\ phase' = "taskCallback"
            /\ after' = "remove"
       ELSE /\ channel' = Removed(channel)
            /\ UNCHANGED <<state, notified, phase, after>>
    /\ UNCHANGED <<outputBuffer, socket, pendingFunctors, due, serverVars,
                   userVars, running, dataHist, resurrected>>

-----------------------------------------------------------------------------
(* The user's callbacks, in the loop's thread.                             *)

\* What removeConnectionInLoop() queues in the connection's loop.
DestroyTask == <<Task("connectDestroyed")>>

\* TcpServer::removeConnection(), run in place if the base loop is this one.
\* With the server gone, the callback uses a destroyed object.
RemoveConnection ==
    IF server # "up"
    THEN server' = "misused" /\ UNCHANGED <<inMap, removals, pendingFunctors>>
    ELSE IF sameLoop
    THEN /\ inMap' = FALSE
         /\ pendingFunctors' = pendingFunctors \o DestroyTask
         /\ UNCHANGED <<removals, server>>
    ELSE removals' = removals + 1 /\ UNCHANGED <<inMap, server, pendingFunctors>>

\* The callback returns and the handler that made it goes on to its end.
CallbackReturns ==
    /\ InCallback
    /\ phase' = IF phase = "eventCallback" THEN "events" ELSE "batch"
    /\ after' = "return"
    /\ IF after = "closeCallback" THEN RemoveConnection
       ELSE UNCHANGED <<inMap, removals, server, pendingFunctors>>
    /\ channel' = IF after = "remove" THEN Removed(channel) ELSE channel
    /\ UNCHANGED <<state, outputBuffer, socket, functors, due, sameLoop,
                   userVars, running, dataHist, notified, resurrected>>

\* The callback calls the API.  Calls that find the wrong state do nothing.
CallbackMayCall == InCallback /\ MayCall

CallbackSends(m) ==
    /\ CallbackMayCall /\ state = "kConnected" /\ New(m)
    /\ SendInLoop(m)
    /\ UNCHANGED <<state, functors, phase, due, after, serverVars, userVars,
                   notified, resurrected>>

CallbackShutsDown ==
    /\ CallbackMayCall /\ state = "kConnected"
    /\ state' = "kDisconnecting"
    /\ socket' = ShutdownInLoop(channel)
    /\ UNCHANGED <<channel, outputBuffer, loopVars, serverVars, userVars,
                   running, dataHist, notified, resurrected>>

CallbackForceCloses ==
    /\ CallbackMayCall /\ state \in {"kConnected", "kDisconnecting"}
    /\ state' = "kDisconnecting"
    /\ pendingFunctors' = Append(pendingFunctors, Task("forceCloseInLoop"))
    /\ UNCHANGED <<channel, outputBuffer, socket, functors, phase, due, after,
                   serverVars, userVars, running, dataHist, notified, resurrected>>

-----------------------------------------------------------------------------
(* User threads.  state_ is read, then written, then the task is queued:   *)
(* three steps that anything may come between.  call[u] has the step that  *)
(* is next and the task.                                                   *)

UserMayCall(u) == /\ MayCall /\ calls[u] > 0
                  /\ u \in holds /\ call[u] = NoCall

UserReads(u, step, task) ==
    /\ call' = [call EXCEPT ![u] = [step |-> step, task |-> task]]
    /\ calls' = [calls EXCEPT ![u] = @ - 1]
    /\ UNCHANGED <<connVars, socket, loopVars, serverVars, holds, running,
                   dataHist, notified, resurrected>>

\* send(): `state_ == kConnected` read.
UserSends(u, m) ==
    /\ UserMayCall(u) /\ state = "kConnected" /\ New(m)
    /\ UserReads(u, "queue", SendTask(m))

\* shutdown(): `state_ == kConnected` read.
UserShutsDown(u) == /\ UserMayCall(u) /\ state = "kConnected"
                    /\ UserReads(u, "set", Task("shutdownInLoop"))

\* forceClose(): `state_ == kConnected || state_ == kDisconnecting` read.
UserForceCloses(u) == /\ UserMayCall(u)
                      /\ state \in {"kConnected", "kDisconnecting"}
                      /\ UserReads(u, "set", Task("forceCloseInLoop"))
  
\* `setState(kDisconnecting);`
UserSets(u) ==
    /\ call[u].step = "set"
    /\ state' = "kDisconnecting"
    /\ resurrected' = (resurrected \/ state = "kDisconnected")
    /\ call' = [call EXCEPT ![u].step = "queue"]
    /\ UNCHANGED <<channel, outputBuffer, socket, loopVars, serverVars, calls,
                   holds, running, dataHist, notified>>

\* runInLoop() or queueInLoop(), which from here are the same; the call returns.
UserQueues(u) ==
    /\ call[u].step = "queue"
    /\ pendingFunctors' = Append(pendingFunctors, call[u].task)
    /\ call' = [call EXCEPT ![u] = NoCall]
    /\ UNCHANGED <<connVars, socket, functors, phase, due, after, serverVars,
                   calls, holds, running, dataHist, notified, resurrected>>

\* The user lets go of the TcpConnectionPtr, and so calls no more.
UserDrops(u) == /\ u \in holds /\ call[u] = NoCall
                /\ holds' = holds \ {u}
                /\ calls' = [calls EXCEPT ![u] = 0]
                /\ UNCHANGED <<connVars, socket, loopVars, serverVars, call,
                               running, dataHist, notified, resurrected>>

-----------------------------------------------------------------------------
(* The TcpServer, in the base loop's thread.                               *)

\* removeConnectionInLoop(), as a task of the base loop.
RemoveConnectionInLoop ==
    /\ removals > 0
    /\ removals' = removals - 1
    /\ IF server = "up"
       THEN /\ inMap' = FALSE
            /\ pendingFunctors' = pendingFunctors \o DestroyTask
            /\ UNCHANGED server
       ELSE server' = "misused" /\ UNCHANGED <<inMap, pendingFunctors>>
    /\ UNCHANGED <<connVars, socket, functors, phase, due, after, sameLoop,
                   userVars, running, dataHist, notified, resurrected>>

\* ~TcpServer hands connectDestroyed to the loops of the connections it has.
\* (Without I/O threads it runs in the loop's own thread, after loop().  Not
\* followed after a late setState(): a bound.)
ServerDestroyed ==
    /\ server = "up" /\ ~sameLoop /\ ~resurrected
    /\ server' = "gone"
    /\ inMap' = FALSE
    /\ pendingFunctors' = IF inMap THEN pendingFunctors \o DestroyTask
                                   ELSE pendingFunctors
    /\ UNCHANGED <<connVars, socket, functors, phase, due, after, removals,
                   sameLoop, userVars, running, dataHist, notified, resurrected>>

-----------------------------------------------------------------------------
HandlerNext == \/ CloseEvent \/ HandleError \/ ReadMessage \/ ReadError
               \/ ReadEnd \/ HandleWrite \/ HandleWriteFails

TaskNext == \/ ConnectEstablished \/ RunSend \/ RunShutdown \/ RunForceClose
            \/ RunNotice \/ ConnectDestroyed

\* The steps the loop's thread takes without waiting for anything.
LoopProgress == \/ HandlerNext \/ SwapPending \/ TaskNext \/ BatchDone
                \/ CallbackReturns

CallbackNext == \/ \E m \in LoopMessages : CallbackSends(m)
                \/ CallbackShutsDown \/ CallbackForceCloses

UserNext(u) == \/ \E m \in UserMessages : UserSends(u, m)
               \/ UserShutsDown(u) \/ UserForceCloses(u)
               \/ UserSets(u) \/ UserQueues(u) \/ UserDrops(u)

Next == \/ \E room \in BOOLEAN : Poll(room)
        \/ LoopProgress \/ CallbackNext
        \/ \E u \in Users : UserNext(u)
        \/ RemoveConnectionInLoop \/ ServerDestroyed \/ PeerNext

\* epoll_wait returns when a task was queued (EventLoop.tla) or an event is
\* pending that does not depend on room.
PollDue == pendingFunctors # <<>> \/ Handlers(FALSE) # {}

\* The loop's threads run, callbacks and calls return; a peer that stays keeps
\* reading, so that there is room again and again.
Fairness == /\ WF_vars(LoopProgress \/ (PollDue /\ Poll(FALSE)))
            /\ SF_vars("write" \in channel.interest /\ Poll(TRUE))
            /\ WF_vars(RemoveConnectionInLoop)
            /\ \A u \in Users : WF_vars(UserSets(u) \/ UserQueues(u))

SafetySpec == Init /\ [][Next]_vars
Spec == SafetySpec /\ Fairness

-----------------------------------------------------------------------------
(* Properties.                                                             *)

\* The type of every variable.
TypeOK ==
    /\ state \in {"kConnecting", "kConnected", "kDisconnecting", "kDisconnected"}
    /\ channel \in ChannelType
    /\ outputBuffer \in Seq(Messages \X (Nat \ {0}))
    /\ socket \in [input : BOOLEAN, peer : {"open", "fin", "rst"},
                   wrShut : BOOLEAN, error : BOOLEAN]
    /\ phase \in {"poll", "events", "eventCallback", "batch", "taskCallback"}
    /\ due \subseteq {"close", "error", "read", "write"}
    /\ after \in {"return", "closeCallback", "remove"}
    /\ inMap \in BOOLEAN /\ sameLoop \in BOOLEAN /\ removals \in Nat
    /\ server \in {"up", "gone", "misused"}
    /\ calls \in [Users -> 0..MaxCalls] /\ holds \subseteq Users
    /\ running \in BOOLEAN /\ resurrected \in BOOLEAN

\* Nothing is lost, repeated or reordered on the way out: what the kernel took,
\* followed by outputBuffer_, is what sendInLoop() took over, whatever writes
\* were short and in whichever thread send() was called.
WireInOrder == wire \o outputBuffer = accepted

\* The poller's bookkeeping of the channel agrees with the kernel's, whatever
\* comes after whatever: no epoll_ctl ADD or MOD can fail (LOG_FATAL, line 173).
EpollInSync == InSync(channel)

\* While the connection is open, EPOLLOUT is watched exactly when there is
\* something to send: else the data is stuck, or epoll_wait spins.
WatchedIffBuffered ==
    (state \in {"kConnected", "kDisconnecting"} /\ ~resurrected)
        => (IsWriting(channel) <=> outputBuffer # <<>>)

\* "Only when outputBuffer_ is empty is it really closed" (line 168): no SHUT_WR
\* of an open connection cuts off what it has buffered.
ShutdownKeepsOutput ==
    [][(socket'.wrShut /\ ~socket.wrShut /\ state # "kDisconnected"
            /\ ~resurrected) => outputBuffer' = <<>>]_vars

\* The user hears of the connection's begin once and of its end once, in this
\* order, and has heard both when the channel has been removed -- while the
\* server lives and no late setState() has made a closed connection look open.
UpThenDown ==
    (server = "up" /\ ~resurrected) =>
        /\ notified \in {<<>>, <<"UP">>, <<"UP", "DOWN">>}
        /\ (state # "kConnecting" /\ channel.index = "kNew")
              => notified = <<"UP", "DOWN">>

\* When the last shared_ptr is gone the channel has left epoll and the poller
\* (comment, Channel.cc:30-31), so that no event is delivered to a freed channel.
\* Nothing is asked for after a callback into a destroyed server.
ChannelGone == (~Alive /\ server # "misused")
                   => channel.index = "kNew" /\ ~Registered(channel)

\* That is so as long as the server lives and no setState() came late.
NoDanglingChannel == (server = "up" /\ ~resurrected) => ChannelGone

\* When the peer closes or resets, the connection is in the end removed from
\* the poller and from the server's map.
PeerCloseRemoves ==
    (socket.peer # "open") ~> \/ channel.index = "kNew" /\ ~inMap
                              \/ resurrected \/ server # "up"

\* A shutdown() or forceClose() comes to its end: SHUT_WR, a close, or the
\* removal by ~TcpServer.
ShutdownCompletes ==
    (state = "kDisconnecting") ~> \/ socket.wrShut \/ state = "kDisconnected"
                                  \/ channel.index = "kNew"
=============================================================================
