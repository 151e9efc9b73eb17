------------------------ MODULE TcpConnection_proofs ------------------------
(***************************************************************************)
(* For any users, messages, message sizes, high-water mark and bounds: a   *)
(* TcpConnection sends what sendInLoop() took over completely and in       *)
(* order, and the poller's bookkeeping of its channel stays in step with   *)
(* the kernel's, whatever comes after whatever.  Its life goes from one UP *)
(* to one DOWN, it is watched for room exactly while it has output left,   *)
(* it shuts no output down that it has left, and it dies out of the poller *)
(* - as long as no setState() of a user thread comes after the end.        *)
(***************************************************************************)
EXTENDS TcpConnection, SequenceTheorems, TLAPS

Unit == Messages \X (Nat \ {0})

TaskNames == {"connectEstablished", "connectDestroyed", "shutdownInLoop",
              "forceCloseInLoop", "writeComplete", "highWaterMark"}

TaskType == {Task(name) : name \in TaskNames} \union {SendTask(m) : m \in Messages}

CallType == [step : {"none", "set", "queue"}, task : TaskType \union {<<>>}]

-----------------------------------------------------------------------------
(* The inductive invariant.                                                *)

\* Tasks, queued or about to be, are tasks; so a sendInLoop has its message.
TaskInv == /\ pendingFunctors \in Seq(TaskType)
           /\ functors \in Seq(TaskType)
           /\ call \in [Users -> CallType]
           /\ \A u \in Users : call[u].step # "none" => call[u].task \in TaskType

\* The bytes are bytes of messages, and in order.
DataInv == /\ wire \in Seq(Unit)
           /\ accepted \in Seq(Unit)
           /\ WireInOrder

IInv == TypeOK /\ TaskInv /\ DataInv /\ EpollInSync

-----------------------------------------------------------------------------
(* The operators on channels.                                              *)

\* updateChannel() and removeChannel() keep the poller and the kernel in step,
\* whatever events were added to or taken from a channel that was in step.
LEMMA ChannelOps ==
  ASSUME NEW c \in ChannelType, InSync(c)
  PROVE  /\ EnableReading(c) \in ChannelType  /\ InSync(EnableReading(c))
         /\ EnableWriting(c) \in ChannelType  /\ InSync(EnableWriting(c))
         /\ DisableWriting(c) \in ChannelType /\ InSync(DisableWriting(c))
         /\ DisableAll(c) \in ChannelType     /\ InSync(DisableAll(c))
         /\ RemoveChannel(c) \in ChannelType  /\ InSync(RemoveChannel(c))
<1> USE DEF ChannelType, InSync, Registered
<1>1. NotInEpoll \notin SUBSET {"read", "write"}
  BY DEF NotInEpoll
<1>2. ASSUME NEW e \in SUBSET {"read", "write"}
      PROVE  /\ UpdateChannel([c EXCEPT !.events = e]) \in ChannelType
             /\ InSync(UpdateChannel([c EXCEPT !.events = e]))
  BY <1>1 DEF UpdateChannel
<1>3. RemoveChannel(c) \in ChannelType /\ InSync(RemoveChannel(c))
  BY <1>1 DEF RemoveChannel
<1>4. QED
  BY <1>2, <1>3 DEF EnableReading, EnableWriting, DisableWriting, DisableAll

-----------------------------------------------------------------------------
(* Sequences of bytes.                                                     *)

LEMMA SplitSeq ==
  ASSUME NEW S, NEW s \in Seq(S), NEW n \in 0..Len(s)
  PROVE  /\ SubSeq(s, 1, n) \in Seq(S)
         /\ SubSeq(s, n + 1, Len(s)) \in Seq(S)
         /\ SubSeq(s, 1, n) \o SubSeq(s, n + 1, Len(s)) = s
<1>1. SubSeq(s, 1, n) \in Seq(S) /\ SubSeq(s, n + 1, Len(s)) \in Seq(S)
  BY LenProperties, ElementOfSeq, SubSeqProperties
<1>2. SubSeq(s, 1, n) \o SubSeq(s, n + 1, Len(s)) = SubSeq(s, 1, Len(s))
  <2>1. /\ Len(s) \in Nat /\ 1 \in 1..Len(s) + 1
        /\ n \in 1 - 1..Len(s) /\ Len(s) \in n..Len(s)
    BY LenProperties
  <2>2. QED
    BY <2>1, ConcatAdjacentSubSeq
<1>3. QED
  BY <1>1, <1>2, SubSeqFull

LEMMA ConcatAssoc == \A r, s, t \in Seq(Unit) : (r \o s) \o t = r \o (s \o t)
BY ConcatAssociative

LEMMA BytesType ==
  ASSUME NEW m \in Messages
  PROVE  Bytes(m) \in Seq(Unit) /\ Len(Bytes(m)) = Size[m]
<1>1. Size[m] \in Nat
  BY SizesType
<1>2. \A i \in 1..Size[m] : <<m, i>> \in Unit
  BY <1>1 DEF Unit
<1>3. Bytes(m) \in [1..Size[m] -> Unit]
  BY <1>2 DEF Bytes
<1>4. QED
  BY <1>1, <1>3 DEF Bytes

-----------------------------------------------------------------------------
(* Sending.                                                                *)

SocketType == [input : BOOLEAN, peer : {"open", "fin", "rst"},
               wrShut : BOOLEAN, error : BOOLEAN]

\* What the tasks and the data look like after a step that sends.
SendInv == /\ channel \in ChannelType /\ EpollInSync
           /\ outputBuffer \in Seq(Unit)
           /\ DataInv
           /\ socket \in SocketType /\ running \in BOOLEAN
           /\ pendingFunctors \in Seq(TaskType)

LEMMA TaskTypes ==
  /\ \A name \in TaskNames : Task(name) \in TaskType
  /\ \A m \in Messages : SendTask(m) \in TaskType
  /\ <<>> \in Seq(TaskType)
  /\ \A t \in TaskType : <<t>> \in Seq(TaskType)
BY DEF TaskType

\* Queueing a connectDestroyed leaves a queue of tasks.
LEMMA DestroyTaskType ==
  ASSUME NEW s \in Seq(TaskType)
  PROVE  s \o DestroyTask \in Seq(TaskType)
<1>1. DestroyTask \in Seq(TaskType)
  BY TaskTypes DEF DestroyTask, TaskNames
<1>2. QED
  BY <1>1, ConcatProperties

\* A task called sendInLoop has a message.
LEMMA SendHasMessage ==
  ASSUME NEW t \in TaskType, t[1] = "sendInLoop"
  PROVE  t[2] \in Messages
<1>1. CASE t \in {Task(name) : name \in TaskNames}
  BY <1>1 DEF Task, TaskNames
<1>2. CASE t \in {SendTask(m) : m \in Messages}
  BY <1>2 DEF SendTask
<1>3. QED
  BY <1>1, <1>2 DEF TaskType

\* sendInLoop() keeps all this: a prefix goes to the kernel only when nothing
\* is waiting, and the rest goes behind what is.
LEMMA SendKeeps ==
  ASSUME IInv, NEW m \in Messages, SendInLoop(m)
  PROVE  SendInv'
<1> USE DEF IInv, TypeOK, TaskInv, SocketType
<1>1. CASE state = "kDisconnected"
  BY <1>1 DEF SendInLoop, SendInv, DataInv, WireInOrder, EpollInSync, Unit, dataHist
<1>2. CASE state # "kDisconnected" /\ Direct /\ WriteFails
  <2>1. socket' \in SocketType /\ running' \in BOOLEAN
    BY <1>2, SigPipeIgnoredType DEF SendInLoop, WriteError
  <2>2. QED
    BY <1>2, <2>1 DEF SendInLoop, SendInv, DataInv, WireInOrder, EpollInSync, Unit,
       dataHist
<1>3. CASE state # "kDisconnected" /\ ~(Direct /\ WriteFails)
  <2> DEFINE rest(n) == SubSeq(Bytes(m), n + 1, Size[m])
             part(n) == SubSeq(Bytes(m), 1, n)
  <2>1. PICK n \in IF Direct THEN 0..Size[m] ELSE {0} :
          /\ wire' = wire \o part(n)
          /\ accepted' = accepted \o Bytes(m)
          /\ outputBuffer' = outputBuffer \o rest(n)
          /\ channel' = IF rest(n) = <<>> THEN channel ELSE Watch(channel)
          /\ pendingFunctors' = pendingFunctors \o SendNotices(rest(n))
          /\ UNCHANGED <<socket, running>>
    BY <1>3 DEF SendInLoop, Buffered
  <2>2. /\ Bytes(m) \in Seq(Unit)
        /\ part(n) \in Seq(Unit) /\ rest(n) \in Seq(Unit)
        /\ part(n) \o rest(n) = Bytes(m)
    <3>1. n \in 0..Len(Bytes(m))
      BY BytesType, SizesType
    <3>2. QED
      BY <3>1, BytesType, SplitSeq
  <2>3. /\ wire \in Seq(Unit) /\ outputBuffer \in Seq(Unit)
        /\ accepted = wire \o outputBuffer
    BY DEF DataInv, WireInOrder, Unit
  <2>types. /\ wire \in Seq(Unit) /\ outputBuffer \in Seq(Unit)
            /\ Bytes(m) \in Seq(Unit)
            /\ part(n) \in Seq(Unit) /\ rest(n) \in Seq(Unit)
    BY <2>2, <2>3, Zenon
  <2> HIDE DEF part, rest
  <2>assoc. /\ (wire \o part(n)) \o rest(n) = wire \o (part(n) \o rest(n))
            /\ (wire \o outputBuffer) \o Bytes(m) = wire \o (outputBuffer \o Bytes(m))
    <3> HIDE DEF IInv, TypeOK, TaskInv, SocketType
    <3>1. ASSUME NEW r \in Seq(Unit), NEW s \in Seq(Unit), NEW t \in Seq(Unit)
          PROVE  (r \o s) \o t = r \o (s \o t)
      BY ConcatAssociative
    <3>2. (wire \o part(n)) \o rest(n) = wire \o (part(n) \o rest(n))
      BY <2>types, <3>1, SMTT(30)
    <3>3. (wire \o outputBuffer) \o Bytes(m) = wire \o (outputBuffer \o Bytes(m))
      BY <2>types, <3>1, SMTT(30)
    <3>4. QED
      BY <3>2, <3>3
  <2>4. wire' \o outputBuffer' = accepted'
    <3>1. CASE Direct
      <4>1. outputBuffer' = rest(n) /\ accepted = wire
        BY <2>1, <2>2, <2>3, <3>1, ConcatEmptySeq DEF Direct
      <4> HIDE DEF IInv
      <4>2. (wire \o part(n)) \o rest(n) = wire \o (part(n) \o rest(n))
        BY <2>assoc
      <4>3. QED
        BY <2>1, <2>2, <4>1, <4>2, Zenon
    <3>2. CASE ~Direct
      <4>1. part(n) = <<>> /\ rest(n) = Bytes(m)
        <5>1. part(n) = <<>>
          BY <2>1, <3>2, SubSeqEmpty DEF part
        <5>2. QED
          BY <2>2, <5>1, ConcatEmptySeq
      <4>2. wire' = wire
        BY <2>1, <2>3, <4>1, ConcatEmptySeq
      <4> HIDE DEF IInv
      <4>3. (wire \o outputBuffer) \o Bytes(m) = wire \o (outputBuffer \o Bytes(m))
        BY <2>assoc
      <4>4. QED
        BY <2>1, <2>3, <4>1, <4>2, <4>3, Zenon
    <3>3. QED
      BY <3>1, <3>2
  <2>5. wire' \in Seq(Unit) /\ outputBuffer' \in Seq(Unit) /\ accepted' \in Seq(Unit)
    BY <2>1, <2>2, <2>3, ConcatProperties DEF DataInv
  <2>6. channel' \in ChannelType /\ InSync(channel')
    BY <2>1, ChannelOps DEF Watch, EpollInSync
  <2>7. pendingFunctors' \in Seq(TaskType)
    <3>1. SendNotices(rest(n)) \in Seq(TaskType)
      BY TaskTypes, ConcatProperties DEF SendNotices, TaskNames
    <3>2. QED
      BY <2>1, <3>1, ConcatProperties
  <2>8. QED
    BY <2>1, <2>4, <2>5, <2>6, <2>7 DEF SendInv, DataInv, WireInOrder, EpollInSync
<1>4. QED
  BY <1>1, <1>2, <1>3

-----------------------------------------------------------------------------
(* Every step keeps the invariant.                                         *)

LEMMA InitKeeps == Init => IInv
<1> SUFFICES ASSUME Init PROVE IInv
  OBVIOUS
<1> USE DEF Init
<1>1. TypeOK
  <2>1. channel \in ChannelType
    BY DEF NewChannel, ChannelType
  <2>2. outputBuffer \in Seq(Messages \X (Nat \ {0}))
    BY EmptySeq
  <2>3. socket \in SocketType
    BY DEF SocketType
  <2>4. calls \in [Users -> 0..MaxCalls] /\ sameLoop \in BOOLEAN
    BY BoundsType
  <2>5. QED
    BY <2>1, <2>2, <2>3, <2>4 DEF TypeOK, SocketType
<1>2. TaskInv
  <2>1. pendingFunctors \in Seq(TaskType) /\ functors \in Seq(TaskType)
    BY TaskTypes DEF TaskNames
  <2>2. QED
    BY <2>1 DEF TaskInv, CallType, NoCall
<1>3. DataInv
  BY EmptySeq, ConcatEmptySeq DEF DataInv, WireInOrder
<1>4. EpollInSync
  BY DEF EpollInSync, InSync, Registered, NewChannel, NotInEpoll
<1>5. QED
  BY <1>1, <1>2, <1>3, <1>4 DEF IInv

\* The head of the batch and the rest of it.
LEMMA RunsTypes ==
  ASSUME TaskInv, NEW name, Runs(name)
  PROVE  /\ Head(functors) \in TaskType
         /\ functors' \in Seq(TaskType)
BY HeadTailProperties DEF TaskInv, Runs

\* Steps that leave channel, tasks and bytes alone.
Untouched == UNCHANGED <<channel, outputBuffer, pendingFunctors, functors, call,
                         accepted, wire>>

LEMMA UntouchedKeeps ==
  ASSUME IInv, Untouched
  PROVE  TaskInv' /\ DataInv' /\ EpollInSync'
BY DEF IInv, Untouched, TaskInv, DataInv, WireInOrder, EpollInSync

LEMMA PeerKeeps ==
  ASSUME IInv, PeerNext
  PROVE  IInv'
<1>1. socket' \in SocketType
  BY DEF IInv, TypeOK, PeerNext, PeerSends, PeerCloses, PeerResets, SocketType
<1>2. TypeOK'
  BY <1>1 DEF IInv, TypeOK, PeerNext, SocketType, connVars, loopVars, serverVars,
     userVars
<1>3. Untouched
  BY DEF PeerNext, Untouched, connVars, loopVars, userVars, dataHist
<1>4. QED
  BY <1>2, <1>3, UntouchedKeeps DEF IInv

\* The turn of the loop: poll, the handlers of an event, the swap.
LEMMA HandlersKeep ==
  ASSUME IInv,
         \/ \E room \in BOOLEAN : Poll(room)
         \/ HandlerNext \/ SwapPending \/ BatchDone
  PROVE  IInv'
<1> USE DEF IInv, TypeOK
<1>1. ASSUME NEW room \in BOOLEAN, Poll(room) PROVE IInv'
  <2>1. Untouched
    BY <1>1 DEF Poll, Untouched, connVars, userVars, dataHist
  <2>2. TypeOK'
    BY <1>1 DEF Poll, Handlers, connVars, serverVars, userVars
  <2>3. QED
    BY <2>1, <2>2, UntouchedKeeps
<1>2. CASE CloseEvent \/ ReadEnd
  <2>1. channel' \in ChannelType /\ EpollInSync'
    BY <1>2, ChannelOps DEF CloseEvent, ReadEnd, HandleClose, EpollInSync
  <2>2. TypeOK'
    BY <1>2, <2>1 DEF CloseEvent, ReadEnd, HandleClose, serverVars, userVars
  <2>3. TaskInv' /\ DataInv'
    BY <1>2 DEF CloseEvent, ReadEnd, HandleClose, TaskInv, DataInv, WireInOrder,
       userVars, dataHist
  <2>4. QED
    BY <2>1, <2>2, <2>3
<1>3. CASE HandleError \/ ReadMessage \/ ReadError
  <2>1. Untouched
    BY <1>3 DEF HandleError, ReadMessage, ReadError, Untouched, connVars,
       userVars, dataHist
  <2>2. socket' \in SocketType
    BY <1>3 DEF HandleError, ReadMessage, ReadError, SocketType
  <2>3. TypeOK'
    BY <1>3, <2>2 DEF HandleError, ReadMessage, ReadError, SocketType, connVars,
       serverVars, userVars
  <2>4. QED
    BY <2>1, <2>3, UntouchedKeeps
<1>4. CASE HandleWrite
  <2> DEFINE part(n) == SubSeq(outputBuffer, 1, n)
             rest(n) == SubSeq(outputBuffer, n + 1, Len(outputBuffer))
  <2>1. PICK n \in 1..Len(outputBuffer) :
          /\ wire' = wire \o part(n)
          /\ outputBuffer' = rest(n)
          /\ IF n < Len(outputBuffer)
             THEN UNCHANGED <<channel, socket, pendingFunctors>>
             ELSE /\ channel' = DisableWriting(channel)
                  /\ pendingFunctors' =
                       Append(pendingFunctors, Task("writeComplete"))
                  /\ socket' = AfterDrain(channel')
    BY <1>4 DEF HandleWrite
  <2>2. /\ outputBuffer \in Seq(Unit) /\ wire \in Seq(Unit)
        /\ accepted \in Seq(Unit) /\ wire \o outputBuffer = accepted
    BY DEF DataInv, WireInOrder, Unit
  <2>3. /\ part(n) \in Seq(Unit) /\ rest(n) \in Seq(Unit)
        /\ part(n) \o rest(n) = outputBuffer
    <3>1. n \in 0..Len(outputBuffer)
      OBVIOUS
    <3>2. QED
      BY <2>2, <3>1, SplitSeq
  <2>types. wire \in Seq(Unit) /\ part(n) \in Seq(Unit) /\ rest(n) \in Seq(Unit)
    BY <2>2, <2>3, Zenon
  <2> HIDE DEF part, rest
  <2>4. DataInv'
    <3>1. wire' \o outputBuffer' = accepted
      <4> HIDE DEF IInv
      <4>1. (wire \o part(n)) \o rest(n) = wire \o (part(n) \o rest(n))
        BY <2>types, ConcatAssoc
      <4>2. QED
        BY <2>1, <2>2, <2>3, <4>1, Zenon
    <3>2. wire' \in Seq(Unit) /\ outputBuffer' \in Seq(Unit)
      BY <2>1, <2>2, <2>3, ConcatProperties
    <3>3. accepted' = accepted
      BY <1>4 DEF HandleWrite
    <3>4. QED
      BY <2>2, <3>1, <3>2, <3>3 DEF DataInv, WireInOrder
  <2>5. channel' \in ChannelType /\ EpollInSync'
    BY <2>1, ChannelOps DEF EpollInSync
  <2>6. TaskInv'
    <3>1. Task("writeComplete") \in TaskType
      BY TaskTypes DEF TaskNames
    <3>2. pendingFunctors' \in Seq(TaskType)
      <4>1. pendingFunctors \in Seq(TaskType)
        BY DEF TaskInv
      <4> HIDE DEF IInv
      <4>2. \/ pendingFunctors' = pendingFunctors
            \/ pendingFunctors' = Append(pendingFunctors, Task("writeComplete"))
        BY <2>1
      <4>3. Append(pendingFunctors, Task("writeComplete")) \in Seq(TaskType)
        BY <3>1, <4>1, AppendProperties
      <4>4. QED
        BY <4>1, <4>2, <4>3, Zenon
    <3>3. QED
      BY <1>4, <3>2 DEF HandleWrite, TaskInv, userVars
  <2>7. socket' \in SocketType
    <3>1. socket \in SocketType
      BY DEF SocketType
    <3> HIDE DEF IInv
    <3>2. socket' = socket \/ socket' = [socket EXCEPT !.wrShut = TRUE]
      BY <2>1 DEF AfterDrain, ShutdownInLoop
    <3>3. QED
      BY <3>1, <3>2 DEF SocketType
  <2>8. outputBuffer' \in Seq(Messages \X (Nat \ {0}))
    BY <2>1, <2>3 DEF Unit
  <2>9. TypeOK'
    BY <1>4, <2>5, <2>7, <2>8 DEF HandleWrite, SocketType, serverVars, userVars
  <2>10. QED
    BY <2>4, <2>5, <2>6, <2>9
<1>5. CASE HandleWriteFails
  <2>1. Untouched
    BY <1>5 DEF HandleWriteFails, Untouched, connVars, userVars, dataHist
  <2>2. socket' \in SocketType /\ running' \in BOOLEAN
    BY <1>5, SigPipeIgnoredType DEF HandleWriteFails, WriteError, SocketType
  <2>3. TypeOK'
    BY <1>5, <2>2 DEF HandleWriteFails, SocketType, connVars, serverVars, userVars
  <2>4. QED
    BY <2>1, <2>3, UntouchedKeeps
<1>6. CASE SwapPending
  <2>1. TaskInv'
    BY <1>6, TaskTypes DEF SwapPending, TaskInv, userVars
  <2>2. TypeOK'
    BY <1>6 DEF SwapPending, connVars, serverVars, userVars
  <2>3. DataInv' /\ EpollInSync'
    BY <1>6 DEF SwapPending, DataInv, WireInOrder, EpollInSync, connVars, dataHist
  <2>4. QED
    BY <2>1, <2>2, <2>3
<1>7. CASE BatchDone
  <2>1. TaskInv'
    BY <1>7 DEF BatchDone, TaskInv, userVars
  <2>2. TypeOK'
    BY <1>7 DEF BatchDone, connVars, serverVars, userVars
  <2>3. DataInv' /\ EpollInSync'
    BY <1>7 DEF BatchDone, DataInv, WireInOrder, EpollInSync, connVars, dataHist
  <2>4. QED
    BY <2>1, <2>2, <2>3
<1>8. QED
  BY <1>1, <1>2, <1>3, <1>4, <1>5, <1>6, <1>7 DEF HandlerNext

\* The tasks of a batch.
LEMMA TasksKeep ==
  ASSUME IInv, TaskNext
  PROVE  IInv'
<1> USE DEF IInv, TypeOK
<1>1. CASE ConnectEstablished
  <2>1. channel' \in ChannelType /\ EpollInSync'
    BY <1>1, ChannelOps DEF ConnectEstablished, EpollInSync
  <2>2. TaskInv' /\ DataInv'
    BY <1>1, RunsTypes DEF ConnectEstablished, TaskInv, DataInv, WireInOrder,
       dataHist
  <2>3. TypeOK'
    BY <1>1, <2>1 DEF ConnectEstablished, serverVars
  <2>4. QED
    BY <2>1, <2>2, <2>3
<1>2. CASE RunSend
  <2>1. Head(functors) \in TaskType /\ functors' \in Seq(TaskType)
    BY <1>2, RunsTypes DEF RunSend
  <2>2. Head(functors)[2] \in Messages
    BY <1>2, <2>1, SendHasMessage DEF RunSend, Runs
  <2>3. SendInv'
    BY <1>2, <2>2, SendKeeps DEF RunSend
  <2>4. TaskInv'
    BY <1>2, <2>1, <2>3 DEF RunSend, TaskInv, SendInv, userVars
  <2>5. TypeOK'
    BY <1>2, <2>3 DEF RunSend, SendInv, SocketType, Unit, serverVars, userVars
  <2>6. QED
    BY <2>3, <2>4, <2>5 DEF SendInv
<1>3. CASE RunShutdown \/ RunNotice
  <2>1. TaskInv' /\ DataInv' /\ EpollInSync'
    BY <1>3, RunsTypes DEF RunShutdown, RunNotice, TaskInv, DataInv, WireInOrder,
       EpollInSync, connVars, userVars, dataHist
  <2>2. socket' \in SocketType
    BY <1>3 DEF RunShutdown, RunNotice, ShutdownInLoop, SocketType
  <2>3. running' \in BOOLEAN /\ phase' \in {"batch", "taskCallback"}
    BY <1>3 DEF RunShutdown, RunNotice, Runs
  <2>4. UNCHANGED <<state, channel, outputBuffer, due, after, inMap, removals, server,
                    sameLoop, calls, holds, running, resurrected>>
    BY <1>3 DEF RunShutdown, RunNotice, connVars, serverVars, userVars
  <2>5. TypeOK'
    BY <2>2, <2>3, <2>4 DEF SocketType
  <2>6. QED
    BY <2>1, <2>5
<1>4. CASE RunForceClose
  <2>1. channel' \in ChannelType /\ EpollInSync'
    BY <1>4, ChannelOps DEF RunForceClose, HandleClose, EpollInSync, connVars
  <2>2. TaskInv' /\ DataInv'
    BY <1>4, RunsTypes DEF RunForceClose, HandleClose, TaskInv, DataInv,
       WireInOrder, connVars, userVars, dataHist
  <2>3. TypeOK'
    BY <1>4, <2>1 DEF RunForceClose, HandleClose, connVars, serverVars, userVars
  <2>4. QED
    BY <2>1, <2>2, <2>3
<1>5. CASE ConnectDestroyed
  <2>1. channel' \in ChannelType /\ EpollInSync'
    BY <1>5, ChannelOps DEF ConnectDestroyed, Removed, EpollInSync
  <2>2. TaskInv' /\ DataInv'
    BY <1>5, RunsTypes DEF ConnectDestroyed, TaskInv, DataInv, WireInOrder,
       userVars, dataHist
  <2>3. TypeOK'
    BY <1>5, <2>1 DEF ConnectDestroyed, serverVars, userVars
  <2>4. QED
    BY <2>1, <2>2, <2>3
<1>6. QED
  BY <1>1, <1>2, <1>3, <1>4, <1>5 DEF TaskNext

\* What the user's callbacks call, and what follows their return.
LEMMA CallbacksKeep ==
  ASSUME IInv, CallbackReturns \/ CallbackNext
  PROVE  IInv'
<1> USE DEF IInv, TypeOK
<1>1. CASE CallbackReturns
  <2>1. channel' \in ChannelType /\ EpollInSync'
    BY <1>1, ChannelOps DEF CallbackReturns, Removed, EpollInSync
  <2>2. pendingFunctors' \in Seq(TaskType)
    BY <1>1, DestroyTaskType DEF CallbackReturns, RemoveConnection, TaskInv
  <2>3. TaskInv' /\ DataInv'
    BY <1>1, <2>2 DEF CallbackReturns, TaskInv, DataInv, WireInOrder, userVars,
       dataHist
  <2>4. /\ inMap' \in BOOLEAN /\ removals' \in Nat
        /\ server' \in {"up", "gone", "misused"}
    <3>1. CASE after = "closeCallback" /\ server # "up"
      BY <1>1, <3>1 DEF CallbackReturns, RemoveConnection
    <3>2. CASE after = "closeCallback" /\ server = "up"
      <4>1. RemoveConnection
        BY <1>1, <3>2 DEF CallbackReturns
      <4>2. CASE sameLoop
        BY <3>2, <4>1, <4>2 DEF RemoveConnection
      <4>3. CASE ~sameLoop
        BY <3>2, <4>1, <4>3 DEF RemoveConnection
      <4>4. QED
        BY <4>2, <4>3
    <3>3. CASE after # "closeCallback"
      BY <1>1, <3>3 DEF CallbackReturns
    <3>4. QED
      BY <3>1, <3>2, <3>3
  <2>5. TypeOK'
    BY <1>1, <2>1, <2>4 DEF CallbackReturns, userVars
  <2>6. QED
    BY <2>1, <2>3, <2>5
<1>2. ASSUME NEW m \in LoopMessages, CallbackSends(m) PROVE IInv'
  <2>1. SendInv'
    BY <1>2, SendKeeps DEF CallbackSends, Messages
  <2>2. TaskInv'
    BY <1>2, <2>1 DEF CallbackSends, TaskInv, SendInv, userVars
  <2>3. TypeOK'
    BY <1>2, <2>1 DEF CallbackSends, SendInv, SocketType, Unit, serverVars, userVars
  <2>4. QED
    BY <2>1, <2>2, <2>3 DEF SendInv
<1>3. CASE CallbackShutsDown
  <2>1. socket' \in SocketType
    BY <1>3 DEF CallbackShutsDown, ShutdownInLoop, SocketType
  <2>2. TypeOK'
    BY <1>3, <2>1 DEF CallbackShutsDown, SocketType, loopVars, serverVars, userVars
  <2>3. Untouched
    BY <1>3 DEF CallbackShutsDown, Untouched, loopVars, userVars, dataHist
  <2>4. QED
    BY <2>2, <2>3, UntouchedKeeps
<1>4. CASE CallbackForceCloses
  <2>1. pendingFunctors' \in Seq(TaskType)
    BY <1>4, TaskTypes, AppendProperties DEF CallbackForceCloses, TaskInv, TaskNames
  <2>2. TaskInv' /\ DataInv' /\ EpollInSync'
    BY <1>4, <2>1 DEF CallbackForceCloses, TaskInv, DataInv, WireInOrder,
       EpollInSync, userVars, dataHist
  <2>3. TypeOK'
    BY <1>4 DEF CallbackForceCloses, serverVars, userVars
  <2>4. QED
    BY <2>2, <2>3
<1>5. QED
  BY <1>1, <1>2, <1>3, <1>4 DEF CallbackNext

\* The three steps of a call made by a user thread.
LEMMA UsersKeep ==
  ASSUME IInv, NEW u \in Users, UserNext(u)
  PROVE  IInv'
<1> USE DEF IInv, TypeOK
<1>1. ASSUME NEW step \in {"set", "queue"}, NEW task \in TaskType,
             UserMayCall(u), UserReads(u, step, task)
      PROVE  IInv'
  <2>1. calls' \in [Users -> 0..MaxCalls]
    BY <1>1, BoundsType DEF UserMayCall, UserReads
  <2>2. TypeOK'
    BY <1>1, <2>1 DEF UserReads, connVars, loopVars, serverVars
  <2>3. TaskInv'
    BY <1>1 DEF UserReads, TaskInv, CallType, loopVars
  <2>4. DataInv' /\ EpollInSync'
    BY <1>1 DEF UserReads, DataInv, WireInOrder, EpollInSync, connVars, dataHist
  <2>5. QED
    BY <2>2, <2>3, <2>4
<1>2. ASSUME NEW m \in UserMessages, UserSends(u, m) PROVE IInv'
  BY <1>1, <1>2, TaskTypes DEF UserSends, Messages
<1>3. CASE UserShutsDown(u) \/ UserForceCloses(u)
  BY <1>1, <1>3, TaskTypes DEF UserShutsDown, UserForceCloses, TaskNames
<1>4. CASE UserSets(u)
  <2>1. TaskInv'
    BY <1>4 DEF UserSets, TaskInv, CallType, loopVars
  <2>2. TypeOK'
    BY <1>4 DEF UserSets, loopVars, serverVars
  <2>3. DataInv' /\ EpollInSync'
    BY <1>4 DEF UserSets, DataInv, WireInOrder, EpollInSync, dataHist
  <2>4. QED
    BY <2>1, <2>2, <2>3
<1>5. CASE UserQueues(u)
  <2>1. call[u].task \in TaskType
    BY <1>5 DEF UserQueues, TaskInv
  <2>2. pendingFunctors' \in Seq(TaskType)
    BY <1>5, <2>1, AppendProperties DEF UserQueues, TaskInv
  <2>3. TaskInv'
    BY <1>5, <2>2 DEF UserQueues, TaskInv, CallType, NoCall
  <2>4. TypeOK'
    BY <1>5 DEF UserQueues, connVars, serverVars
  <2>5. DataInv' /\ EpollInSync'
    BY <1>5 DEF UserQueues, DataInv, WireInOrder, EpollInSync, connVars, dataHist
  <2>6. QED
    BY <2>3, <2>4, <2>5
<1>6. CASE UserDrops(u)
  <2>1. calls' \in [Users -> 0..MaxCalls] /\ holds' \subseteq Users
    BY <1>6, BoundsType DEF UserDrops
  <2>2. TypeOK'
    BY <1>6, <2>1 DEF UserDrops, connVars, loopVars, serverVars
  <2>3. Untouched
    BY <1>6 DEF UserDrops, Untouched, connVars, loopVars, dataHist
  <2>4. QED
    BY <2>2, <2>3, UntouchedKeeps
<1>7. QED
  BY <1>2, <1>3, <1>4, <1>5, <1>6 DEF UserNext

\* The TcpServer's steps.
LEMMA ServerKeeps ==
  ASSUME IInv, RemoveConnectionInLoop \/ ServerDestroyed
  PROVE  IInv'
<1> USE DEF IInv, TypeOK
<1>1. pendingFunctors' \in Seq(TaskType)
  BY DestroyTaskType DEF RemoveConnectionInLoop, ServerDestroyed, TaskInv
<1>2. TaskInv' /\ DataInv' /\ EpollInSync'
  BY <1>1 DEF RemoveConnectionInLoop, ServerDestroyed, TaskInv, DataInv,
     WireInOrder, EpollInSync, connVars, userVars, dataHist
<1>3. removals' \in Nat /\ inMap' \in BOOLEAN /\ server' \in {"up", "gone", "misused"}
  <2>1. CASE RemoveConnectionInLoop
    <3>1. removals' \in Nat
      BY <2>1 DEF RemoveConnectionInLoop
    <3>2. inMap' \in BOOLEAN /\ server' \in {"up", "gone", "misused"}
      BY <2>1, Zenon DEF RemoveConnectionInLoop
    <3>3. QED
      BY <3>1, <3>2
  <2>2. CASE ServerDestroyed
    BY <2>2 DEF ServerDestroyed
  <2>3. QED
    BY <2>1, <2>2
<1>4. UNCHANGED <<state, channel, outputBuffer, socket, phase, due, after, sameLoop, calls,
                  holds, running, resurrected>>
  BY DEF RemoveConnectionInLoop, ServerDestroyed, connVars, userVars
<1>5. TypeOK'
  BY <1>3, <1>4
<1>6. QED
  BY <1>2, <1>5

LEMMA StepKeeps == IInv /\ [Next]_vars => IInv'
<1> SUFFICES ASSUME IInv, [Next]_vars PROVE IInv'
  OBVIOUS
<1>1. CASE UNCHANGED vars
  <2>1. Untouched
    BY <1>1 DEF vars, Untouched, connVars, loopVars, userVars, dataHist
  <2>2. TypeOK'
    BY <1>1 DEF vars, IInv, TypeOK, connVars, loopVars, serverVars, userVars
  <2>3. QED
    BY <2>1, <2>2, UntouchedKeeps DEF IInv
<1>2. CASE Next
  BY <1>2, PeerKeeps, HandlersKeep, TasksKeep, CallbacksKeep, UsersKeep,
     ServerKeeps DEF Next, LoopProgress
<1>3. QED
  BY <1>1, <1>2

-----------------------------------------------------------------------------
LEMMA Invariant == SafetySpec => []IInv
BY InitKeeps, StepKeeps, PTL DEF SafetySpec

\* Type correctness of the connection and of those who act on it.
THEOREM TypeCorrect == SafetySpec => []TypeOK
<1>1. IInv => TypeOK
  BY DEF IInv
<1>2. QED
  BY <1>1, Invariant, PTL

\* No byte is lost, repeated or reordered between sendInLoop() and the kernel,
\* for messages of any size, short writes of any size, and any interleaving of
\* send(), shutdown(), forceClose(), events and the server.
THEOREM BytesInOrder == SafetySpec => []WireInOrder
<1>1. IInv => WireInOrder
  BY DEF IInv, DataInv
<1>2. QED
  BY <1>1, Invariant, PTL

\* The poller never asks epoll to add what is there or to modify what is not:
\* LOG_FATAL of EPollPoller::update() is unreachable on that account.
THEOREM PollerInStep == SafetySpec => []EpollInSync
<1>1. IInv => EpollInSync
  BY DEF IInv
<1>2. QED
  BY <1>1, Invariant, PTL

-----------------------------------------------------------------------------
(* The life of the connection: a second invariant, on top of the first.    *)

Established == Task("connectEstablished")
Destroyed   == Task("connectDestroyed")

\* connectEstablished is the first task there ever is, and the only one of its kind.
FirstInv ==
    /\ \A i \in DOMAIN functors :
          functors[i] = Established => i = 1 /\ state = "kConnecting"
    /\ \A i \in DOMAIN pendingFunctors :
          pendingFunctors[i] = Established =>
             i = 1 /\ functors = <<>> /\ state = "kConnecting"

\* What user threads call is neither of the two.
CallInv == \A u \in Users :
    call[u].step # "none" => call[u].task \notin {Established, Destroyed}

\* Until then nothing has come of the connection, and nobody has it.
ConnectingInv ==
    state = "kConnecting" =>
       /\ channel = NewChannel /\ outputBuffer = <<>>
       /\ notified = <<>> /\ ~resurrected
       /\ holds = {} /\ call = [u \in Users |-> NoCall]
       /\ due = {} /\ after = "return" /\ removals = 0 /\ ~InCallback
       /\ \A i \in DOMAIN functors : functors[i] \in {Established, Destroyed}
       /\ \A i \in DOMAIN pendingFunctors : pendingFunctors[i] \in {Established, Destroyed}

\* What the loop has at hand belongs to where it is in its turn.
TurnInv ==
    /\ phase \notin {"events", "eventCallback"} => due = {}
    /\ phase \notin {"batch", "taskCallback"} => functors = <<>>
    /\ after # "return" => InCallback
    /\ ~({"close", "read"} \subseteq due)

IsOpen == state \in {"kConnected", "kDisconnecting"}

\* What the user has heard, by the state.
Heard == IF state = "kConnecting" THEN <<>>
         ELSE IF state = "kDisconnected" THEN <<"UP", "DOWN">> ELSE <<"UP">>

\* The removal is on its way: the handler that calls closeCallback_, a call queued in
\* the base loop, or the connectDestroyed it leads to.
Waiting == InBatch(Destroyed) \/ Pending(Destroyed)
Ending == after = "closeCallback" \/ removals > 0 \/ Waiting

\* While the server lives and no setState() came late, a connection is watched as
\* long as it is open; once closed it is silent, and is removed or will be; and
\* nothing ends that is not closed.
EndInv ==
    (server = "up" /\ ~resurrected) =>
       /\ notified = Heard
       /\ IsOpen => channel.index = "kAdded" /\ "read" \in channel.events
       /\ state = "kDisconnected" => /\ channel.index # "kAdded" /\ channel.events = {}
                                     /\ Ending \/ channel.index = "kNew"
       /\ due \intersect {"close", "read"} # {} => IsOpen
       /\ after # "remove"
       /\ Ending \/ ~inMap => state = "kDisconnected"

LifeInv == FirstInv /\ CallInv /\ ConnectingInv /\ TurnInv /\ WatchedIffBuffered /\ EndInv

-----------------------------------------------------------------------------
(* Channels and tasks, once more.                                          *)

LEMMA ChannelMoves ==
  ASSUME NEW c \in ChannelType
  PROVE  /\ IsWriting(EnableWriting(c))
         /\ "read" \in c.events => "read" \in EnableWriting(c).events
         /\ EnableWriting(c).index = "kAdded"
         /\ ~IsWriting(DisableWriting(c))
         /\ "read" \in c.events => /\ "read" \in DisableWriting(c).events
                                   /\ DisableWriting(c).index = "kAdded"
         /\ DisableAll(c).events = {}
         /\ c.index = "kAdded" => DisableAll(c).index = "kDeleted"
         /\ RemoveChannel(c).events = c.events /\ RemoveChannel(c).index = "kNew"
<1> USE DEF ChannelType, UpdateChannel, IsWriting
<1>1. ASSUME NEW e \in SUBSET {"read", "write"}
      PROVE  /\ UpdateChannel([c EXCEPT !.events = e]).events = e
             /\ e # {} => UpdateChannel([c EXCEPT !.events = e]).index = "kAdded"
             /\ e = {} /\ c.index = "kAdded"
                  => UpdateChannel([c EXCEPT !.events = e]).index = "kDeleted"
  OBVIOUS
<1>2. /\ EnableWriting(c) = UpdateChannel([c EXCEPT !.events = c.events \union {"write"}])
      /\ DisableWriting(c) = UpdateChannel([c EXCEPT !.events = c.events \ {"write"}])
      /\ DisableAll(c) = UpdateChannel([c EXCEPT !.events = {}])
  BY DEF EnableWriting, DisableWriting, DisableAll
<1>3. RemoveChannel(c).events = c.events /\ RemoveChannel(c).index = "kNew"
  BY DEF RemoveChannel
<1>4. c.events \in SUBSET {"read", "write"}
  OBVIOUS
<1> HIDE DEF UpdateChannel
<1>5. QED
  BY <1>1, <1>2, <1>3, <1>4

\* The channel of a new connection is not watched, and then for reading.
LEMMA NewChannelMoves ==
    /\ NewChannel.index = "kNew" /\ ~Registered(NewChannel) /\ ~IsWriting(NewChannel)
    /\ NewChannel.events = {} /\ RemoveChannel(NewChannel) = NewChannel
    /\ EnableReading(NewChannel).index = "kAdded"
    /\ EnableReading(NewChannel).events = {"read"}
    /\ ~IsWriting(EnableReading(NewChannel))
<1>1. /\ NewChannel.index = "kNew" /\ NewChannel.events = {}
      /\ NewChannel.interest = NotInEpoll
  BY DEF NewChannel
<1>2. RemoveChannel(NewChannel) = NewChannel
  <2>1. RemoveChannel(NewChannel) =
           [NewChannel EXCEPT !.interest = NewChannel.interest, !.index = "kNew"]
    BY <1>1 DEF RemoveChannel
  <2>2. NewChannel = [events |-> {}, index |-> "kNew", interest |-> NotInEpoll]
    BY DEF NewChannel
  <2>3. QED
    BY <2>1, <2>2
<1>3. /\ EnableReading(NewChannel).index = "kAdded"
      /\ EnableReading(NewChannel).events = {"read"}
  BY DEF EnableReading, UpdateChannel, NewChannel
<1>4. QED
  BY <1>1, <1>2, <1>3 DEF Registered, IsWriting

LEMMA TaskNamesDiffer ==
    /\ \A t \in TaskType : /\ t = Established <=> t[1] = "connectEstablished"
                           /\ t = Destroyed <=> t[1] = "connectDestroyed"
    /\ \A name \in TaskNames : Task(name)[1] = name
    /\ \A m \in Messages : SendTask(m)[1] = "sendInLoop"
    /\ Established \in TaskType /\ Destroyed \in TaskType /\ Established # Destroyed
<1>1. /\ \A name \in TaskNames : Task(name)[1] = name
      /\ \A m \in Messages : SendTask(m)[1] = "sendInLoop"
      /\ Established = Task("connectEstablished") /\ Destroyed = Task("connectDestroyed")
      /\ "connectEstablished" \in TaskNames /\ "connectDestroyed" \in TaskNames
  BY DEF Task, SendTask, Established, Destroyed, TaskNames
<1>2. Established[1] = "connectEstablished" /\ Destroyed[1] = "connectDestroyed"
  BY <1>1
<1>3. ASSUME NEW t \in TaskType
      PROVE  /\ t[1] = "connectEstablished" => t = Established
             /\ t[1] = "connectDestroyed" => t = Destroyed
  <2>1. CASE t \in {Task(name) : name \in TaskNames}
    BY <1>1, <2>1
  <2>2. CASE t \in {SendTask(m) : m \in Messages}
    BY <1>1, <2>2
  <2>3. QED
    BY <2>1, <2>2 DEF TaskType
<1>4. Established \in TaskType /\ Destroyed \in TaskType
  BY <1>1, TaskTypes
<1>5. QED
  BY <1>1, <1>2, <1>3, <1>4

\* Tasks are added to the end of the queue.
Adds(s) == pendingFunctors' = pendingFunctors \o s

LEMMA Added ==
  ASSUME pendingFunctors \in Seq(TaskType), NEW s \in Seq(TaskType), Adds(s)
  PROVE  /\ \A i \in DOMAIN pendingFunctors :
               i \in DOMAIN pendingFunctors' /\ pendingFunctors'[i] = pendingFunctors[i]
         /\ \A i \in DOMAIN pendingFunctors' :
               \/ i \in DOMAIN pendingFunctors /\ pendingFunctors'[i] = pendingFunctors[i]
               \/ \E j \in DOMAIN s : pendingFunctors'[i] = s[j]
         /\ \A j \in DOMAIN s : \E i \in DOMAIN pendingFunctors' : pendingFunctors'[i] = s[j]
<1> DEFINE p == pendingFunctors
           q == pendingFunctors'
<1>1. /\ q \in Seq(TaskType) /\ Len(q) = Len(p) + Len(s)
      /\ Len(p) \in Nat /\ Len(s) \in Nat
      /\ DOMAIN p = 1..Len(p) /\ DOMAIN s = 1..Len(s) /\ DOMAIN q = 1..Len(q)
      /\ \A i \in 1..(Len(p) + Len(s)) : q[i] = IF i <= Len(p) THEN p[i] ELSE s[i - Len(p)]
  BY ConcatProperties, LenProperties DEF Adds
<1>2. ASSUME NEW i \in DOMAIN p PROVE i \in DOMAIN q /\ q[i] = p[i]
  BY <1>1
<1>3. ASSUME NEW i \in DOMAIN q
      PROVE  (i \in DOMAIN p /\ q[i] = p[i]) \/ \E j \in DOMAIN s : q[i] = s[j]
  <2>1. CASE i <= Len(p)
    BY <1>1, <2>1
  <2>2. CASE ~(i <= Len(p))
    <3>1. i - Len(p) \in DOMAIN s /\ q[i] = s[i - Len(p)]
      BY <1>1, <2>2
    <3>2. QED
      BY <3>1
  <2>3. QED
    BY <2>1, <2>2
<1>4. ASSUME NEW j \in DOMAIN s PROVE \E i \in DOMAIN q : q[i] = s[j]
  <2>1. Len(p) + j \in DOMAIN q /\ q[Len(p) + j] = s[j]
    BY <1>1
  <2>2. QED
    BY <2>1
<1>5. QED
  BY <1>2, <1>3, <1>4

\* Nothing, or one task.
LEMMA AddsNone ==
  ASSUME pendingFunctors \in Seq(TaskType), UNCHANGED pendingFunctors
  PROVE  Adds(<<>>) /\ <<>> \in Seq(TaskType) /\ DOMAIN <<>> = {}
BY ConcatEmptySeq, EmptySeq DEF Adds

LEMMA AddsOne ==
  ASSUME NEW t \in TaskType, pendingFunctors \in Seq(TaskType),
         pendingFunctors' = Append(pendingFunctors, t) \/ pendingFunctors' = pendingFunctors \o <<t>>
  PROVE  /\ Adds(<<t>>) /\ <<t>> \in Seq(TaskType)
         /\ DOMAIN <<t>> = {1} /\ <<t>>[1] = t
<1>1. <<t>> \in Seq(TaskType)
  BY TaskTypes
<1>2. Append(pendingFunctors, t) = pendingFunctors \o <<t>>
  BY AppendIsConcat
<1>3. QED
  BY <1>1, <1>2 DEF Adds

\* The head of the batch goes, if a task is run.
LEMMA RunsFacts ==
  ASSUME IInv, NEW name, Runs(name)
  PROVE  /\ phase = "batch" /\ functors # <<>>
         /\ 1 \in DOMAIN functors /\ functors[1] \in TaskType /\ functors[1][1] = name
         /\ Head(functors) = functors[1]
         /\ \A i \in DOMAIN functors' :
               i + 1 \in DOMAIN functors /\ functors'[i] = functors[i + 1] /\ i + 1 # 1
         /\ \A i \in DOMAIN functors :
               i = 1 \/ \E j \in DOMAIN functors' : functors'[j] = functors[i]
<1>1. /\ functors \in Seq(TaskType) /\ functors # <<>> /\ functors' = Tail(functors)
      /\ phase = "batch" /\ Head(functors)[1] = name
  BY DEF IInv, TaskInv, Runs
<1>2. /\ Head(functors) = functors[1] /\ Head(functors) \in TaskType
      /\ functors' \in Seq(TaskType) /\ Len(functors') = Len(functors) - 1
      /\ \A i \in 1..Len(functors') : functors'[i] = functors[i + 1]
  BY <1>1, HeadTailProperties
<1>3. /\ Len(functors) \in Nat /\ Len(functors) >= 1
      /\ DOMAIN functors = 1..Len(functors) /\ DOMAIN functors' = 1..Len(functors')
  BY <1>1, <1>2, LenProperties, EmptySeq
<1>4. ASSUME NEW i \in DOMAIN functors'
      PROVE  i + 1 \in DOMAIN functors /\ functors'[i] = functors[i + 1] /\ i + 1 # 1
  BY <1>2, <1>3
<1>5. ASSUME NEW i \in DOMAIN functors, i # 1
      PROVE  \E j \in DOMAIN functors' : functors'[j] = functors[i]
  <2>1. i - 1 \in DOMAIN functors' /\ functors'[i - 1] = functors[i]
    BY <1>2, <1>3, <1>5
  <2>2. QED
    BY <2>1
<1>6. QED
  BY <1>1, <1>2, <1>3, <1>4, <1>5

\* What becomes of the two special tasks in a step that queues s and runs at most one.
LEMMA TasksMove ==
  ASSUME IInv, LifeInv, NEW s \in Seq(TaskType), Adds(s),
         \A j \in DOMAIN s : s[j] # Established,
         functors' = functors \/ \E name : Runs(name),
         state' = state \/ state # "kConnecting"
  PROVE  /\ FirstInv'
         /\ Waiting' => Waiting \/ \E j \in DOMAIN s : s[j] = Destroyed
         /\ Waiting => \/ Waiting'
                       \/ functors[1] = Destroyed /\ \E name : Runs(name)
         /\ (\E j \in DOMAIN s : s[j] = Destroyed) => Waiting'
         /\ \A i \in DOMAIN functors' : \E k \in DOMAIN functors : functors'[i] = functors[k]
         /\ \A i \in DOMAIN pendingFunctors' :
               \/ \E k \in DOMAIN pendingFunctors : pendingFunctors'[i] = pendingFunctors[k]
               \/ \E j \in DOMAIN s : pendingFunctors'[i] = s[j]
<1>1. /\ \A i \in DOMAIN pendingFunctors :
            i \in DOMAIN pendingFunctors' /\ pendingFunctors'[i] = pendingFunctors[i]
      /\ \A i \in DOMAIN pendingFunctors' :
            \/ i \in DOMAIN pendingFunctors /\ pendingFunctors'[i] = pendingFunctors[i]
            \/ \E j \in DOMAIN s : pendingFunctors'[i] = s[j]
      /\ \A j \in DOMAIN s : \E i \in DOMAIN pendingFunctors' : pendingFunctors'[i] = s[j]
  <2>1. pendingFunctors \in Seq(TaskType)
    BY DEF IInv, TaskInv
  <2>2. QED
    BY <2>1, Added
<1>2. /\ \A i \in DOMAIN functors' : \/ functors' = functors
                                     \/ /\ i + 1 \in DOMAIN functors /\ i + 1 # 1
                                        /\ functors'[i] = functors[i + 1]
      /\ \A i \in DOMAIN functors : \/ \E j \in DOMAIN functors' : functors'[j] = functors[i]
                                    \/ i = 1 /\ \E name : Runs(name)
      /\ functors' = functors \/ functors # <<>>
  <2>1. CASE functors' = functors
    BY <2>1
  <2>2. ASSUME NEW name, Runs(name)
        PROVE  /\ functors # <<>>
               /\ \A i \in DOMAIN functors' : /\ i + 1 \in DOMAIN functors /\ i + 1 # 1
                                              /\ functors'[i] = functors[i + 1]
               /\ \A i \in DOMAIN functors :
                     i = 1 \/ \E j \in DOMAIN functors' : functors'[j] = functors[i]
    BY <2>2, RunsFacts
  <2>3. QED
    BY <2>1, <2>2
<1>3. FirstInv'
  <2>1. /\ \A i \in DOMAIN functors :
             functors[i] = Established => i = 1 /\ state = "kConnecting"
        /\ \A i \in DOMAIN pendingFunctors :
             pendingFunctors[i] = Established =>
                i = 1 /\ functors = <<>> /\ state = "kConnecting"
    BY DEF LifeInv, FirstInv
  <2>2. ASSUME NEW i \in DOMAIN functors', functors'[i] = Established
        PROVE  i = 1 /\ state' = "kConnecting"
    BY <1>2, <2>1, <2>2
  <2>3. ASSUME NEW i \in DOMAIN pendingFunctors', pendingFunctors'[i] = Established
        PROVE  i = 1 /\ functors' = <<>> /\ state' = "kConnecting"
    BY <1>1, <1>2, <2>1, <2>3
  <2>4. QED
    BY <2>2, <2>3 DEF FirstInv, Established
<1>4. Waiting' => Waiting \/ \E j \in DOMAIN s : s[j] = Destroyed
  BY <1>1, <1>2 DEF Waiting, InBatch, Pending, Destroyed
<1>5. Waiting => Waiting' \/ (functors[1] = Destroyed /\ \E name : Runs(name))
  BY <1>1, <1>2 DEF Waiting, InBatch, Pending, Destroyed
<1>6. (\E j \in DOMAIN s : s[j] = Destroyed) => Waiting'
  BY <1>1 DEF Waiting, Pending, Destroyed
<1>7. QED
  BY <1>1, <1>2, <1>3, <1>4, <1>5, <1>6

\* Steps that neither begin nor end anything.
LEMMA GoesOn ==
  ASSUME IInv, LifeInv, IInv',
         UNCHANGED <<notified, resurrected, server, inMap, removals, after>>,
         state' = state \/ (IsOpen /\ state' = "kDisconnecting"),
         (server = "up" /\ ~resurrected) =>
            \/ UNCHANGED channel
            \/ IsOpen /\ ("read" \in channel.events =>
                             "read" \in channel'.events /\ channel'.index = "kAdded"),
         NEW s \in Seq(TaskType), Adds(s),
         \A j \in DOMAIN s : s[j] \notin {Established, Destroyed},
         \/ functors' = functors
         \/ \E name : Runs(name) /\ name \notin {"connectEstablished", "connectDestroyed"},
         (server = "up" /\ ~resurrected /\ due' \intersect {"close", "read"} # {})
            => IsOpen \/ due' \subseteq due,
         state = "kConnecting" =>
            /\ UNCHANGED <<channel, outputBuffer, holds, call>> /\ due' = {}
            /\ phase' \notin {"eventCallback", "taskCallback"} /\ DOMAIN s = {},
         CallInv', TurnInv', WatchedIffBuffered'
  PROVE  LifeInv'
<1>1. /\ functors' = functors \/ \E name : Runs(name)
      /\ state' = state \/ state # "kConnecting"
  BY DEF IsOpen
<1>2. (\E name : Runs(name)) => functors[1] \notin {Established, Destroyed} \/ functors' = functors
  BY RunsFacts, TaskNamesDiffer
<1>3. ASSUME functors[1] = Destroyed, \E name : Runs(name) PROVE Waiting'
  <2>1. functors' = functors
    BY <1>2, <1>3
  <2>2. 1 \in DOMAIN functors
    BY <1>3, RunsFacts
  <2>3. QED
    BY <1>3, <2>1, <2>2 DEF Waiting, InBatch, Destroyed
<1>4. FirstInv' /\ (Waiting' <=> Waiting)
  <2>1. \A j \in DOMAIN s : s[j] # Established /\ s[j] # Destroyed
    OBVIOUS
  <2>2. QED
    BY <1>1, <1>3, <2>1, TasksMove
<1>5. EndInv'
  <2>1. Ending' <=> Ending
    BY <1>4 DEF Ending
  <2>2. (IsOpen' <=> IsOpen) /\ Heard' = Heard /\ (state' = "kDisconnected" <=> state = "kDisconnected")
    BY DEF IsOpen, Heard
  <2>3. QED
    BY <2>1, <2>2 DEF LifeInv, EndInv, IsOpen
<1>6. ConnectingInv'
  <2>1. SUFFICES ASSUME state' = "kConnecting" PROVE ConnectingInv'
    BY DEF ConnectingInv
  <2>2. /\ state = "kConnecting"
        /\ UNCHANGED <<channel, outputBuffer, holds, call>> /\ due' = {}
        /\ phase' \notin {"eventCallback", "taskCallback"} /\ DOMAIN s = {}
    BY <2>1 DEF IsOpen
  <2>3. /\ channel = NewChannel /\ outputBuffer = <<>>
        /\ notified = <<>> /\ ~resurrected
        /\ holds = {} /\ call = [u \in Users |-> NoCall]
        /\ after = "return" /\ removals = 0
        /\ \A i \in DOMAIN functors : functors[i] \in {Established, Destroyed}
        /\ \A i \in DOMAIN pendingFunctors : pendingFunctors[i] \in {Established, Destroyed}
    BY <2>2 DEF LifeInv, ConnectingInv
  <2>4. /\ \A i \in DOMAIN functors' : functors'[i] \in {Established, Destroyed}
        /\ \A i \in DOMAIN pendingFunctors' : pendingFunctors'[i] \in {Established, Destroyed}
    BY <1>1, <2>2, <2>3, TasksMove
  <2>5. QED
    BY <2>2, <2>3, <2>4 DEF ConnectingInv, InCallback, Established, Destroyed, NoCall, NewChannel
<1>7. QED
  BY <1>4, <1>5, <1>6 DEF LifeInv
\* Steps that leave state, channel, buffer and tasks as they are.
Same == UNCHANGED <<state, channel, outputBuffer, pendingFunctors, functors, call,
                    holds, notified, resurrected, server, inMap, removals, after>>

LEMMA StaysSame ==
  ASSUME IInv, LifeInv, IInv', Same,
         due' \subseteq due \/ (state # "kConnecting" /\ due' \intersect {"close", "read"} # {}
                                    /\ server = "up" /\ ~resurrected => IsOpen),
         state = "kConnecting" => due' = {} /\ phase' \notin {"eventCallback", "taskCallback"},
         TurnInv'
  PROVE  LifeInv'
<1>1. Adds(<<>>) /\ <<>> \in Seq(TaskType) /\ DOMAIN <<>> = {}
  BY AddsNone DEF IInv, TaskInv, Same
<1>2. CallInv' /\ WatchedIffBuffered'
  BY DEF LifeInv, CallInv, WatchedIffBuffered, Same, Established, Destroyed
<1>3. (server = "up" /\ ~resurrected /\ due' \intersect {"close", "read"} # {})
         => IsOpen \/ due' \subseteq due
  OBVIOUS
<1>4. QED
  BY <1>1, <1>2, <1>3, GoesOn DEF Same

\* A poll finds nothing for a channel that is not registered, and does not find
\* both the end of the connection and something to read.
LEMMA PollFinds ==
  ASSUME IInv, LifeInv, NEW room \in BOOLEAN
  PROVE  /\ Handlers(room) \subseteq {"close", "error", "read", "write"}
         /\ ~({"close", "read"} \subseteq Handlers(room))
         /\ state = "kConnecting" => Handlers(room) = {}
         /\ server = "up" /\ ~resurrected /\ Handlers(room) # {} => IsOpen
<1>1. Handlers(room) # {} => Registered(channel)
  BY DEF Handlers
<1>2. state = "kConnecting" => ~Registered(channel)
  BY NewChannelMoves DEF LifeInv, ConnectingInv
<1>3. server = "up" /\ ~resurrected /\ Registered(channel) => IsOpen
  <2>1. Registered(channel) => channel.index = "kAdded"
    BY DEF IInv, EpollInSync, InSync
  <2>2. state \in {"kConnecting", "kConnected", "kDisconnecting", "kDisconnected"}
    BY DEF IInv, TypeOK
  <2>3. QED
    BY <1>2, <2>1, <2>2 DEF LifeInv, EndInv, IsOpen
<1>4. /\ Handlers(room) \subseteq {"close", "error", "read", "write"}
      /\ ~({"close", "read"} \subseteq Handlers(room))
  BY DEF Handlers
<1>5. QED
  BY <1>1, <1>2, <1>3, <1>4

\* The peer, the poll, and the handlers that only look at the socket.
LEMMA LooksKeep ==
  ASSUME IInv, LifeInv, IInv',
         \/ PeerNext \/ UNCHANGED vars \/ BatchDone
         \/ \E room \in BOOLEAN : Poll(room)
         \/ HandleError \/ ReadMessage \/ ReadError \/ HandleWriteFails
  PROVE  LifeInv'
<1>1. CASE PeerNext \/ UNCHANGED vars
  <2>1. Same /\ UNCHANGED <<due, phase>>
    BY <1>1 DEF PeerNext, vars, connVars, loopVars, serverVars, userVars, dataHist, Same
  <2>2. TurnInv'
    BY <2>1 DEF LifeInv, TurnInv, InCallback, Same
  <2>3. state = "kConnecting" => due' = {} /\ phase' \notin {"eventCallback", "taskCallback"}
    BY <2>1 DEF LifeInv, ConnectingInv, InCallback
  <2>4. QED
    BY <2>1, <2>2, <2>3, StaysSame
<1>2. ASSUME NEW room \in BOOLEAN, Poll(room) PROVE LifeInv'
  <2>1. Same /\ due' = Handlers(room) /\ phase = "poll" /\ phase' = "events"
    BY <1>2 DEF Poll, connVars, serverVars, userVars, Same
  <2>2. TurnInv'
    <3>1. functors = <<>> /\ after = "return"
      BY <2>1 DEF LifeInv, TurnInv, InCallback
    <3>2. QED
      BY <2>1, <3>1, PollFinds DEF TurnInv, Same
  <2>3. state = "kConnecting" => due' = {} /\ phase' \notin {"eventCallback", "taskCallback"}
    BY <2>1, PollFinds
  <2>4. \/ due' \subseteq due
        \/ state # "kConnecting" /\ due' \intersect {"close", "read"} # {}
              /\ server = "up" /\ ~resurrected => IsOpen
    BY <2>1, PollFinds
  <2>5. QED
    BY <2>1, <2>2, <2>3, <2>4, StaysSame
<1>3. CASE HandleError \/ ReadMessage \/ ReadError \/ HandleWriteFails
  <2>1. Same
    BY <1>3 DEF HandleError, ReadMessage, ReadError, HandleWriteFails, connVars,
       serverVars, userVars, Same
  <2>2. /\ phase = "events" /\ due # {} /\ due' \subseteq due
        /\ phase' \in {"events", "eventCallback"}
    BY <1>3 DEF HandleError, ReadMessage, ReadError, HandleWriteFails, Due
  <2>3. TurnInv'
    <3>1. functors = <<>> /\ after = "return" /\ ~({"close", "read"} \subseteq due)
      BY <2>2 DEF LifeInv, TurnInv, InCallback
    <3>2. QED
      BY <2>1, <2>2, <3>1 DEF TurnInv, Same
  <2>4. state # "kConnecting"
    BY <2>2 DEF LifeInv, ConnectingInv
  <2>5. QED
    BY <2>1, <2>2, <2>3, <2>4, StaysSame
<1>4. CASE BatchDone
  <2>1. Same /\ due' = due /\ phase = "batch" /\ phase' = "poll" /\ functors = <<>>
    BY <1>4 DEF BatchDone, connVars, serverVars, userVars, Same
  <2>2. due = {} /\ after = "return"
    BY <2>1 DEF LifeInv, TurnInv, InCallback
  <2>3. TurnInv'
    BY <2>1, <2>2 DEF TurnInv, Same
  <2>4. QED
    BY <2>1, <2>2, <2>3, StaysSame
<1>5. QED
  BY <1>1, <1>2, <1>3, <1>4
-----------------------------------------------------------------------------
(* Sending and writing.                                                    *)

\* sendInLoop() queues at most one callback.
LEMMA SendNoticesAre ==
  ASSUME NEW rest
  PROVE  /\ SendNotices(rest) \in Seq(TaskType)
         /\ \A j \in DOMAIN SendNotices(rest) :
               SendNotices(rest)[j] \notin {Established, Destroyed}
<1> DEFINE w == Task("writeComplete")
           h == Task("highWaterMark")
<1>1. w \in TaskType /\ h \in TaskType
  BY TaskTypes DEF TaskNames
<1>2. w \notin {Established, Destroyed} /\ h \notin {Established, Destroyed}
  BY DEF Established, Destroyed, Task
<1>3. <<>> \in Seq(TaskType) /\ <<w>> \in Seq(TaskType) /\ <<h>> \in Seq(TaskType)
  BY <1>1, TaskTypes
<1> HIDE DEF w, h
<1>4. /\ <<>> \o <<>> = <<>> /\ <<w>> \o <<>> = <<w>> /\ <<>> \o <<h>> = <<h>>
  BY <1>3, ConcatEmptySeq
<1>5. SendNotices(rest) \in {<<>>, <<w>>, <<h>>}
  <2>1. CASE rest = <<>>
    BY <1>4, <2>1 DEF SendNotices, w
  <2>2. CASE rest # <<>>
    BY <1>4, <2>2 DEF SendNotices, h
  <2>3. QED
    BY <2>1, <2>2
<1>6. ASSUME NEW s \in {<<>>, <<w>>, <<h>>}
      PROVE  s \in Seq(TaskType) /\ \A j \in DOMAIN s : s[j] \notin {Established, Destroyed}
  <2>1. /\ \A j \in DOMAIN <<>> : FALSE
        /\ DOMAIN <<w>> = {1} /\ <<w>>[1] = w
        /\ DOMAIN <<h>> = {1} /\ <<h>>[1] = h
    OBVIOUS
  <2>2. CASE s = <<>>
    BY <1>3, <2>1, <2>2
  <2>3. CASE s = <<w>>
    BY <1>2, <1>3, <2>1, <2>3
  <2>4. CASE s = <<h>>
    BY <1>2, <1>3, <2>1, <2>4
  <2>5. QED
    BY <2>2, <2>3, <2>4
<1>7. QED
  BY <1>5, <1>6

LEMMA SendGoesOn ==
  ASSUME IInv, LifeInv, IInv', NEW m \in Messages, SendInLoop(m), state # "kConnecting",
         UNCHANGED <<state, call, holds, notified, resurrected, server, inMap, removals,
                     after, due>>,
         functors' = functors \/ Runs("sendInLoop"),
         TurnInv'
  PROVE  LifeInv'
<1>1. CallInv'
  BY DEF LifeInv, CallInv, Established, Destroyed
<1>2. state' = state /\ channel \in ChannelType /\ pendingFunctors \in Seq(TaskType)
  BY DEF IInv, TypeOK, TaskInv
<1>3. \/ functors' = functors
      \/ \E name : Runs(name) /\ name \notin {"connectEstablished", "connectDestroyed"}
  OBVIOUS
<1>4. CASE UNCHANGED <<channel, outputBuffer, pendingFunctors>>
  <2>1. Adds(<<>>) /\ <<>> \in Seq(TaskType) /\ DOMAIN <<>> = {}
    BY <1>2, <1>4, AddsNone
  <2>2. WatchedIffBuffered'
    BY <1>4 DEF LifeInv, WatchedIffBuffered
  <2>3. QED
    BY <1>1, <1>2, <1>3, <1>4, <2>1, <2>2, GoesOn
<1>5. CASE state # "kDisconnected" /\ ~(Direct /\ WriteFails)
  <2>1. IsOpen
    BY <1>5 DEF IsOpen, IInv, TypeOK
  <2>2. PICK rest :
          /\ outputBuffer' = outputBuffer \o rest
          /\ channel' = IF rest = <<>> THEN channel ELSE Watch(channel)
          /\ Adds(SendNotices(rest))
          /\ rest \in Seq(Unit)
    <3> DEFINE r(n) == SubSeq(Bytes(m), n + 1, Size[m])
    <3>1. PICK n \in IF Direct THEN 0..Size[m] ELSE {0} :
            /\ outputBuffer' = outputBuffer \o r(n)
            /\ channel' = IF r(n) = <<>> THEN channel ELSE Watch(channel)
            /\ pendingFunctors' = pendingFunctors \o SendNotices(r(n))
      BY <1>5 DEF SendInLoop, Buffered
    <3>2. r(n) \in Seq(Unit)
      <4>1. n \in 0..Len(Bytes(m))
        BY BytesType, SizesType
      <4>2. QED
        BY <4>1, BytesType, SplitSeq
    <3>3. QED
      BY <3>1, <3>2 DEF Adds
  <2>3. rest # <<>> => IsWriting(channel')
    BY <1>2, <2>2, ChannelMoves DEF Watch
  <2>4. WatchedIffBuffered'
    <3>1. outputBuffer \in Seq(Unit)
      BY DEF IInv, TypeOK, Unit
    <3>2. CASE rest = <<>>
      <4>1. outputBuffer' = outputBuffer /\ channel' = channel
        BY <2>2, <3>1, <3>2, ConcatEmptySeq
      <4>2. QED
        BY <4>1 DEF LifeInv, WatchedIffBuffered
    <3>3. CASE rest # <<>>
      <4>1. outputBuffer' # <<>>
        BY <2>2, <3>1, <3>3, ConcatProperties, EmptySeq
      <4>2. QED
        BY <2>3, <3>3, <4>1 DEF WatchedIffBuffered
    <3>4. QED
      BY <3>2, <3>3
  <2>5. (server = "up" /\ ~resurrected) =>
           \/ UNCHANGED channel
           \/ IsOpen /\ ("read" \in channel.events =>
                            "read" \in channel'.events /\ channel'.index = "kAdded")
    BY <1>2, <2>1, <2>2, ChannelMoves DEF Watch
  <2>6. SendNotices(rest) \in Seq(TaskType)
        /\ \A j \in DOMAIN SendNotices(rest) :
              SendNotices(rest)[j] \notin {Established, Destroyed}
    BY SendNoticesAre
  <2>7. QED
    BY <1>1, <1>2, <1>3, <2>2, <2>4, <2>5, <2>6, GoesOn
<1>6. QED
  BY <1>4, <1>5 DEF SendInLoop

\* A write that leaves something leaves EPOLLOUT; one that does not takes it back.
LEMMA WriteKeeps ==
  ASSUME IInv, LifeInv, IInv', HandleWrite
  PROVE  LifeInv'
<1>1. PICK n \in 1..Len(outputBuffer) :
        /\ outputBuffer' = SubSeq(outputBuffer, n + 1, Len(outputBuffer))
        /\ IF n < Len(outputBuffer)
           THEN UNCHANGED <<channel, pendingFunctors>>
           ELSE /\ channel' = DisableWriting(channel)
                /\ pendingFunctors' = Append(pendingFunctors, Task("writeComplete"))
  BY DEF HandleWrite
<1>2. /\ phase = "events" /\ "write" \in due /\ due' = due \ {"write"} /\ IsWriting(channel)
      /\ UNCHANGED <<state, functors, phase, after, inMap, removals, server, call, holds,
                     notified, resurrected>>
  BY DEF HandleWrite, Due, serverVars, userVars
<1>3. /\ channel \in ChannelType /\ pendingFunctors \in Seq(TaskType)
      /\ outputBuffer \in Seq(Unit)
      /\ state \in {"kConnecting", "kConnected", "kDisconnecting", "kDisconnected"}
  BY DEF IInv, TypeOK, TaskInv, Unit
<1>4. state # "kConnecting" /\ (server = "up" /\ ~resurrected => IsOpen)
  <2>1. state # "kConnecting"
    BY <1>2 DEF LifeInv, ConnectingInv
  <2>2. server = "up" /\ ~resurrected => state # "kDisconnected"
    BY <1>2 DEF LifeInv, EndInv, IsWriting
  <2>3. QED
    BY <1>3, <2>1, <2>2 DEF IsOpen
<1>5. CallInv' /\ TurnInv'
  BY <1>2 DEF LifeInv, CallInv, TurnInv, Established, Destroyed, InCallback
<1>6. CASE n < Len(outputBuffer)
  <2>1. Adds(<<>>) /\ <<>> \in Seq(TaskType) /\ DOMAIN <<>> = {}
    BY <1>1, <1>3, <1>6, AddsNone
  <2>2. outputBuffer' # <<>>
    <3>1. n + 1 \in 1..Len(outputBuffer) + 1 /\ Len(outputBuffer) \in n..Len(outputBuffer)
          /\ Len(outputBuffer) \in Nat
      BY <1>3, <1>6, LenProperties
    <3>2. Len(outputBuffer') = Len(outputBuffer) - n
      BY <1>1, <1>3, <1>6, <3>1, SubSeqProperties
    <3>3. QED
      BY <1>6, <3>1, <3>2, EmptySeq
  <2>3. WatchedIffBuffered'
    BY <1>1, <1>2, <1>6, <2>2 DEF WatchedIffBuffered
  <2>4. QED
    BY <1>1, <1>2, <1>4, <1>5, <1>6, <2>1, <2>3, GoesOn
<1>7. CASE ~(n < Len(outputBuffer))
  <2>1. Task("writeComplete") \in TaskType \ {Established, Destroyed}
    BY TaskTypes DEF TaskNames, Established, Destroyed, Task
  <2> DEFINE s == <<Task("writeComplete")>>
  <2>2. Adds(s) /\ s \in Seq(TaskType) /\ \A j \in DOMAIN s : s[j] \notin {Established, Destroyed}
    BY <1>1, <1>3, <1>7, <2>1, AddsOne
  <2> HIDE DEF s
  <2>3. outputBuffer' = <<>>
    <3>1. n = Len(outputBuffer) /\ Len(outputBuffer) \in Nat
      BY <1>3, <1>7, LenProperties
    <3>2. QED
      BY <1>1, <1>3, <3>1, SubSeqEmpty
  <2>4. channel' = DisableWriting(channel)
    BY <1>1, <1>7
  <2>5. ~IsWriting(channel')
    BY <1>3, <2>4, ChannelMoves
  <2>6. WatchedIffBuffered'
    BY <2>3, <2>5 DEF WatchedIffBuffered
  <2>7. (server = "up" /\ ~resurrected) =>
           \/ UNCHANGED channel
           \/ IsOpen /\ ("read" \in channel.events =>
                            "read" \in channel'.events /\ channel'.index = "kAdded")
    BY <1>3, <1>4, <2>4, ChannelMoves
  <2>8. QED
    BY <1>2, <1>4, <1>5, <2>2, <2>6, <2>7, GoesOn
<1>8. QED
  BY <1>6, <1>7
-----------------------------------------------------------------------------
(* The tasks, the callbacks and the users, where nothing begins or ends.   *)

\* A task that is neither of the two is run by a connection that has been established.
LEMMA RunsLater ==
  ASSUME IInv, LifeInv, NEW name, Runs(name),
         name \notin {"connectEstablished", "connectDestroyed"}
  PROVE  /\ state # "kConnecting" /\ phase = "batch"
         /\ due = {} /\ after = "return"
<1>1. /\ 1 \in DOMAIN functors /\ functors[1] \in TaskType /\ functors[1][1] = name
      /\ phase = "batch"
  BY RunsFacts
<1>2. functors[1] \notin {Established, Destroyed}
  BY <1>1, TaskNamesDiffer
<1>3. state # "kConnecting"
  BY <1>1, <1>2 DEF LifeInv, ConnectingInv
<1>4. due = {} /\ after = "return"
  BY <1>1 DEF LifeInv, TurnInv, InCallback
<1>5. QED
  BY <1>1, <1>3, <1>4

\* Where the step does not touch the buffer or the channel.
LEMMA QuietGoesOn ==
  ASSUME IInv, LifeInv, IInv',
         UNCHANGED <<notified, resurrected, server, inMap, removals, after, channel,
                     outputBuffer>>,
         state' = state \/ (IsOpen /\ state' = "kDisconnecting"),
         NEW s \in Seq(TaskType), Adds(s),
         \A j \in DOMAIN s : s[j] \notin {Established, Destroyed},
         \/ functors' = functors
         \/ \E name : Runs(name) /\ name \notin {"connectEstablished", "connectDestroyed"},
         due' \subseteq due,
         state # "kConnecting",
         CallInv', TurnInv'
  PROVE  LifeInv'
<1>1. WatchedIffBuffered'
  BY DEF LifeInv, WatchedIffBuffered, IsOpen
<1>2. QED
  BY <1>1, GoesOn

LEMMA TasksGoOn ==
  ASSUME IInv, LifeInv, IInv',
         RunSend \/ RunShutdown \/ RunNotice \/ (RunForceClose /\ ~IsOpen)
  PROVE  LifeInv'
<1>1. pendingFunctors \in Seq(TaskType)
  BY DEF IInv, TaskInv
<1>2. CASE RunSend
  <2>1. Runs("sendInLoop") /\ SendInLoop(Head(functors)[2])
        /\ UNCHANGED <<state, phase, due, after, inMap, removals, server, call, holds,
                       notified, resurrected>>
    BY <1>2 DEF RunSend, serverVars, userVars
  <2>2. Head(functors)[2] \in Messages
    BY <2>1, RunsTypes, SendHasMessage DEF IInv, Runs
  <2>3. state # "kConnecting" /\ phase = "batch" /\ due = {} /\ after = "return"
    BY <2>1, RunsLater
  <2>4. TurnInv'
    BY <2>1, <2>3 DEF TurnInv
  <2>5. QED
    BY <2>1, <2>2, <2>3, <2>4, SendGoesOn
<1>3. CASE RunShutdown \/ RunNotice \/ (RunForceClose /\ ~IsOpen)
  <2>1. PICK name : Runs(name) /\ name \notin {"connectEstablished", "connectDestroyed"}
    BY <1>3 DEF RunShutdown, RunNotice, RunForceClose
  <2>2. /\ UNCHANGED <<state, channel, outputBuffer, pendingFunctors, due, after, inMap,
                       removals, server, call, holds, notified, resurrected>>
        /\ phase' \in {phase, "taskCallback"}
    BY <1>3 DEF RunShutdown, RunNotice, RunForceClose, IsOpen, connVars, serverVars, userVars
  <2>3. state # "kConnecting" /\ phase = "batch" /\ due = {} /\ after = "return"
    BY <2>1, RunsLater
  <2>4. TurnInv'
    BY <2>2, <2>3 DEF TurnInv
  <2>5. CallInv'
    BY <2>2 DEF LifeInv, CallInv, Established, Destroyed
  <2>6. Adds(<<>>) /\ <<>> \in Seq(TaskType) /\ DOMAIN <<>> = {}
    BY <1>1, <2>2, AddsNone
  <2>7. QED
    BY <2>1, <2>2, <2>3, <2>4, <2>5, <2>6, QuietGoesOn
<1>4. QED
  BY <1>2, <1>3

LEMMA CallbacksGoOn ==
  ASSUME IInv, LifeInv, IInv', CallbackNext
  PROVE  LifeInv'
<1>1. /\ pendingFunctors \in Seq(TaskType) /\ InCallback /\ IsOpen /\ state # "kConnecting"
      /\ UNCHANGED <<functors, phase, due, after, inMap, removals, server, call, holds,
                     notified, resurrected>>
  BY DEF IInv, TaskInv, CallbackNext, CallbackSends, CallbackShutsDown, CallbackForceCloses,
     CallbackMayCall, IsOpen, loopVars, serverVars, userVars
<1>2. TurnInv' /\ CallInv'
  BY <1>1 DEF LifeInv, CallInv, TurnInv, Established, Destroyed, InCallback
<1>3. ASSUME NEW m \in LoopMessages, CallbackSends(m) PROVE LifeInv'
  <2>1. m \in Messages /\ SendInLoop(m) /\ state' = state
    BY <1>3 DEF CallbackSends, Messages
  <2>2. QED
    BY <1>1, <1>2, <2>1, SendGoesOn
<1>4. CASE CallbackShutsDown
  <2>1. UNCHANGED <<channel, outputBuffer, pendingFunctors>> /\ state' = "kDisconnecting"
    BY <1>4 DEF CallbackShutsDown, loopVars
  <2>2. Adds(<<>>) /\ <<>> \in Seq(TaskType) /\ DOMAIN <<>> = {}
    BY <1>1, <2>1, AddsNone
  <2>3. QED
    BY <1>1, <1>2, <2>1, <2>2, QuietGoesOn
<1>5. CASE CallbackForceCloses
  <2>1. /\ UNCHANGED <<channel, outputBuffer>> /\ state' = "kDisconnecting"
        /\ pendingFunctors' = Append(pendingFunctors, Task("forceCloseInLoop"))
    BY <1>5 DEF CallbackForceCloses
  <2>2. Task("forceCloseInLoop") \in TaskType \ {Established, Destroyed}
    BY TaskTypes DEF TaskNames, Established, Destroyed, Task
  <2> DEFINE s == <<Task("forceCloseInLoop")>>
  <2>3. Adds(s) /\ s \in Seq(TaskType) /\ \A j \in DOMAIN s : s[j] \notin {Established, Destroyed}
    BY <1>1, <2>1, <2>2, AddsOne
  <2> HIDE DEF s
  <2>4. QED
    BY <1>1, <1>2, <2>1, <2>3, QuietGoesOn
<1>6. QED
  BY <1>3, <1>4, <1>5 DEF CallbackNext

LEMMA UsersGoOn ==
  ASSUME IInv, LifeInv, IInv', NEW u \in Users, UserNext(u), ~UserSets(u)
  PROVE  LifeInv'
<1>1. pendingFunctors \in Seq(TaskType) /\ call \in [Users -> CallType]
  BY DEF IInv, TaskInv
<1>2. ASSUME UNCHANGED <<state, channel, outputBuffer, pendingFunctors, functors, phase, due,
                         after, inMap, removals, server, notified, resurrected>>,
             holds # {}, CallInv'
      PROVE  LifeInv'
  <2>1. state # "kConnecting"
    BY <1>2 DEF LifeInv, ConnectingInv
  <2>2. TurnInv'
    BY <1>2 DEF LifeInv, TurnInv, InCallback
  <2>3. Adds(<<>>) /\ <<>> \in Seq(TaskType) /\ DOMAIN <<>> = {}
    BY <1>1, <1>2, AddsNone
  <2>4. QED
    BY <1>2, <2>1, <2>2, <2>3, QuietGoesOn
<1>3. ASSUME NEW step, NEW task \in TaskType \ {Established, Destroyed},
             UserMayCall(u), UserReads(u, step, task)
      PROVE  LifeInv'
  <2>1. CallInv'
    BY <1>1, <1>3 DEF LifeInv, CallInv, UserReads, Established, Destroyed
  <2>2. QED
    BY <1>2, <1>3, <2>1 DEF UserReads, UserMayCall, connVars, loopVars, serverVars
<1>4. ASSUME NEW m \in UserMessages, UserSends(u, m) PROVE LifeInv'
  <2>1. SendTask(m) \in TaskType \ {Established, Destroyed}
    BY TaskTypes, TaskNamesDiffer DEF Messages
  <2>2. QED
    BY <1>3, <1>4, <2>1 DEF UserSends
<1>5. CASE UserShutsDown(u) \/ UserForceCloses(u)
  <2>1. /\ Task("shutdownInLoop") \in TaskType \ {Established, Destroyed}
        /\ Task("forceCloseInLoop") \in TaskType \ {Established, Destroyed}
    BY TaskTypes DEF TaskNames, Established, Destroyed, Task
  <2>2. QED
    BY <1>3, <1>5, <2>1 DEF UserShutsDown, UserForceCloses
<1>6. CASE UserQueues(u)
  <2>1. /\ call[u].step = "queue"
        /\ pendingFunctors' = Append(pendingFunctors, call[u].task)
        /\ call' = [call EXCEPT ![u] = NoCall]
        /\ UNCHANGED <<state, channel, outputBuffer, functors, phase, due, after, inMap,
                       removals, server, notified, resurrected>>
    BY <1>6 DEF UserQueues, connVars, serverVars
  <2>2. call[u].task \in TaskType \ {Established, Destroyed}
    <3>1. call[u].step # "none"
      BY <2>1
    <3>2. QED
      BY <3>1 DEF IInv, TaskInv, LifeInv, CallInv
  <2>3. state # "kConnecting"
    BY <2>1 DEF LifeInv, ConnectingInv, NoCall
  <2> DEFINE s == <<call[u].task>>
  <2>4. Adds(s) /\ s \in Seq(TaskType) /\ \A j \in DOMAIN s : s[j] \notin {Established, Destroyed}
    BY <1>1, <2>1, <2>2, AddsOne
  <2> HIDE DEF s
  <2>5. CallInv'
    BY <1>1, <2>1 DEF LifeInv, CallInv, NoCall, Established, Destroyed
  <2>6. TurnInv'
    BY <2>1 DEF LifeInv, TurnInv, InCallback
  <2>7. QED
    BY <2>1, <2>3, <2>4, <2>5, <2>6, QuietGoesOn
<1>7. CASE UserDrops(u)
  <2>1. CallInv'
    BY <1>7 DEF LifeInv, CallInv, UserDrops, Established, Destroyed
  <2>2. QED
    BY <1>2, <1>7, <2>1 DEF UserDrops, connVars, loopVars, serverVars
<1>8. QED
  BY <1>4, <1>5, <1>6, <1>7 DEF UserNext
-----------------------------------------------------------------------------
(* The steps that begin or end the connection.                             *)

LEMMA SwapKeeps ==
  ASSUME IInv, LifeInv, SwapPending
  PROVE  LifeInv'
<1>1. /\ phase = "events" /\ phase' = "batch" /\ due = {} /\ due' = {}
      /\ functors' = pendingFunctors /\ pendingFunctors' = <<>>
      /\ UNCHANGED <<state, channel, outputBuffer, after, inMap, removals, server, call,
                     holds, notified, resurrected>>
  BY DEF SwapPending, connVars, serverVars, userVars
<1>2. functors = <<>> /\ after = "return"
  BY <1>1 DEF LifeInv, TurnInv, InCallback
<1>3. DOMAIN functors = {} /\ DOMAIN pendingFunctors' = {}
  BY <1>1, <1>2
<1>4. Waiting' <=> Waiting
  BY <1>1, <1>3 DEF Waiting, InBatch, Pending, Destroyed
<1>5. FirstInv'
  BY <1>1, <1>3 DEF LifeInv, FirstInv, Established
<1>6. TurnInv'
  BY <1>1, <1>2 DEF TurnInv
<1>7. ConnectingInv'
  BY <1>1, <1>3 DEF LifeInv, ConnectingInv, InCallback, Established, Destroyed, NoCall,
     NewChannel
<1>8. CallInv' /\ WatchedIffBuffered'
  BY <1>1 DEF LifeInv, CallInv, WatchedIffBuffered, Established, Destroyed
<1>9. EndInv'
  <2>1. (Ending' <=> Ending) /\ (IsOpen' <=> IsOpen) /\ Heard' = Heard
    BY <1>1, <1>4 DEF Ending, IsOpen, Heard
  <2>2. QED
    BY <1>1, <2>1 DEF LifeInv, EndInv
<1>10. QED
  BY <1>5, <1>6, <1>7, <1>8, <1>9 DEF LifeInv

\* Append on what the user has heard.
LEMMA BothHeard == Append(<<"UP">>, "DOWN") = <<"UP", "DOWN">>
<1> DEFINE W == {"UP", "DOWN"}
           s == Append(<<"UP">>, "DOWN")
           t == <<"UP", "DOWN">>
<1>1. <<"UP">> \in Seq(W) /\ "DOWN" \in W /\ t \in Seq(W)
  OBVIOUS
<1>2. s \in Seq(W) /\ Len(s) = 2 /\ s[1] = "UP" /\ s[2] = "DOWN"
  BY <1>1, AppendProperties
<1>3. Len(t) = 2 /\ t[1] = "UP" /\ t[2] = "DOWN"
  OBVIOUS
<1> HIDE DEF W, s, t
<1>4. \A i \in 1 .. Len(s) : s[i] = t[i]
  BY <1>2, <1>3
<1>5. s = t
  BY <1>1, <1>2, <1>3, <1>4, SeqEqual
<1>6. QED
  BY <1>5 DEF s, t

\* handleClose() of an open connection: it is silent then, and its removal has begun.
LEMMA ClosesKeep ==
  ASSUME IInv, LifeInv, NEW back, HandleClose(back),
         UNCHANGED <<pendingFunctors, call, inMap, removals, server, resurrected>>,
         server = "up" /\ ~resurrected => IsOpen,
         state # "kConnecting",
         functors' = functors \/ \E name : Runs(name),
         due' \intersect {"close", "read"} = {},
         TurnInv'
  PROVE  LifeInv'
<1>1. /\ state' = "kDisconnected" /\ channel' = DisableAll(channel)
      /\ notified' = Append(notified, "DOWN") /\ after' = "closeCallback"
  BY DEF HandleClose
<1>2. Adds(<<>>) /\ <<>> \in Seq(TaskType) /\ DOMAIN <<>> = {}
  BY AddsNone DEF IInv, TaskInv
<1>3. FirstInv'
  BY <1>2, TasksMove
<1>4. ConnectingInv' /\ WatchedIffBuffered'
  BY <1>1 DEF ConnectingInv, WatchedIffBuffered
<1>5. CallInv'
  BY DEF LifeInv, CallInv, Established, Destroyed
<1>6. EndInv'
  <2>1. SUFFICES ASSUME server = "up", ~resurrected
                 PROVE  /\ notified' = <<"UP", "DOWN">>
                        /\ channel'.index # "kAdded" /\ channel'.events = {}
    BY <1>1 DEF EndInv, Heard, Ending, IsOpen
  <2>2. notified = <<"UP">> /\ channel.index = "kAdded"
    BY <2>1 DEF LifeInv, EndInv, IsOpen, Heard
  <2>3. Append(<<"UP">>, "DOWN") = <<"UP", "DOWN">>
    BY BothHeard
  <2>4. channel'.index = "kDeleted" /\ channel'.events = {}
    BY <1>1, <2>2, ChannelMoves DEF IInv, TypeOK
  <2>5. QED
    BY <1>1, <2>2, <2>3, <2>4
<1>7. QED
  BY <1>3, <1>4, <1>5, <1>6 DEF LifeInv

LEMMA CloseStepsKeep ==
  ASSUME IInv, LifeInv, CloseEvent \/ ReadEnd \/ (RunForceClose /\ IsOpen)
  PROVE  LifeInv'
<1>1. CASE CloseEvent \/ ReadEnd
  <2>1. PICK h \in {"close", "read"} : Due(h) /\ due' = due \ {h}
    BY <1>1 DEF CloseEvent, ReadEnd
  <2>2. /\ HandleClose("eventCallback") /\ phase' = "eventCallback"
        /\ UNCHANGED <<pendingFunctors, functors, call, inMap, removals, server, resurrected>>
    BY <1>1 DEF CloseEvent, ReadEnd, HandleClose, serverVars, userVars
  <2>3. phase = "events" /\ h \in due
    BY <2>1 DEF Due
  <2>4. functors = <<>> /\ ~({"close", "read"} \subseteq due)
    BY <2>3 DEF LifeInv, TurnInv
  <2>5. due' \intersect {"close", "read"} = {} /\ TurnInv'
    BY <2>1, <2>2, <2>3, <2>4 DEF TurnInv, InCallback
  <2>6. state # "kConnecting"
    BY <2>3 DEF LifeInv, ConnectingInv
  <2>7. server = "up" /\ ~resurrected => IsOpen
    BY <2>3 DEF LifeInv, EndInv
  <2>8. QED
    BY <2>2, <2>5, <2>6, <2>7, ClosesKeep
<1>2. CASE RunForceClose /\ IsOpen
  <2>1. /\ Runs("forceCloseInLoop") /\ HandleClose("taskCallback") /\ phase' = "taskCallback"
        /\ UNCHANGED <<pendingFunctors, due, call, inMap, removals, server, resurrected>>
    BY <1>2 DEF RunForceClose, IsOpen, HandleClose, serverVars, userVars
  <2>2. state # "kConnecting" /\ due = {}
    BY <2>1, RunsLater
  <2>3. TurnInv'
    BY <2>1, <2>2 DEF TurnInv, InCallback
  <2>4. QED
    BY <1>2, <2>1, <2>2, <2>3, ClosesKeep
<1>3. QED
  BY <1>1, <1>2

\* connectEstablished() is the first that happens to the connection.
LEMMA EstablishedKeeps ==
  ASSUME IInv, LifeInv, ConnectEstablished
  PROVE  LifeInv'
<1>1. /\ Runs("connectEstablished") /\ state' = "kConnected" /\ phase' = "taskCallback"
      /\ channel' = EnableReading(channel) /\ notified' = Append(notified, "UP")
      /\ UNCHANGED <<outputBuffer, pendingFunctors, due, after, inMap, removals, server,
                     call, resurrected>>
  BY DEF ConnectEstablished, serverVars
<1>2. /\ phase = "batch" /\ functors # <<>> /\ 1 \in DOMAIN functors
      /\ functors[1] = Established
      /\ \A i \in DOMAIN functors' :
            i + 1 \in DOMAIN functors /\ functors'[i] = functors[i + 1] /\ i + 1 # 1
  BY <1>1, RunsFacts, TaskNamesDiffer
<1>3. /\ state = "kConnecting"
      /\ \A i \in DOMAIN functors' : functors'[i] # Established
      /\ \A i \in DOMAIN pendingFunctors' : pendingFunctors'[i] # Established
  BY <1>1, <1>2 DEF LifeInv, FirstInv
<1>4. /\ channel = NewChannel /\ outputBuffer = <<>> /\ notified = <<>>
      /\ due = {} /\ after = "return"
  BY <1>3 DEF LifeInv, ConnectingInv
<1>5. FirstInv' /\ ConnectingInv'
  BY <1>1, <1>3 DEF FirstInv, ConnectingInv, Established
<1>6. CallInv' /\ TurnInv'
  BY <1>1, <1>4 DEF LifeInv, CallInv, TurnInv, Established, Destroyed
<1>7. /\ channel'.index = "kAdded" /\ channel'.events = {"read"} /\ ~IsWriting(channel')
  BY <1>1, <1>4, NewChannelMoves
<1>8. WatchedIffBuffered'
  BY <1>1, <1>4, <1>7 DEF WatchedIffBuffered
<1>9. EndInv'
  <2>1. Waiting' => Waiting
    BY <1>1, <1>2 DEF Waiting, InBatch, Pending, Destroyed
  <2>2. SUFFICES ASSUME server = "up", ~resurrected
                 PROVE  notified' = <<"UP">> /\ ~Ending' /\ inMap'
    BY <1>1, <1>4, <1>7 DEF EndInv, IsOpen, Heard
  <2>3. ~Ending /\ inMap
    BY <1>3, <2>2 DEF LifeInv, EndInv
  <2>4. Append(<<>>, "UP") = <<"UP">>
    OBVIOUS
  <2>5. QED
    BY <1>1, <1>4, <2>1, <2>3, <2>4 DEF Ending
<1>10. QED
  BY <1>5, <1>6, <1>8, <1>9 DEF LifeInv

\* connectDestroyed() is, while the server lives, only of a closed connection.
LEMMA DestroyedKeeps ==
  ASSUME IInv, LifeInv, ConnectDestroyed
  PROVE  LifeInv'
<1>1. /\ Runs("connectDestroyed")
      /\ UNCHANGED <<outputBuffer, pendingFunctors, due, inMap, removals, server, call, holds,
                     resurrected>>
  BY DEF ConnectDestroyed, serverVars, userVars
<1>2. /\ phase = "batch" /\ 1 \in DOMAIN functors /\ functors[1] = Destroyed
  BY <1>1, RunsFacts, TaskNamesDiffer
<1>3. due = {} /\ after = "return"
  BY <1>2 DEF LifeInv, TurnInv, InCallback
<1>4. server = "up" /\ ~resurrected => state = "kDisconnected"
  BY <1>2 DEF LifeInv, EndInv, Ending, Waiting, InBatch, Destroyed
<1>5. Adds(<<>>) /\ <<>> \in Seq(TaskType) /\ DOMAIN <<>> = {}
  BY <1>1, AddsNone DEF IInv, TaskInv
<1>6. state' = state \/ state # "kConnecting"
  BY DEF ConnectDestroyed, StillUp
<1>7. /\ FirstInv'
      /\ \A i \in DOMAIN functors' : \E k \in DOMAIN functors : functors'[i] = functors[k]
  BY <1>1, <1>5, <1>6, TasksMove
<1>8. CallInv'
  BY <1>1 DEF LifeInv, CallInv, Established, Destroyed
<1>9. CASE StillUp
  <2>1. state = "kConnected" /\ state' = "kDisconnected" /\ phase' = "taskCallback"
        /\ after' = "remove"
    BY <1>9 DEF ConnectDestroyed, StillUp
  <2>2. EndInv'
    BY <1>1, <1>4, <2>1 DEF EndInv
  <2>3. TurnInv'
    BY <1>1, <1>3, <2>1 DEF TurnInv, InCallback
  <2>4. ConnectingInv' /\ WatchedIffBuffered'
    BY <2>1 DEF ConnectingInv, WatchedIffBuffered
  <2>5. QED
    BY <1>7, <1>8, <2>2, <2>3, <2>4 DEF LifeInv
<1>10. CASE ~StillUp
  <2>1. channel' = RemoveChannel(channel) /\ UNCHANGED <<state, notified, phase, after>>
    BY <1>10 DEF ConnectDestroyed, Removed
  <2>2. channel'.events = channel.events /\ channel'.index = "kNew"
    BY <2>1, ChannelMoves DEF IInv, TypeOK
  <2>3. EndInv'
    <3>1. SUFFICES ASSUME server = "up", ~resurrected PROVE EndInv'
      BY <1>1 DEF EndInv
    <3>2. state = "kDisconnected" /\ notified = Heard /\ channel.events = {}
      BY <1>4, <3>1 DEF LifeInv, EndInv
    <3>3. Heard' = Heard /\ state' = "kDisconnected" /\ channel'.events = {}
      BY <2>1, <2>2, <3>2 DEF Heard
    <3>4. QED
      BY <1>1, <1>3, <2>1, <2>2, <3>2, <3>3 DEF EndInv, IsOpen
  <2>4. TurnInv'
    BY <1>1, <1>2, <1>3, <2>1 DEF TurnInv
  <2>5. ConnectingInv'
    <3>1. SUFFICES ASSUME state = "kConnecting" PROVE ConnectingInv'
      BY <2>1 DEF ConnectingInv
    <3>2. channel' = NewChannel
      BY <2>1, <3>1, NewChannelMoves DEF LifeInv, ConnectingInv
    <3>3. \A i \in DOMAIN functors' : functors'[i] \in {Established, Destroyed}
      BY <1>7, <3>1 DEF LifeInv, ConnectingInv
    <3>4. QED
      BY <1>1, <1>3, <2>1, <3>1, <3>2, <3>3 DEF LifeInv, ConnectingInv, InCallback,
         Established, Destroyed, NoCall, NewChannel
  <2>6. WatchedIffBuffered'
    BY <1>1, <2>1, <2>2 DEF LifeInv, WatchedIffBuffered, IsWriting
  <2>7. QED
    BY <1>7, <1>8, <2>3, <2>4, <2>5, <2>6 DEF LifeInv
<1>11. QED
  BY <1>9, <1>10
\* Queueing a connectDestroyed.
LEMMA AddsDestroyed ==
  ASSUME IInv, pendingFunctors' = pendingFunctors \o DestroyTask
  PROVE  /\ Adds(DestroyTask) /\ DestroyTask \in Seq(TaskType)
         /\ DOMAIN DestroyTask = {1} /\ DestroyTask[1] = Destroyed
<1>1. Destroyed \in TaskType /\ pendingFunctors \in Seq(TaskType)
  BY TaskNamesDiffer DEF IInv, TaskInv
<1>2. DestroyTask = <<Destroyed>>
  BY DEF DestroyTask, Destroyed
<1>3. QED
  BY <1>1, <1>2, AddsOne

\* The end of a handler: for one that closed, the removal begins.
LEMMA ReturnKeeps ==
  ASSUME IInv, LifeInv, IInv', CallbackReturns
  PROVE  LifeInv'
<1>1. /\ InCallback /\ after' = "return"
      /\ phase' = IF phase = "eventCallback" THEN "events" ELSE "batch"
      /\ UNCHANGED <<state, outputBuffer, functors, due, call, holds, notified, resurrected>>
  BY DEF CallbackReturns, userVars
<1>2. state # "kConnecting"
  BY <1>1 DEF LifeInv, ConnectingInv
<1>3. CallInv' /\ TurnInv'
  BY <1>1 DEF LifeInv, CallInv, TurnInv, Established, Destroyed, InCallback
<1>4. ConnectingInv'
  BY <1>1, <1>2 DEF ConnectingInv
<1>5. pendingFunctors \in Seq(TaskType) /\ channel \in ChannelType
  BY DEF IInv, TaskInv, TypeOK
<1>6. CASE after = "return"
  <2>1. UNCHANGED <<channel, pendingFunctors, inMap, removals, server, after>>
    BY <1>1, <1>6 DEF CallbackReturns
  <2>2. Adds(<<>>) /\ <<>> \in Seq(TaskType) /\ DOMAIN <<>> = {}
    BY <1>5, <2>1, AddsNone
  <2>3. QED
    BY <1>1, <1>2, <1>3, <2>1, <2>2, QuietGoesOn
<1>7. CASE after = "remove"
  <2>1. channel' = RemoveChannel(channel) /\ UNCHANGED <<pendingFunctors, inMap, removals, server>>
    BY <1>7 DEF CallbackReturns, Removed
  <2>2. Adds(<<>>) /\ <<>> \in Seq(TaskType) /\ DOMAIN <<>> = {}
    BY <1>5, <2>1, AddsNone
  <2>3. FirstInv'
    BY <1>1, <2>2, TasksMove
  <2>4. ~(server = "up" /\ ~resurrected)
    BY <1>7 DEF LifeInv, EndInv
  <2>5. EndInv'
    BY <1>1, <2>1, <2>4 DEF EndInv
  <2>6. channel'.events = channel.events
    BY <1>5, <2>1, ChannelMoves
  <2>7. WatchedIffBuffered'
    BY <1>1, <2>6 DEF LifeInv, WatchedIffBuffered, IsWriting
  <2>8. QED
    BY <1>3, <1>4, <2>3, <2>5, <2>7 DEF LifeInv
<1>8. CASE after = "closeCallback"
  <2>1. channel' = channel /\ RemoveConnection
    BY <1>8 DEF CallbackReturns
  <2>2. WatchedIffBuffered'
    BY <1>1, <2>1 DEF LifeInv, WatchedIffBuffered
  <2>3. CASE server # "up"
    <3>1. server' = "misused" /\ UNCHANGED pendingFunctors
      BY <2>1, <2>3 DEF RemoveConnection
    <3>2. Adds(<<>>) /\ <<>> \in Seq(TaskType) /\ DOMAIN <<>> = {}
      BY <1>5, <3>1, AddsNone
    <3>3. FirstInv'
      BY <1>1, <3>2, TasksMove
    <3>4. QED
      BY <1>3, <1>4, <2>2, <3>1, <3>3 DEF LifeInv, EndInv
  <2>4. CASE server = "up"
    <3>1. PICK s \in Seq(TaskType) :
            /\ Adds(s) /\ \A j \in DOMAIN s : s[j] = Destroyed
            /\ removals' > 0 \/ \E j \in DOMAIN s : s[j] = Destroyed
      <4>1. CASE sameLoop
        <5>1. pendingFunctors' = pendingFunctors \o DestroyTask
          BY <2>1, <2>4, <4>1 DEF RemoveConnection
        <5>2. QED
          BY <5>1, AddsDestroyed
      <4>2. CASE ~sameLoop
        <5>1. removals' = removals + 1 /\ UNCHANGED pendingFunctors
          BY <2>1, <2>4, <4>2 DEF RemoveConnection
        <5>2. Adds(<<>>) /\ <<>> \in Seq(TaskType) /\ DOMAIN <<>> = {}
          BY <1>5, <5>1, AddsNone
        <5>3. removals' > 0
          BY <5>1 DEF IInv, TypeOK
        <5>4. QED
          BY <5>2, <5>3
      <4>3. QED
        BY <4>1, <4>2
    <3>2. FirstInv' /\ ((\E j \in DOMAIN s : s[j] = Destroyed) => Waiting')
      <4>1. \A j \in DOMAIN s : s[j] # Established
        BY <3>1, TaskNamesDiffer
      <4>2. QED
        BY <1>1, <3>1, <4>1, TasksMove
    <3>3. Ending'
      BY <3>1, <3>2 DEF Ending
    <3>4. server' = "up"
      BY <2>1, <2>4 DEF RemoveConnection
    <3>5. EndInv'
      <4>1. SUFFICES ASSUME ~resurrected PROVE EndInv'
        BY <1>1 DEF EndInv
      <4>2. /\ state = "kDisconnected" /\ notified = Heard
            /\ channel.index # "kAdded" /\ channel.events = {}
            /\ due \intersect {"close", "read"} = {}
        BY <1>8, <2>4, <4>1 DEF LifeInv, EndInv, Ending, IsOpen
      <4>3. Heard' = Heard
        BY <1>1 DEF Heard
      <4>4. QED
        BY <1>1, <2>1, <3>3, <4>2, <4>3 DEF EndInv, IsOpen
    <3>6. QED
      BY <1>3, <1>4, <2>2, <3>2, <3>5 DEF LifeInv
  <2>5. QED
    BY <2>3, <2>4
<1>9. QED
  BY <1>6, <1>7, <1>8 DEF IInv, TypeOK

\* A setState() that comes late makes `resurrected' true; one that does not is harmless.
LEMMA SetsKeep ==
  ASSUME IInv, LifeInv, IInv', NEW u \in Users, UserSets(u)
  PROVE  LifeInv'
<1>1. /\ call[u].step = "set" /\ state' = "kDisconnecting"
      /\ resurrected' = (resurrected \/ state = "kDisconnected")
      /\ call' = [call EXCEPT ![u].step = "queue"]
      /\ UNCHANGED <<channel, outputBuffer, pendingFunctors, functors, phase, due, after,
                     inMap, removals, server, notified>>
  BY DEF UserSets, loopVars, serverVars
<1>2. state # "kConnecting"
  BY <1>1 DEF LifeInv, ConnectingInv, NoCall
<1>3. CallInv'
  <2>1. /\ call \in [Users -> CallType]
        /\ call[u].task \notin {Established, Destroyed}
    BY <1>1 DEF IInv, TaskInv, LifeInv, CallInv
  <2>2. ASSUME NEW v \in Users, call'[v].step # "none"
        PROVE  call'[v].task \notin {Established, Destroyed}
    <3>1. call'[v].task = call[v].task /\ (v # u => call'[v].step = call[v].step)
      BY <1>1, <2>1 DEF CallType
    <3>2. QED
      BY <2>1, <2>2, <3>1 DEF LifeInv, CallInv
  <2>3. QED
    BY <2>2 DEF CallInv, Established, Destroyed
<1>4. TurnInv'
  BY <1>1 DEF LifeInv, TurnInv, InCallback
<1>5. Adds(<<>>) /\ <<>> \in Seq(TaskType) /\ DOMAIN <<>> = {}
  BY <1>1, AddsNone DEF IInv, TaskInv
<1>6. CASE resurrected'
  <2>1. FirstInv'
    BY <1>1, <1>2, <1>5, TasksMove
  <2>2. ConnectingInv' /\ WatchedIffBuffered' /\ EndInv'
    BY <1>1, <1>6 DEF ConnectingInv, WatchedIffBuffered, EndInv
  <2>3. QED
    BY <1>3, <1>4, <2>1, <2>2 DEF LifeInv
<1>7. CASE ~resurrected'
  <2>1. ~resurrected /\ UNCHANGED resurrected /\ state # "kDisconnected"
    BY <1>1, <1>7, Zenon DEF IInv, TypeOK
  <2>2. IsOpen
    BY <1>2, <2>1 DEF IsOpen, IInv, TypeOK
  <2>3. QED
    BY <1>1, <1>2, <1>3, <1>4, <1>5, <2>1, <2>2, QuietGoesOn
<1>8. QED
  BY <1>6, <1>7

\* The TcpServer takes the connection out of its map, or goes away.
LEMMA ServerStepsKeep ==
  ASSUME IInv, LifeInv, RemoveConnectionInLoop \/ ServerDestroyed
  PROVE  LifeInv'
<1>1. UNCHANGED <<state, channel, outputBuffer, functors, phase, due, after, call, holds,
                  notified, resurrected>>
  BY DEF RemoveConnectionInLoop, ServerDestroyed, connVars, userVars
<1>2. CallInv' /\ TurnInv' /\ WatchedIffBuffered'
  BY <1>1 DEF LifeInv, CallInv, TurnInv, WatchedIffBuffered, Established, Destroyed, InCallback
<1>3. PICK s \in Seq(TaskType) :
        /\ Adds(s) /\ \A j \in DOMAIN s : s[j] = Destroyed
        /\ RemoveConnectionInLoop /\ server = "up" => \E j \in DOMAIN s : s[j] = Destroyed
  <2>1. CASE pendingFunctors' = pendingFunctors \o DestroyTask
    BY <2>1, AddsDestroyed
  <2>2. CASE UNCHANGED pendingFunctors /\ ~(RemoveConnectionInLoop /\ server = "up")
    <3>1. Adds(<<>>) /\ <<>> \in Seq(TaskType) /\ DOMAIN <<>> = {}
      BY <2>2, AddsNone DEF IInv, TaskInv
    <3>2. QED
      BY <2>2, <3>1
  <2>3. QED
    BY <2>1, <2>2 DEF RemoveConnectionInLoop, ServerDestroyed
<1>4. /\ FirstInv'
      /\ (\E j \in DOMAIN s : s[j] = Destroyed) => Waiting'
      /\ \A i \in DOMAIN functors' : \E k \in DOMAIN functors : functors'[i] = functors[k]
      /\ \A i \in DOMAIN pendingFunctors' :
            \/ \E k \in DOMAIN pendingFunctors : pendingFunctors'[i] = pendingFunctors[k]
            \/ \E j \in DOMAIN s : pendingFunctors'[i] = s[j]
  <2>1. \A j \in DOMAIN s : s[j] # Established
    BY <1>3, TaskNamesDiffer
  <2>2. QED
    BY <1>1, <1>3, <2>1, TasksMove
<1>5. ConnectingInv'
  <2>1. SUFFICES ASSUME state = "kConnecting" PROVE ConnectingInv'
    BY <1>1 DEF ConnectingInv
  <2>2. removals' = 0
    BY <2>1 DEF LifeInv, ConnectingInv, RemoveConnectionInLoop, ServerDestroyed
  <2>3. /\ \A i \in DOMAIN functors' : functors'[i] \in {Established, Destroyed}
        /\ \A i \in DOMAIN pendingFunctors' : pendingFunctors'[i] \in {Established, Destroyed}
    BY <1>3, <1>4, <2>1 DEF LifeInv, ConnectingInv
  <2>4. QED
    BY <1>1, <2>1, <2>2, <2>3 DEF LifeInv, ConnectingInv, InCallback, Established, Destroyed,
       NoCall, NewChannel
<1>6. EndInv'
  <2>1. CASE server' # "up"
    BY <2>1 DEF EndInv
  <2>2. CASE server' = "up"
    <3>1. RemoveConnectionInLoop /\ server = "up"
      BY <2>2 DEF RemoveConnectionInLoop, ServerDestroyed
    <3>2. Ending'
      BY <1>3, <1>4, <3>1 DEF Ending
    <3>3. SUFFICES ASSUME ~resurrected PROVE EndInv'
      BY <1>1 DEF EndInv
    <3>4. /\ state = "kDisconnected" /\ notified = Heard
          /\ channel.index # "kAdded" /\ channel.events = {}
          /\ due \intersect {"close", "read"} = {} /\ after # "remove"
      <4>1. Ending
        BY <3>1 DEF Ending, RemoveConnectionInLoop
      <4>2. QED
        BY <3>1, <3>3, <4>1 DEF LifeInv, EndInv, IsOpen
    <3>5. Heard' = Heard
      BY <1>1 DEF Heard
    <3>6. QED
      BY <1>1, <3>2, <3>4, <3>5 DEF EndInv, IsOpen
  <2>3. QED
    BY <2>1, <2>2
<1>7. QED
  BY <1>2, <1>4, <1>5, <1>6 DEF LifeInv
-----------------------------------------------------------------------------
(* The second invariant, and what follows from it.                         *)

LEMMA LifeInit == Init => LifeInv
<1> SUFFICES ASSUME Init PROVE LifeInv
  OBVIOUS
<1>1. /\ DOMAIN functors = {} /\ DOMAIN pendingFunctors = {1}
      /\ pendingFunctors[1] = Established
  BY DEF Init, Established
<1>2. Established # Destroyed
  BY TaskNamesDiffer
<1>3. FirstInv /\ CallInv /\ TurnInv
  BY <1>1 DEF Init, FirstInv, CallInv, TurnInv, NoCall
<1>4. ConnectingInv
  BY <1>1 DEF Init, ConnectingInv, InCallback
<1>5. WatchedIffBuffered
  BY DEF Init, WatchedIffBuffered
<1>6. EndInv
  <2>1. ~Ending
    BY <1>1, <1>2 DEF Init, Ending, Waiting, InBatch, Pending
  <2>2. QED
    BY <2>1 DEF Init, EndInv, IsOpen, Heard
<1>7. QED
  BY <1>3, <1>4, <1>5, <1>6 DEF LifeInv

LEMMA LifeStepKeeps == IInv /\ LifeInv /\ [Next]_vars => LifeInv'
<1> SUFFICES ASSUME IInv, LifeInv, [Next]_vars PROVE LifeInv'
  OBVIOUS
<1>1. IInv'
  BY StepKeeps
<1>2. CASE UNCHANGED vars \/ PeerNext \/ \E room \in BOOLEAN : Poll(room)
  BY <1>1, <1>2, LooksKeep
<1>3. CASE HandlerNext
  BY <1>1, <1>3, LooksKeep, WriteKeeps, CloseStepsKeep DEF HandlerNext
<1>4. CASE TaskNext
  BY <1>1, <1>4, EstablishedKeeps, DestroyedKeeps, TasksGoOn, CloseStepsKeep DEF TaskNext
<1>5. CASE SwapPending \/ BatchDone \/ CallbackReturns
  BY <1>1, <1>5, SwapKeeps, LooksKeep, ReturnKeeps
<1>6. CASE CallbackNext
  BY <1>1, <1>6, CallbacksGoOn
<1>7. ASSUME NEW u \in Users, UserNext(u) PROVE LifeInv'
  BY <1>1, <1>7, UsersGoOn, SetsKeep
<1>8. CASE RemoveConnectionInLoop \/ ServerDestroyed
  BY <1>8, ServerStepsKeep
<1>9. QED
  BY <1>2, <1>3, <1>4, <1>5, <1>6, <1>7, <1>8 DEF Next, LoopProgress

LEMMA LifeInvariant == SafetySpec => [](IInv /\ LifeInv)
<1>1. Init => IInv /\ LifeInv
  BY InitKeeps, LifeInit
<1>2. (IInv /\ LifeInv) /\ [Next]_vars => (IInv /\ LifeInv)'
  BY StepKeeps, LifeStepKeeps
<1>3. QED
  BY <1>1, <1>2, PTL DEF SafetySpec

\* An open connection has EPOLLOUT watched exactly while outputBuffer_ holds something:
\* no data is left behind, and epoll_wait does not spin.
THEOREM WatchedAsBuffered == SafetySpec => []WatchedIffBuffered
<1>1. LifeInv => WatchedIffBuffered
  BY DEF LifeInv
<1>2. QED
  BY <1>1, LifeInvariant, PTL

\* The connection callback hears "up" once, then "down" once, and both before the channel
\* is removed, in whatever way and however often the connection is closed.
THEOREM UpThenDownAlways == SafetySpec => []UpThenDown
<1>1. IInv /\ LifeInv => UpThenDown
  <2>1. SUFFICES ASSUME IInv, LifeInv, server = "up", ~resurrected
                 PROVE  /\ notified \in {<<>>, <<"UP">>, <<"UP", "DOWN">>}
                        /\ (state # "kConnecting" /\ channel.index = "kNew")
                              => notified = <<"UP", "DOWN">>
    BY DEF UpThenDown
  <2>2. notified = Heard /\ (IsOpen => channel.index = "kAdded")
    BY <2>1 DEF LifeInv, EndInv
  <2>3. state \in {"kConnecting", "kConnected", "kDisconnecting", "kDisconnected"}
    BY <2>1 DEF IInv, TypeOK
  <2>4. QED
    BY <2>2, <2>3 DEF Heard, IsOpen
<1>2. QED
  BY <1>1, LifeInvariant, PTL

\* The last TcpConnectionPtr goes only when the channel has left the poller: no event
\* can reach a channel that is no more.
THEOREM NoDanglingChannelEver == SafetySpec => []NoDanglingChannel
<1>1. IInv /\ LifeInv => NoDanglingChannel
  <2>1. SUFFICES ASSUME IInv, LifeInv, server = "up", ~resurrected, ~Alive
                 PROVE  channel.index = "kNew" /\ ~Registered(channel)
    BY DEF NoDanglingChannel, ChannelGone
  <2>2. /\ phase = "poll" /\ ~inMap /\ ~(removals > 0)
        /\ DOMAIN pendingFunctors = {}
    BY <2>1 DEF Alive
  <2>3. functors = <<>> /\ after = "return"
    BY <2>1, <2>2 DEF LifeInv, TurnInv, InCallback
  <2>4. ~Ending
    BY <2>2, <2>3 DEF Ending, Waiting, InBatch, Pending
  <2>5. channel.index = "kNew"
    BY <2>1, <2>2, <2>4 DEF LifeInv, EndInv
  <2>6. QED
    BY <2>1, <2>5 DEF IInv, EpollInSync, InSync
<1>2. QED
  BY <1>1, LifeInvariant, PTL

\* Only three steps can be the SHUT_WR.
LEMMA ShutDownBy ==
  ASSUME IInv, [Next]_vars, socket'.wrShut, ~socket.wrShut
  PROVE  RunShutdown \/ CallbackShutsDown \/ HandleWrite
<1>0. socket \in SocketType
  BY DEF IInv, TypeOK, SocketType
<1>1. ~(\/ UNCHANGED socket \/ socket' = [socket EXCEPT !.error = FALSE]
        \/ socket' = [socket EXCEPT !.input = TRUE] \/ socket' = [socket EXCEPT !.input = FALSE]
        \/ socket' = [socket EXCEPT !.peer = "fin"]
        \/ socket' = [socket EXCEPT !.peer = "rst", !.error = TRUE])
  BY <1>0 DEF SocketType
<1>2. ~(UNCHANGED vars \/ PeerNext \/ \E room \in BOOLEAN : Poll(room))
  BY <1>1 DEF vars, PeerNext, PeerSends, PeerCloses, PeerResets, Poll
<1>3. HandlerNext => HandleWrite
  BY <1>1 DEF HandlerNext, CloseEvent, HandleError, ReadMessage, ReadError, ReadEnd,
     HandleWriteFails, WriteError
<1>4. ASSUME NEW m PROVE ~SendInLoop(m)
  BY <1>1 DEF SendInLoop, WriteError
<1>5. TaskNext => RunShutdown
  BY <1>1, <1>4 DEF TaskNext, ConnectEstablished, RunSend, RunForceClose, RunNotice,
     ConnectDestroyed
<1>6. CallbackNext => CallbackShutsDown
  BY <1>1, <1>4 DEF CallbackNext, CallbackSends, CallbackForceCloses
<1>7. ~(SwapPending \/ BatchDone \/ CallbackReturns \/ RemoveConnectionInLoop \/ ServerDestroyed)
  BY <1>1 DEF SwapPending, BatchDone, CallbackReturns, RemoveConnectionInLoop, ServerDestroyed
<1>8. ASSUME NEW u \in Users PROVE ~UserNext(u)
  BY <1>1 DEF UserNext, UserSends, UserShutsDown, UserForceCloses, UserReads, UserSets,
     UserQueues, UserDrops
<1>9. QED
  BY <1>2, <1>3, <1>5, <1>6, <1>7, <1>8 DEF Next, LoopProgress

\* shutdown() sends what is buffered before it ends the output, whoever calls it when.
THEOREM ShutdownKeepsOutputAlways == SafetySpec => ShutdownKeepsOutput
<1>1. ASSUME IInv, LifeInv, [Next]_vars, socket'.wrShut, ~socket.wrShut,
             state # "kDisconnected", ~resurrected
      PROVE  outputBuffer' = <<>>
  <2>1. RunShutdown \/ CallbackShutsDown \/ HandleWrite
    BY <1>1, ShutDownBy
  <2>2. CASE RunShutdown \/ CallbackShutsDown
    <3>1. IsOpen
      <4>1. state # "kConnecting"
        BY <1>1, <2>2, RunsLater DEF RunShutdown, CallbackShutsDown
      <4>2. QED
        BY <1>1, <4>1 DEF IsOpen, IInv, TypeOK
    <3>2. ~IsWriting(channel)
      BY <1>1, <2>2 DEF RunShutdown, CallbackShutsDown, ShutdownInLoop, MayShutDown
    <3>3. outputBuffer = <<>>
      BY <1>1, <3>1, <3>2 DEF LifeInv, WatchedIffBuffered, IsOpen
    <3>4. QED
      BY <2>2, <3>3 DEF RunShutdown, CallbackShutsDown, connVars
  <2>3. CASE HandleWrite
    <3>1. PICK n \in 1..Len(outputBuffer) :
            /\ outputBuffer' = SubSeq(outputBuffer, n + 1, Len(outputBuffer))
            /\ n < Len(outputBuffer) => UNCHANGED socket
      BY <2>3 DEF HandleWrite
    <3>2. outputBuffer \in Seq(Unit) /\ Len(outputBuffer) \in Nat
      BY <1>1, LenProperties DEF IInv, TypeOK, Unit
    <3>3. n = Len(outputBuffer)
      BY <1>1, <3>1, <3>2
    <3>4. QED
      BY <3>1, <3>2, <3>3, SubSeqEmpty
  <2>4. QED
    BY <2>1, <2>2, <2>3
<1>2. IInv /\ LifeInv /\ [Next]_vars =>
         [(socket'.wrShut /\ ~socket.wrShut /\ state # "kDisconnected" /\ ~resurrected)
             => outputBuffer' = <<>>]_vars
  BY <1>1
<1>3. QED
  BY <1>2, LifeInvariant, PTL DEF SafetySpec, ShutdownKeepsOutput
=============================================================================
