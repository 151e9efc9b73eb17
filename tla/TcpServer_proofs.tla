--------------------------- MODULE TcpServer_proofs ---------------------------
(***************************************************************************)
(* For any number of pool threads, callers of start(), clients and         *)
(* descriptors: a TcpServer keeps its spare descriptor, never uses more    *)
(* descriptors than there are, and tells every connection up, then down,   *)
(* and closes it only then, whatever the order in which the tasks of its   *)
(* two loops, the acceptor and the end of the server fall.                 *)
(***************************************************************************)
EXTENDS TcpServer, SequenceTheorems, FiniteSetTheorems, TLAPS

USE MaxThreadsType, BaseThreadType, BoundsType

-----------------------------------------------------------------------------
(* The inductive invariant: types and control.                             *)

TaskType == [what : {"listen", "established", "remove", "destroyed"},
             conn : 0..MaxClients]

StateType == {"none", "kConnecting", "kConnected", "kDisconnected"}

\* The types of the variables, by the part of the server they belong to.
StartTypes ==
    /\ numThreads \in 0..MaxThreads /\ started \in Nat
    /\ starting \in [Starters -> {"no", "pool", "done"}]
    /\ loops \in 0..numThreads
    /\ next \in Nat /\ (next = 0 \/ next < loops)

AcceptTypes ==
    /\ listening \in BOOLEAN /\ stolen \in BOOLEAN
    /\ idleFd \in {"null", "client", "none"}
    /\ acc \in {"idle", "handled", "close", "accept", "closeAway", "open"}
    /\ backlog \in Nat /\ arrived \in 0..MaxClients /\ others \in Nat

ConnTypes ==
    /\ nextConnId \in 1..(MaxClients + 1)
    /\ connections \subseteq 1..(nextConnId - 1)
    /\ state \in [Conns -> StateType]
    /\ told \in [Conns -> {"none", "up", "down"}]
    /\ loopOf \in [Conns -> Loops]
    /\ server \in {"alive", "visiting", "joining", "gone"}
    /\ unvisited \subseteq connections

\* Batches are run from left to right.
LoopTypes ==
    /\ queue \in [Loops -> Seq(TaskType)] /\ batch \in [Loops -> Seq(TaskType)]
    /\ done \in [Loops -> Nat] /\ \A l \in Loops : done[l] <= Len(batch[l])
    /\ loc \in [Loops -> {"before", "events", "tasks", "stopped"}]
    /\ quit \in [Loops -> BOOLEAN]

TypeInv == StartTypes /\ AcceptTypes /\ ConnTypes /\ LoopTypes

\* The first start() makes started_ more than zero, and it alone starts the pool.
StartInv ==
    /\ started = 0 => \A t \in Starters : starting[t] = "no"
    /\ \A t, u \in Starters : starting[t] = "pool" /\ starting[u] = "pool" => t = u

\* A loop has a batch only while it runs it; the pool has no threads beyond
\* loops, and they are told to quit only by ~EventLoopThreadPool.
LoopInv ==
    /\ \A l \in Loops : loc[l] # "tasks" => batch[l] = <<>>
    /\ \A l \in Loops : l > loops => loc[l] = "before"
    /\ \A l \in IoLoops : quit[l] => server \in {"joining", "gone"}

\* The server is destroyed only when its loop has returned.
ServerInv ==
    /\ server # "alive" => loc[Base] = "stopped"
    /\ server = "alive" => unvisited = {}
    /\ server \in {"joining", "gone"} => connections = {}

-----------------------------------------------------------------------------
(* The acceptor.                                                           *)

\* Clients are accepted in the order of their numbers.
ClientInv == backlog + (nextConnId - 1) <= arrived

\* Where the spare descriptor is on the way through handleRead(): there is a
\* place for it to be opened in again, unless others have taken one.
SpareInv ==
    /\ Accepting => loc[Base] = "events"
    /\ acc = "accept" => idleFd = "none" /\ (stolen \/ FdFree)
    /\ acc = "closeAway" => stolen \/ idleFd = "client" \/ FdFree
    /\ acc = "open" => idleFd = "none" /\ (stolen \/ FdFree)
    /\ (acc \in {"idle", "handled", "close"} /\ server # "gone" /\ ~stolen)
         => idleFd = "null"

FdInv == Used <= MaxFds

-----------------------------------------------------------------------------
(* Connections and their tasks.                                            *)

Made == 1..(nextConnId - 1)

ToldIn(s) == IF s = "kConnected" THEN "up"
             ELSE IF s = "kDisconnected" THEN "down" ELSE "none"

\* A connection's state tells what its callback was told, and whether there was
\* a connection at all.
ConnInv == \A c \in Conns : /\ told[c] = ToldIn(state[c])
                            /\ state[c] = "none" <=> c \notin Made

\* A connection is established and destroyed in its own loop, and removed in the
\* server's, by then disconnected.
Placed(task, l) ==
    /\ task.what = "listen" => task.conn = NoConn
    /\ task.what # "listen" => task.conn \in Made
    /\ task.what \in {"established", "destroyed"} => loopOf[task.conn] = l
    /\ task.what = "remove" => state[task.conn] = "kDisconnected"

TaskInv == \A l \in Loops :
    /\ \A i \in DOMAIN queue[l] : Placed(queue[l][i], l)
    /\ \A i \in DOMAIN batch[l] : Placed(batch[l][i], l)

\* connectEstablished is the first task of its connection in the loop.
FirstIn(s) == \A i, j \in DOMAIN s :
    i < j /\ s[j].what = "established" => s[i].conn # s[j].conn

OrderInv == \A l \in Loops :
    /\ FirstIn(queue[l]) /\ FirstIn(batch[l])
    /\ \A i \in DOMAIN batch[l], j \in DOMAIN queue[l] :
          queue[l][j].what = "established" => batch[l][i].conn # queue[l][j].conn

\* The task is queued, or in the batch and has not been run.
Pending(l, what, c) ==
    \/ \E i \in DOMAIN queue[l] : queue[l][i] = Task(what, c)
    \/ \E i \in DOMAIN batch[l] : i > done[l] /\ batch[l][i] = Task(what, c)

\* A connection is connecting as long as its connectEstablished waits, which its
\* loop will run unless it stops.
PendingInv == \A c \in Conns :
    /\ \A l \in Loops : Pending(l, "established", c) => state[c] = "kConnecting"
    /\ state[c] = "kConnecting" => \/ Pending(loopOf[c], "established", c)
                                   \/ loc[loopOf[c]] = "stopped"

\* The map answers for the connection: while ~TcpServer visits the map, only as
\* long as it was not this one's turn.
Held == IF server = "visiting" THEN unvisited ELSE connections

\* Nobody has to destroy it, or will.
Settled(c) == \/ state[c] = "kDisconnected"
              \/ loc[loopOf[c]] = "stopped"
              \/ Pending(loopOf[c], "destroyed", c)

\* No connection is given up while it may still be connected; as long as the
\* server lives, only a disconnected one leaves the map.
HeldInv == \A c \in Made :
    /\ c \in Held \/ Settled(c)
    /\ server = "alive" => c \in connections \/ state[c] = "kDisconnected"

ControlInv == TypeInv /\ StartInv /\ LoopInv /\ ServerInv /\ ClientInv
ConnsInv   == ConnInv /\ TaskInv /\ OrderInv /\ PendingInv /\ HeldInv

IInv == ControlInv /\ ConnsInv /\ SpareInv /\ FdInv

-----------------------------------------------------------------------------
(* Queues.                                                                 *)

LEMMA TaskIsTask ==
  ASSUME NEW what \in {"listen", "established", "remove", "destroyed"},
         NEW c \in 0..MaxClients
  PROVE  Task(what, c) \in TaskType /\ Task(what, c).what = what /\ Task(what, c).conn = c
BY DEF Task, TaskType

\* One task is added to the end of one queue.
Queued(l, t) == queue' = [queue EXCEPT ![l] = Append(@, t)]

LEMMA QueueAfter ==
  ASSUME LoopTypes, NEW l \in Loops, NEW t \in TaskType, Queued(l, t)
  PROVE  /\ queue' \in [Loops -> Seq(TaskType)]
         /\ \A k \in Loops : \A i \in DOMAIN queue[k] :
               i \in DOMAIN queue'[k] /\ queue'[k][i] = queue[k][i]
         /\ \A k \in Loops : \A i \in DOMAIN queue'[k] :
               \/ i \in DOMAIN queue[k] /\ queue'[k][i] = queue[k][i]
               \/ /\ k = l /\ i = Len(queue[k]) + 1 /\ queue'[k][i] = t
         /\ \E i \in DOMAIN queue'[l] : queue'[l][i] = t
<1>1. /\ queue[l] \in Seq(TaskType)
      /\ queue'[l] = Append(queue[l], t)
      /\ \A k \in Loops : k # l => queue'[k] = queue[k]
  BY DEF LoopTypes, Queued
<1>2. /\ queue'[l] \in Seq(TaskType) /\ Len(queue'[l]) = Len(queue[l]) + 1
      /\ \A i \in 1..Len(queue[l]) : queue'[l][i] = queue[l][i]
      /\ queue'[l][Len(queue[l]) + 1] = t
  BY <1>1, AppendProperties
<1>3. Len(queue[l]) \in Nat /\ DOMAIN queue[l] = 1..Len(queue[l])
      /\ DOMAIN queue'[l] = 1..(Len(queue[l]) + 1)
  BY <1>1, <1>2, LenProperties
<1>4. queue' \in [Loops -> Seq(TaskType)]
  BY <1>1, <1>2 DEF LoopTypes, Queued
<1>5. ASSUME NEW k \in Loops, NEW i \in DOMAIN queue[k]
      PROVE  i \in DOMAIN queue'[k] /\ queue'[k][i] = queue[k][i]
  <2>1. CASE k = l
    BY <1>2, <1>3, <2>1
  <2>2. CASE k # l
    BY <1>1, <2>2
  <2>3. QED
    BY <2>1, <2>2
<1>6. ASSUME NEW k \in Loops, NEW i \in DOMAIN queue'[k]
      PROVE  \/ i \in DOMAIN queue[k] /\ queue'[k][i] = queue[k][i]
             \/ k = l /\ i = Len(queue[k]) + 1 /\ queue'[k][i] = t
  <2>1. CASE k = l
    BY <1>2, <1>3, <2>1
  <2>2. CASE k # l
    BY <1>1, <2>2
  <2>3. QED
    BY <2>1, <2>2
<1>7. \E i \in DOMAIN queue'[l] : queue'[l][i] = t
  BY <1>2, <1>3
<1>8. QED
  BY <1>4, <1>5, <1>6, <1>7

-----------------------------------------------------------------------------
(* Descriptors.                                                            *)

Open == {c \in Conns : Exists(c)}

LEMMA OpenIsFinite == ASSUME NEW S \in SUBSET Conns
                      PROVE  IsFiniteSet(S) /\ Cardinality(S) \in Nat
<1>1. IsFiniteSet(Conns)
  BY FS_Interval DEF Conns
<1>2. QED
  BY <1>1, FS_Subset, FS_CardinalityType

LEMMA UsedIs ==
    /\ Used = Cardinality(Open) + others + (IF idleFd # "none" THEN 1 ELSE 0)
    /\ Used' = Cardinality(Open') + others' + (IF idleFd' # "none" THEN 1 ELSE 0)
    /\ Cardinality(Open) \in Nat /\ Cardinality(Open') \in Nat
<1>1. Open \in SUBSET Conns /\ Open' \in SUBSET Conns
  BY DEF Open, Conns
<1>2. QED
  BY <1>1, OpenIsFinite DEF Used, Open, Conns

\* A connection that goes gives its descriptor back.
LEMMA OpenShrinks ==
  ASSUME Open' \subseteq Open
  PROVE  Cardinality(Open') <= Cardinality(Open)
<1>1. IsFiniteSet(Open)
  BY OpenIsFinite DEF Open
<1>2. QED
  BY <1>1, FS_Subset

LEMMA OpenGrows ==
  ASSUME NEW c \in Conns, Open' \subseteq Open \union {c}
  PROVE  Cardinality(Open') <= Cardinality(Open) + 1
<1>1. IsFiniteSet(Open) /\ Cardinality(Open) \in Nat
  BY OpenIsFinite DEF Open
<1>2. /\ IsFiniteSet(Open \union {c})
      /\ Cardinality(Open \union {c}) <= Cardinality(Open) + 1
  BY <1>1, FS_AddElement
<1>3. Cardinality(Open') <= Cardinality(Open \union {c})
  BY <1>2, FS_Subset
<1>4. Cardinality(Open') \in Nat /\ Cardinality(Open \union {c}) \in Nat
  BY <1>2, OpenIsFinite, FS_CardinalityType DEF Open, Conns
<1>5. QED
  BY <1>1, <1>2, <1>3, <1>4

\* Where neither the acceptor nor the rest of the program is at work.
LEMMA DescriptorsFrame ==
  ASSUME IInv, Open' \subseteq Open, UNCHANGED <<idleFd, acc, stolen, others>>,
         server' = "gone" => server = "gone" \/ acc \in {"idle", "handled"},
         server' # "gone" => server # "gone",
         Accepting => loc'[Base] = "events"
  PROVE  SpareInv' /\ FdInv'
<1>1. Cardinality(Open') <= Cardinality(Open)
  BY OpenShrinks
<1>2. Used' <= Used /\ Used' \in Int /\ Used \in Int
  BY <1>1, UsedIs DEF IInv, ControlInv, TypeInv, AcceptTypes
<1>3. FdInv' /\ (FdFree => FdFree')
  BY <1>2 DEF IInv, FdInv, FdFree
<1>4. SpareInv'
  BY <1>3 DEF IInv, SpareInv, Accepting
<1>5. QED
  BY <1>3, <1>4

-----------------------------------------------------------------------------
(* The initial states.                                                     *)

LEMMA InitHolds == Init => IInv
<1> SUFFICES ASSUME Init PROVE IInv
  OBVIOUS
<1>1. TypeInv
  <2>1. StartTypes /\ AcceptTypes
    <3>1. listening \in BOOLEAN /\ stolen \in BOOLEAN
      BY Zenon DEF Init
    <3>2. StartTypes
      BY DEF Init, StartTypes
    <3>3. QED
      BY <3>1, <3>2 DEF Init, AcceptTypes
  <2>2. ConnTypes
    BY DEF Init, ConnTypes, StateType, Conns, Loops, Base
  <2>3. LoopTypes
    <3>1. <<>> \in Seq(TaskType) /\ Len(<<>>) = 0
      BY EmptySeq
    <3>2. QED
      BY <3>1 DEF Init, LoopTypes
  <2>4. QED
    BY <2>1, <2>2, <2>3 DEF TypeInv
<1>2. StartInv /\ LoopInv /\ ServerInv /\ ClientInv
  BY DEF Init, StartInv, LoopInv, ServerInv, ClientInv, IoLoops, Loops, Base
<1>3. ConnsInv
  <2>1. Made = {}
    BY DEF Init, Made
  <2>2. ConnInv
    BY <2>1 DEF Init, ConnInv, ToldIn
  <2>3. TaskInv /\ OrderInv
    BY DEF Init, TaskInv, OrderInv, FirstIn
  <2>4. PendingInv
    BY DEF Init, PendingInv, Pending
  <2>5. HeldInv
    BY <2>1 DEF HeldInv
  <2>6. QED
    BY <2>2, <2>3, <2>4, <2>5 DEF ConnsInv
<1>4. Open = {}
  BY DEF Init, Open, Exists, Refers
<1>5. FdInv
  BY <1>4, UsedIs, FS_EmptySet DEF Init, FdInv
<1>6. SpareInv
  BY DEF Init, SpareInv, Accepting
<1>7. QED
  BY <1>1, <1>2, <1>3, <1>5, <1>6 DEF IInv, ControlInv

-----------------------------------------------------------------------------
(* Steps that concern no connection.                                       *)

LEMMA ConnsFrame ==
  ASSUME IInv,
         UNCHANGED <<nextConnId, connections, state, told, loopOf, queue, batch, done>>,
         Held' = Held, server' = "alive" => server = "alive",
         \A l \in Loops : loc[l] = "stopped" => loc'[l] = "stopped"
  PROVE  ConnsInv' /\ Open' = Open
<1> USE DEF IInv, ConnsInv
<1>1. Made' = Made /\ \A c \in Made : c \in Conns /\ loopOf[c] \in Loops
  BY DEF Made, ControlInv, TypeInv, ConnTypes, Conns
<1>2. \A l, what, c : Pending(l, what, c)' = Pending(l, what, c)
  BY DEF Pending
<1>3. ConnInv'
  BY <1>1 DEF ConnInv
<1>4. TaskInv' /\ OrderInv'
  BY <1>1 DEF TaskInv, Placed, OrderInv, FirstIn
<1>5. PendingInv'
  <2>1. \A c \in Conns : loopOf[c] \in Loops
    BY DEF ControlInv, TypeInv, ConnTypes
  <2>2. QED
    BY <1>2, <2>1 DEF PendingInv
<1>6. HeldInv'
  BY <1>1, <1>2 DEF HeldInv, Settled
<1>7. Open' = Open
  BY DEF Open, Exists, Refers
<1>8. QED
  BY <1>3, <1>4, <1>5, <1>6, <1>7

AcceptorTurn == AcceptFails \/ CloseIdle \/ AcceptAway \/ CloseAway \/ OpenIdle

EnvStep == ClientConnects \/ ClientLeaves \/ OtherOpens \/ OtherCloses

\* The calls that turn a client away, and what others do meanwhile.
LEMMA AcceptorKeeps ==
  ASSUME IInv, AcceptorTurn \/ EnvStep
  PROVE  IInv'
<1> USE DEF IInv
<1>1. UNCHANGED <<startVars, listening, connVars, loopVars, serverVars>>
  BY DEF AcceptorTurn, EnvStep, AcceptFails, CloseIdle, AcceptAway, CloseAway, OpenIdle,
     AcceptorAt, ClientConnects, ClientLeaves, OtherOpens, OtherCloses, envUnchanged
<1>2. ConnsInv' /\ Open' = Open
  BY <1>1, ConnsFrame DEF connVars, loopVars, serverVars, Held
<1>3. AcceptTypes' /\ ClientInv'
  <2> USE DEF ControlInv, TypeInv, AcceptTypes, ConnTypes, ClientInv
  <2>1. nextConnId' = nextConnId /\ listening' = listening
    BY <1>1 DEF connVars
  <2>2. ASSUME AcceptFails \/ CloseIdle \/ CloseAway \/ OpenIdle
        PROVE  AcceptTypes' /\ ClientInv'
    <3>1. UNCHANGED <<backlog, arrived, others>>
      BY <2>2 DEF AcceptFails, CloseIdle, CloseAway, OpenIdle, AcceptorAt
    <3>2. idleFd' \in {"null", "client", "none"}
      BY <2>2 DEF AcceptFails, CloseIdle, CloseAway, OpenIdle, IdleClosed, AwayClosed
    <3>3. acc' \in {"close", "accept", "open", "handled"}
      BY <2>2 DEF AcceptFails, CloseIdle, CloseAway, OpenIdle, AcceptorAt
    <3>4. stolen' \in BOOLEAN
      BY <2>2, Zenon DEF AcceptFails, CloseIdle, CloseAway, OpenIdle
    <3>5. QED
      BY <2>1, <3>1, <3>2, <3>3, <3>4
  <2>3. CASE AcceptAway
    BY <2>1, <2>3 DEF AcceptAway, AcceptorAt
  <2>4. CASE EnvStep
    <3>1. stolen' \in BOOLEAN
      BY <2>4, Zenon DEF EnvStep, ClientConnects, ClientLeaves, OtherOpens, OtherCloses
    <3>2. QED
      BY <2>1, <2>4, <3>1 DEF EnvStep, ClientConnects, ClientLeaves, OtherOpens,
         OtherCloses, envUnchanged
  <2>5. QED
    BY <2>2, <2>3, <2>4 DEF AcceptorTurn
<1>4. ControlInv'
  BY <1>1, <1>3 DEF ControlInv, TypeInv, StartTypes, ConnTypes, LoopTypes, StartInv,
     LoopInv, ServerInv, startVars, connVars, loopVars, serverVars
<1>5. SpareInv' /\ FdInv'
  <2> USE DEF ControlInv, TypeInv, AcceptTypes, SpareInv, FdInv, FdFree
  <2>1. Cardinality(Open') = Cardinality(Open)
    BY <1>2
  <2>2. loc' = loc /\ server' = server
    BY <1>1 DEF loopVars, serverVars
  <2>3. CASE AcceptFails
    BY <2>1, <2>2, <2>3, UsedIs DEF AcceptFails, AcceptorAt, ReadEvent, Accepting
  <2>4. CASE CloseIdle
    BY <2>1, <2>2, <2>4, UsedIs DEF CloseIdle, AcceptorAt, IdleClosed, Accepting,
       ServerInv
  <2>5. CASE AcceptAway
    BY <2>1, <2>2, <2>5, UsedIs DEF AcceptAway, AcceptorAt, Accepting
  <2>6. CASE CloseAway
    BY <2>1, <2>2, <2>6, UsedIs DEF CloseAway, AcceptorAt, AwayClosed, Accepting
  <2>7. CASE OpenIdle
    BY <2>1, <2>2, <2>7, UsedIs DEF OpenIdle, AcceptorAt, Accepting
  <2>8. CASE ClientConnects \/ ClientLeaves \/ OtherCloses
    <3>1. Used' <= Used
      BY <2>1, <2>8, UsedIs DEF ClientConnects, ClientLeaves, OtherCloses, envUnchanged
    <3>2. UNCHANGED <<idleFd, acc, stolen>>
      BY <2>8 DEF ClientConnects, ClientLeaves, OtherCloses, envUnchanged
    <3>3. Used \in Int /\ Used' \in Int
      BY <1>3, UsedIs
    <3>4. QED
      BY <2>2, <3>1, <3>2, <3>3 DEF Accepting
  <2>9. CASE OtherOpens
    <3>1. /\ others' = others + 1 /\ Used < MaxFds /\ UNCHANGED <<idleFd, acc>>
          /\ stolen' = (stolen \/ Accepting)
      BY <2>9 DEF OtherOpens, envUnchanged
    <3>2. FdInv'
      BY <2>1, <3>1, UsedIs
    <3>3. Accepting \/ stolen => stolen'
      BY <3>1, Zenon
    <3>4. Accepting' = Accepting
      BY <3>1 DEF Accepting
    <3>5. SpareInv'
      BY <2>2, <3>1, <3>3, <3>4 DEF Accepting
    <3>6. QED
      BY <3>2, <3>5
  <2>10. QED
    BY <2>3, <2>4, <2>5, <2>6, <2>7, <2>8, <2>9 DEF AcceptorTurn, EnvStep
<1>6. QED
  BY <1>2, <1>4, <1>5

\* start() and its pool, the loop's begin, quit() and the end's other steps.
LEMMA ControlKeeps ==
  ASSUME IInv,
         \/ \E t \in Starters : Start(t) \/ StartThread(t)
         \/ \E l \in Loops : EnterLoop(l)
         \/ QuitBase \/ DestructorBegins
         \/ \E l \in IoLoops : QuitLoop(l)
         \/ AcceptorDestroyed
  PROVE  IInv'
<1> DEFINE Moves == /\ UNCHANGED <<nextConnId, connections, state, told, loopOf, queue,
                                    batch, done, next>>
                    /\ Held' = Held
                    /\ server' = "alive" => server = "alive"
                    /\ \A l \in Loops : loc[l] = "stopped" => loc'[l] = "stopped"
           Still == UNCHANGED <<acceptVars, server, unvisited>>
<1>1. ASSUME Moves PROVE ConnsInv' /\ Open' = Open
  <2>1. /\ UNCHANGED <<nextConnId, connections, state, told, loopOf, queue, batch, done>>
        /\ Held' = Held
        /\ server' = "alive" => server = "alive"
        /\ \A l \in Loops : loc[l] = "stopped" => loc'[l] = "stopped"
    BY <1>1
  <2> HIDE DEF Moves
  <2>2. QED
    BY <2>1, ConnsFrame
<1> USE DEF IInv, ControlInv, TypeInv
<1>2. ASSUME Moves, Still, Accepting => loc'[Base] = "events"
      PROVE  ConnsInv' /\ SpareInv' /\ FdInv' /\ AcceptTypes' /\ ConnTypes' /\ ClientInv'
  <2>1. ConnsInv' /\ Open' = Open
    BY <1>1, <1>2
  <2>2. AcceptTypes' /\ ConnTypes' /\ ClientInv'
    BY <1>2 DEF acceptVars, AcceptTypes, ConnTypes, ClientInv
  <2>3. SpareInv' /\ FdInv'
    BY <1>2, <2>1, DescriptorsFrame DEF acceptVars
  <2>4. QED
    BY <2>1, <2>2, <2>3
<1> HIDE DEF Moves, Still
<1>3. ASSUME NEW t \in Starters, Start(t) PROVE IInv'
  <2>1. Moves /\ Still /\ UNCHANGED <<loops, loc, quit, numThreads>>
    BY <1>3 DEF Start, Moves, Still, connVars, loopVars, serverVars, Held
  <2>2. Accepting => loc'[Base] = "events"
    BY <2>1 DEF SpareInv
  <2>3. started' = started + 1 /\ starting[t] = "no"
        /\ starting' = [starting EXCEPT ![t] = IF started = 0 THEN "pool" ELSE "done"]
    BY <1>3 DEF Start, FirstToStart
  <2>4. StartTypes' /\ StartInv'
    BY <2>1, <2>3 DEF StartTypes, StartInv, Moves
  <2>5. LoopTypes' /\ LoopInv' /\ ServerInv'
    BY <2>1 DEF LoopTypes, LoopInv, ServerInv, Moves, Still
  <2>6. QED
    BY <1>2, <2>1, <2>2, <2>4, <2>5
<1>4. ASSUME NEW t \in Starters, StartThread(t) PROVE IInv'
  <2>1. /\ loops' = loops + 1 /\ loops < numThreads
        /\ UNCHANGED <<numThreads, started, starting, acceptVars, connVars, loopVars,
                       serverVars>>
    BY <1>4 DEF StartThread
  <2>2. Moves /\ Still /\ UNCHANGED <<loc, quit>>
    BY <2>1 DEF Moves, Still, connVars, loopVars, serverVars, Held
  <2>3. Accepting => loc'[Base] = "events"
    BY <2>2 DEF SpareInv
  <2>4. StartTypes' /\ StartInv'
    BY <2>1 DEF StartTypes, StartInv, connVars
  <2>5. LoopTypes' /\ ServerInv'
    BY <2>2 DEF LoopTypes, ServerInv, Moves, Still
  <2>6. LoopInv'
    <3>1. \A l \in Loops : l > loops + 1 => l > loops
      BY DEF Loops, StartTypes
    <3>2. QED
      BY <2>1, <2>2, <3>1 DEF LoopInv, Moves, Still
  <2>7. QED
    BY <1>2, <2>2, <2>3, <2>4, <2>5, <2>6
<1>5. ASSUME NEW l \in Loops, EnterLoop(l) PROVE IInv'
  <2>1. /\ loc[l] = "before" /\ (l = Base \/ l <= loops)
        /\ loc' = [loc EXCEPT ![l] = "tasks"] /\ quit' = [quit EXCEPT ![l] = FALSE]
        /\ UNCHANGED <<startVars, acceptVars, connVars, queue, batch, done, serverVars>>
    BY <1>5 DEF EnterLoop
  <2>2. /\ loc' \in [Loops -> {"before", "events", "tasks", "stopped"}]
        /\ quit' \in [Loops -> BOOLEAN]
        /\ \A k \in Loops : k # l => loc'[k] = loc[k] /\ quit'[k] = quit[k]
        /\ loc'[l] = "tasks" /\ quit'[l] = FALSE
    BY <2>1 DEF LoopTypes
  <2>3. Moves /\ Still
    BY <2>1, <2>2 DEF Moves, Still, connVars, serverVars, Held
  <2>4. Accepting => loc'[Base] = "events"
    BY <2>1, <2>2 DEF SpareInv, Base, Loops
  <2>5. StartTypes' /\ StartInv'
    BY <2>1, <2>3 DEF startVars, StartTypes, StartInv, Moves
  <2>6. LoopTypes' /\ LoopInv' /\ ServerInv'
    <3>1. l \in Nat /\ ~(l > loops)
      BY <2>1 DEF Base, Loops, StartTypes
    <3>2. \A k \in IoLoops : k \in Loops
      BY DEF Loops, IoLoops
    <3>3. LoopTypes'
      BY <2>1, <2>2 DEF LoopTypes
    <3>4. LoopInv'
      BY <2>1, <2>2, <3>1, <3>2 DEF LoopInv, startVars, serverVars
    <3>5. ServerInv'
      BY <2>1, <2>2 DEF ServerInv, connVars, serverVars, Base, Loops
    <3>6. QED
      BY <3>3, <3>4, <3>5
  <2>7. QED
    BY <1>2, <2>3, <2>4, <2>5, <2>6
<1>6. CASE QuitBase
  <2>1. Moves /\ Still /\ UNCHANGED <<startVars, loc>>
    BY <1>6 DEF QuitBase, Moves, Still, connVars, serverVars, Held
  <2>2. quit' = [quit EXCEPT ![Base] = TRUE] /\ Base \in Loops /\ Base \notin IoLoops
    BY <1>6 DEF QuitBase, Base, Loops, IoLoops
  <2>3. quit' \in [Loops -> BOOLEAN] /\ \A l \in IoLoops : quit'[l] = quit[l]
    <3>1. quit' \in [Loops -> BOOLEAN]
      BY <2>2 DEF LoopTypes
    <3>2. \A l \in IoLoops : l \in Loops /\ l # Base
      BY DEF Loops, IoLoops, Base
    <3>3. QED
      BY <2>2, <3>1, <3>2 DEF LoopTypes
  <2>4. StartTypes' /\ StartInv' /\ LoopTypes' /\ LoopInv' /\ ServerInv'
    BY <2>1, <2>3 DEF StartTypes, StartInv, LoopTypes, LoopInv, ServerInv, Moves,
       Still, startVars
  <2>5. QED
    BY <1>2, <2>1, <2>4 DEF SpareInv
<1>7. CASE DestructorBegins
  <2>1. Moves /\ UNCHANGED <<startVars, acceptVars, loc, quit>>
        /\ server = "alive" /\ server' = "visiting" /\ loc[Base] = "stopped"
        /\ unvisited' = connections
    BY <1>7 DEF DestructorBegins, Moves, connVars, loopVars, Held
  <2>2. StartTypes' /\ StartInv' /\ LoopTypes' /\ LoopInv' /\ ServerInv'
    BY <2>1 DEF StartTypes, StartInv, LoopTypes, LoopInv, ServerInv, Moves, startVars
  <2>3. AcceptTypes' /\ ConnTypes' /\ ClientInv'
    BY <2>1 DEF AcceptTypes, ConnTypes, ClientInv, acceptVars, Moves
  <2>4. SpareInv' /\ FdInv'
    BY <1>1, <2>1, DescriptorsFrame DEF acceptVars, SpareInv
  <2>5. QED
    BY <1>1, <2>1, <2>2, <2>3, <2>4
<1>8. ASSUME NEW l \in IoLoops, QuitLoop(l) PROVE IInv'
  <2>1. Moves /\ Still /\ UNCHANGED <<startVars, loc>> /\ server = "joining"
    BY <1>8 DEF QuitLoop, Moves, Still, connVars, Held
  <2>2. quit' \in [Loops -> BOOLEAN]
    BY <1>8 DEF QuitLoop, LoopTypes
  <2>3. StartTypes' /\ StartInv' /\ LoopTypes' /\ LoopInv' /\ ServerInv'
    BY <2>1, <2>2 DEF StartTypes, StartInv, LoopTypes, LoopInv, ServerInv, Moves,
       Still, startVars
  <2>4. QED
    BY <1>2, <2>1, <2>3 DEF SpareInv
<1>9. CASE AcceptorDestroyed
  <2>1. Moves /\ UNCHANGED <<startVars, listening, acc, arrived, stolen, others, loc, quit,
                             unvisited>>
        /\ server = "joining" /\ server' = "gone" /\ idleFd' = "none" /\ backlog' = 0
    BY <1>9 DEF AcceptorDestroyed, Moves, connVars, loopVars, Held
  <2>2. StartTypes' /\ StartInv' /\ LoopTypes' /\ LoopInv' /\ ServerInv'
    BY <2>1 DEF StartTypes, StartInv, LoopTypes, LoopInv, ServerInv, Moves, startVars
  <2>3. AcceptTypes' /\ ConnTypes' /\ ClientInv'
    BY <2>1 DEF AcceptTypes, ConnTypes, ClientInv, Moves
  <2>4. ~Accepting /\ acc \in {"idle", "handled"}
    BY <2>1 DEF SpareInv, ServerInv, Accepting, AcceptTypes
  <2>5. SpareInv'
    BY <2>1, <2>4 DEF SpareInv, Accepting
  <2>6. FdInv'
    <3>1. Cardinality(Open') = Cardinality(Open)
      BY <1>1, <2>1
    <3>2. QED
      BY <2>1, <3>1, UsedIs DEF FdInv, AcceptTypes
  <2>7. QED
    BY <1>1, <2>1, <2>2, <2>3, <2>5, <2>6
<1>10. QED
  BY <1>3, <1>4, <1>5, <1>6, <1>7, <1>8, <1>9

-----------------------------------------------------------------------------
(* Steps that queue or run a task.                                         *)

\* What is queued goes to the end, belongs there, and establishes nothing.
Grows ==
    /\ queue' \in [Loops -> Seq(TaskType)]
    /\ \A k \in Loops : \A i \in DOMAIN queue[k] :
          i \in DOMAIN queue'[k] /\ queue'[k][i] = queue[k][i]
    /\ \A k \in Loops : \A i \in DOMAIN queue'[k] :
          \/ i \in DOMAIN queue[k] /\ queue'[k][i] = queue[k][i]
          \/ /\ \A j \in DOMAIN queue[k] : j < i
             /\ queue'[k][i].what # "established" /\ Placed(queue[k][i], k)'

\* No task is run but one that does nothing to a connection in its own loop, or
\* that finds or leaves it disconnected.
Skips ==
    /\ UNCHANGED batch
    /\ \A k \in Loops : \A i \in DOMAIN batch[k] :
          /\ i > done'[k] => i > done[k]
          /\ i > done[k] => \/ i > done'[k] \/ batch[k][i].what \in {"listen", "remove"}
                            \/ /\ batch[k][i].what = "destroyed"
                               /\ state'[batch[k][i].conn] = "kDisconnected"

\* Connections are disconnected at most.
StateMoves == \A c \in Conns :
    state'[c] = state[c] \/ (state[c] = "kConnected" /\ state'[c] = "kDisconnected")

LEMMA QueuedGrows ==
  ASSUME IInv, NEW l \in Loops, NEW t \in TaskType, Queued(l, t),
         t.what # "established", Placed(t, l)'
  PROVE  Grows
<1>1. LoopTypes
  BY DEF IInv, ControlInv, TypeInv
<1>2. \A k \in Loops : \A j \in DOMAIN queue[k] : j < Len(queue[k]) + 1
  BY <1>1, LenProperties DEF LoopTypes
<1>3. /\ queue' \in [Loops -> Seq(TaskType)]
      /\ \A k \in Loops : \A i \in DOMAIN queue[k] :
            i \in DOMAIN queue'[k] /\ queue'[k][i] = queue[k][i]
      /\ \A k \in Loops : \A i \in DOMAIN queue'[k] :
            \/ i \in DOMAIN queue[k] /\ queue'[k][i] = queue[k][i]
            \/ /\ k = l /\ i = Len(queue[k]) + 1 /\ queue'[k][i] = t
  BY <1>1, QueueAfter
<1>4. ASSUME NEW k \in Loops, NEW i \in DOMAIN queue'[k],
             k = l, i = Len(queue[k]) + 1, queue'[k][i] = t
      PROVE  /\ \A j \in DOMAIN queue[k] : j < i
             /\ queue'[k][i].what # "established" /\ Placed(queue[k][i], k)'
  BY <1>2, <1>4
<1>5. QED
  BY <1>3, <1>4, Zenon DEF Grows

LEMMA TasksKeep ==
  ASSUME IInv, Grows, Skips, StateMoves, UNCHANGED <<nextConnId, loopOf>>,
         \A l \in Loops : loc[l] = "stopped" => loc'[l] = "stopped"
  PROVE  /\ TaskInv' /\ OrderInv' /\ PendingInv'
         /\ \A c \in Made : Settled(c) => Settled(c)'
<1> USE DEF IInv, ConnsInv
<1>1. /\ Made' = Made
      /\ \A c \in Made : c \in Conns /\ loopOf[c] \in Loops
      /\ \A c \in Conns : loopOf[c] \in Loops
  BY DEF Made, ControlInv, TypeInv, ConnTypes, Conns
<1>2. \A task, k : Placed(task, k) => Placed(task, k)'
  BY <1>1 DEF Placed, StateMoves
<1>3. TaskInv'
  <2>1. ASSUME NEW l \in Loops, NEW i \in DOMAIN queue'[l]
        PROVE  Placed(queue[l][i], l)'
    BY <1>2, Zenon DEF TaskInv, Grows
  <2>2. ASSUME NEW l \in Loops, NEW i \in DOMAIN batch'[l]
        PROVE  Placed(batch[l][i], l)'
    BY <1>2, Zenon DEF TaskInv, Skips
  <2>3. QED
    BY <2>1, <2>2 DEF TaskInv
<1>4. OrderInv'
  <2> SUFFICES ASSUME NEW k \in Loops
               PROVE  /\ FirstIn(queue[k])' /\ FirstIn(batch[k])'
                      /\ (\A i \in DOMAIN batch[k], j \in DOMAIN queue[k] :
                            queue[k][j].what = "established" =>
                               batch[k][i].conn # queue[k][j].conn)'
    BY DEF OrderInv
  <2>1. FirstIn(batch[k])'
    BY DEF OrderInv, FirstIn, Skips
  <2>2. \A j \in DOMAIN queue'[k] : queue'[k][j].what = "established" =>
            j \in DOMAIN queue[k] /\ queue'[k][j] = queue[k][j]
    BY DEF Grows
  <2>3. FirstIn(queue[k])'
    <3>1. SUFFICES ASSUME NEW i \in DOMAIN queue'[k], NEW j \in DOMAIN queue'[k],
                          i < j, queue'[k][j].what = "established"
                   PROVE  queue'[k][i].conn # queue'[k][j].conn
      BY DEF FirstIn
    <3>2. j \in DOMAIN queue[k] /\ queue'[k][j] = queue[k][j] /\ DOMAIN queue[k] \subseteq Nat
      BY <2>2, <3>1 DEF ControlInv, TypeInv, LoopTypes
    <3>3. i \in DOMAIN queue[k] /\ queue'[k][i] = queue[k][i]
      <4>1. i \in Nat
        BY DEF Grows
      <4>2. ~(j < i)
        BY <3>1, <3>2, <4>1
      <4>3. QED
        BY <3>2, <4>2, Zenon DEF Grows
    <3>4. QED
      BY <3>1, <3>2, <3>3 DEF OrderInv, FirstIn
  <2>4. QED
    BY <2>1, <2>2, <2>3 DEF OrderInv, Skips
<1>5. /\ \A k \in Loops, c \in Conns : Pending(k, "established", c)' =>
             Pending(k, "established", c)
      /\ \A k \in Loops, c \in Conns, what \in {"established", "destroyed"} :
            Pending(k, what, c) =>
               \/ Pending(k, what, c)'
               \/ what = "destroyed" /\ state'[c] = "kDisconnected"
  <2>1. ASSUME NEW k \in Loops, NEW c \in Conns, Pending(k, "established", c)'
        PROVE  Pending(k, "established", c)
    <3>1. ASSUME NEW i \in DOMAIN queue'[k], queue'[k][i] = Task("established", c)
          PROVE  i \in DOMAIN queue[k] /\ queue[k][i] = Task("established", c)
      BY <3>1 DEF Grows, Task
    <3>2. ASSUME NEW i \in DOMAIN batch'[k], i > done'[k],
                 batch'[k][i] = Task("established", c)
          PROVE  i \in DOMAIN batch[k] /\ i > done[k] /\ batch[k][i] = Task("established", c)
      BY <3>2 DEF Skips
    <3>3. QED
      BY <2>1, <3>1, <3>2 DEF Pending
  <2>2. ASSUME NEW k \in Loops, NEW c \in Conns, NEW what \in {"established", "destroyed"},
               Pending(k, what, c)
        PROVE  \/ Pending(k, what, c)'
               \/ what = "destroyed" /\ state'[c] = "kDisconnected"
    <3>1. /\ Task(what, c).what = what /\ Task(what, c).conn = c
          /\ Task(what, c).what \notin {"listen", "remove"}
      BY DEF Task
    <3>2. ASSUME NEW i \in DOMAIN queue[k], queue[k][i] = Task(what, c)
          PROVE  i \in DOMAIN queue'[k] /\ queue'[k][i] = Task(what, c)
      BY <3>2 DEF Grows
    <3>3. ASSUME NEW i \in DOMAIN batch[k], i > done[k], batch[k][i] = Task(what, c)
          PROVE  /\ i \in DOMAIN batch'[k] /\ batch'[k][i] = Task(what, c)
                 /\ \/ i > done'[k]
                    \/ what = "destroyed" /\ state'[c] = "kDisconnected"
      BY <3>1, <3>3 DEF Skips
    <3>4. QED
      BY <2>2, <3>2, <3>3 DEF Pending
  <2>3. QED
    BY <2>1, <2>2
<1>6. PendingInv'
  BY <1>1, <1>5 DEF PendingInv, StateMoves
<1>7. \A c \in Made : Settled(c) => Settled(c)'
  BY <1>1, <1>5 DEF Settled, StateMoves
<1>8. QED
  BY <1>3, <1>4, <1>6, <1>7

\* Nothing is opened by queueing a task for a connection that there is.
LEMMA OpenKept ==
  ASSUME IInv, connections' \subseteq connections, UNCHANGED batch,
         \/ UNCHANGED queue
         \/ \E l \in Loops, t \in TaskType :
               Queued(l, t) /\ (t.conn \in Conns => Exists(t.conn))
  PROVE  Open' \subseteq Open
<1>1. LoopTypes
  BY DEF IInv, ControlInv, TypeInv
<1>2. CASE UNCHANGED queue
  BY <1>2 DEF Open, Exists, Refers
<1>3. ASSUME NEW l \in Loops, NEW t \in TaskType, Queued(l, t),
             t.conn \in Conns => Exists(t.conn)
      PROVE  Open' \subseteq Open
  <2>1. SUFFICES ASSUME NEW c \in Conns, Exists(c)' PROVE Exists(c)
    BY DEF Open
  <2>2. CASE c \in connections' \/ \E k \in Loops : Refers(batch[k], c)'
    BY <2>2 DEF Exists, Refers
  <2>3. ASSUME NEW k \in Loops, NEW i \in DOMAIN queue'[k], queue'[k][i].conn = c
        PROVE  Exists(c)
    <3>1. \/ i \in DOMAIN queue[k] /\ queue'[k][i] = queue[k][i]
          \/ queue'[k][i] = t
      BY <1>1, <1>3, QueueAfter
    <3>2. QED
      BY <1>3, <2>3, <3>1 DEF Exists, Refers
  <2>4. QED
    BY <2>1, <2>2, <2>3 DEF Exists, Refers
<1>4. QED
  BY <1>2, <1>3

LEMMA SameGrows ==
  ASSUME IInv, UNCHANGED queue
  PROVE  Grows
BY DEF IInv, ControlInv, TypeInv, LoopTypes, Grows

\* Such a step keeps what holds of the connections, if what leaves the map is
\* disconnected or provided for.
LEMMA ConnsKeep ==
  ASSUME IInv, Grows, Skips, StateMoves, UNCHANGED <<nextConnId, loopOf>>, ConnInv',
         \A l \in Loops : loc[l] = "stopped" => loc'[l] = "stopped",
         server' = "alive" => server = "alive",
         \A c \in Held : c \in Held' \/ Settled(c)',
         server' = "alive" =>
            \A c \in connections : c \in connections' \/ state'[c] = "kDisconnected"
  PROVE  ConnsInv'
<1>1. /\ TaskInv' /\ OrderInv' /\ PendingInv'
      /\ \A c \in Made : Settled(c) => Settled(c)'
  BY TasksKeep
<1>2. Made' = Made /\ \A c \in Made : c \in Conns
  BY DEF Made, IInv, ControlInv, TypeInv, ConnTypes, Conns
<1>3. HeldInv'
  <2>1. SUFFICES ASSUME NEW c \in Made
                 PROVE  /\ c \in Held' \/ Settled(c)'
                        /\ server' = "alive" =>
                              c \in connections' \/ state'[c] = "kDisconnected"
    BY <1>2 DEF HeldInv
  <2>2. /\ c \in Held \/ Settled(c)
        /\ server = "alive" => c \in connections \/ state[c] = "kDisconnected"
    BY DEF IInv, ConnsInv, HeldInv
  <2>3. c \in Held' \/ Settled(c)'
    BY <1>1, <2>2
  <2>4. state[c] = "kDisconnected" => state'[c] = "kDisconnected"
    BY <1>2 DEF StateMoves
  <2>5. QED
    BY <2>2, <2>3, <2>4
<1>4. QED
  BY <1>1, <1>3 DEF ConnsInv

\* The state and the callback move together, or not at all.
LEMMA ConnInvKept ==
  ASSUME IInv, UNCHANGED nextConnId,
         \/ UNCHANGED <<state, told>>
         \/ \E c \in Made : Told(c, "kDisconnected", "down")
  PROVE  /\ ConnInv' /\ state' \in [Conns -> StateType]
         /\ told' \in [Conns -> {"none", "up", "down"}]
<1> USE DEF IInv, ControlInv, TypeInv, ConnTypes, ConnsInv, ConnInv, ToldIn, Made, StateType
<1>1. CASE UNCHANGED <<state, told>>
  BY <1>1
<1>2. ASSUME NEW c \in Made, Told(c, "kDisconnected", "down")
      PROVE  /\ ConnInv' /\ state' \in [Conns -> StateType]
             /\ told' \in [Conns -> {"none", "up", "down"}]
  BY <1>2 DEF Told
<1>3. QED
  BY <1>1, <1>2

\* What is left to show when the control has not moved.
LEMMA ControlFrame ==
  ASSUME IInv, UNCHANGED <<numThreads, loops, next, idleFd, acc, backlog, arrived,
                           stolen, others, nextConnId, loopOf, loc, quit>>,
         listening' \in BOOLEAN, ConnsInv', Open' \subseteq Open, StartTypes', StartInv',
         queue' \in [Loops -> Seq(TaskType)], UNCHANGED batch,
         done' \in [Loops -> Nat], \A l \in Loops : done'[l] <= Len(batch[l]),
         state' \in [Conns -> StateType],
         told' \in [Conns -> {"none", "up", "down"}],
         unvisited' \subseteq connections', connections' \subseteq connections,
         unvisited' \subseteq unvisited,
         \/ server' = server
         \/ server = "visiting" /\ server' = "joining" /\ connections' = {}
  PROVE  IInv'
<1> USE DEF IInv, ControlInv, TypeInv
<1>1. AcceptTypes' /\ ClientInv'
  BY DEF AcceptTypes, ClientInv
<1>2. ConnTypes'
  BY DEF ConnTypes
<1>3. LoopTypes'
  BY DEF LoopTypes
<1>4. LoopInv' /\ ServerInv'
  BY DEF LoopInv, ServerInv, ConnTypes
<1>5. SpareInv' /\ FdInv'
  <2>1. /\ server' = "gone" => server = "gone"
        /\ server' # "gone" => server # "gone"
        /\ Accepting => loc'[Base] = "events"
    BY DEF SpareInv
  <2>2. QED
    BY <2>1, DescriptorsFrame
<1>6. QED
  BY <1>1, <1>2, <1>3, <1>4, <1>5

LEMMA ConnFacts ==
  ASSUME IInv
  PROVE  /\ \A c \in Conns : c \in Made <=> state[c] # "none"
         /\ Made \subseteq Conns /\ connections \subseteq Made /\ unvisited \subseteq connections
         /\ Conns \subseteq 0..MaxClients
         /\ \A c \in Conns : loopOf[c] \in Loops /\ loopOf[c] \in Nat
         /\ Base \in Loops /\ NoConn \notin Conns /\ NoConn \in 0..MaxClients
         /\ loc[Base] # "stopped" => server = "alive"
         /\ Held \subseteq connections
         /\ StartTypes /\ StartInv /\ LoopTypes
BY DEF IInv, ControlInv, TypeInv, ConnTypes, ConnsInv, ConnInv, Made, Conns, Loops, Base,
   NoConn, ServerInv, Held

\* A connection that somebody may still have to close exists.
LEMMA ConnectedExists ==
  ASSUME IInv, NEW c \in Conns, state[c] = "kConnected", loc[loopOf[c]] # "stopped"
  PROVE  Exists(c)
<1>1. c \in Held \/ Settled(c)
  BY ConnFacts DEF IInv, ConnsInv, HeldInv
<1>2. CASE c \in Held
  BY <1>2, ConnFacts DEF Exists
<1>3. CASE Settled(c)
  <2>1. Pending(loopOf[c], "destroyed", c)
    BY <1>3 DEF Settled
  <2>2. Task("destroyed", c).conn = c /\ loopOf[c] \in Loops
    BY ConnFacts DEF Task
  <2>3. QED
    BY <2>1, <2>2 DEF Pending, Exists, Refers
<1>4. QED
  BY <1>1, <1>2, <1>3

LEMMA StartListeningKeeps ==
  ASSUME IInv, NEW t \in Starters, StartListening(t)
  PROVE  IInv'
<1>1. /\ UNCHANGED <<numThreads, started, loops, idleFd, acc, backlog, arrived, stolen,
                     others, next, nextConnId, connections, state, told, loopOf, batch,
                     done, loc, quit, server, unvisited>>
      /\ starting' = [starting EXCEPT ![t] = "done"] /\ starting[t] = "pool"
      /\ UNCHANGED queue \/ Queued(Base, Task("listen", NoConn))
  BY DEF StartListening, connVars, serverVars, Queued
<1>2. /\ Task("listen", NoConn) \in TaskType
      /\ Task("listen", NoConn).what = "listen" /\ Task("listen", NoConn).conn = NoConn
  BY TaskIsTask, ConnFacts
<1>3. Placed(Task("listen", NoConn), Base)'
  BY <1>2 DEF Placed
<1>4. Grows
  BY <1>1, <1>2, <1>3, ConnFacts, SameGrows, QueuedGrows
<1>5. Skips /\ StateMoves /\ ConnInv'
  BY <1>1, ConnInvKept DEF Skips, StateMoves
<1>6. ConnsInv'
  <2>1. Held' = Held
    BY <1>1 DEF Held
  <2>2. QED
    BY <1>1, <1>4, <1>5, <2>1, ConnsKeep
<1>7. Open' \subseteq Open
  BY <1>1, <1>2, ConnFacts, OpenKept
<1>8. StartTypes' /\ StartInv'
  BY <1>1, ConnFacts DEF StartTypes, StartInv
<1>9. listening' \in BOOLEAN
  BY Zenon DEF StartListening, IInv, ControlInv, TypeInv, AcceptTypes
<1>10. /\ queue' \in [Loops -> Seq(TaskType)]
       /\ done' \in [Loops -> Nat] /\ \A l \in Loops : done'[l] <= Len(batch[l])
       /\ state' \in [Conns -> StateType] /\ told' \in [Conns -> {"none", "up", "down"}]
       /\ unvisited' \subseteq connections' /\ connections' \subseteq connections
       /\ unvisited' \subseteq unvisited
  BY <1>1, <1>4, ConnInvKept, ConnFacts DEF Grows, LoopTypes
<1>11. QED
  BY <1>1, <1>6, <1>7, <1>8, <1>9, <1>10, ControlFrame

\* What Removed(c) does, for a disconnected connection.
LEMMA RemovedFacts ==
  ASSUME IInv, NEW c \in Made, Removed(c), state'[c] = "kDisconnected",
         UNCHANGED <<nextConnId, loopOf, batch, unvisited>>, Exists(c),
         server' = server, server = "alive"
  PROVE  /\ Grows /\ connections' \subseteq connections /\ Open' \subseteq Open
         /\ \A d \in Held : d \in Held' \/ Settled(d)'
         /\ \A d \in connections : d \in connections' \/ state'[d] = "kDisconnected"
<1> DEFINE t == Task("destroyed", c)
<1> PICK l \in Loops : l = loopOf[c]
  BY ConnFacts
<1>1. t \in TaskType /\ t.what = "destroyed" /\ t.conn = c /\ l \in Loops /\ c \in Conns
  <2>1. c \in Conns /\ c \in 0..MaxClients
    BY ConnFacts
  <2>2. QED
    BY <2>1, ConnFacts, TaskIsTask
<1>2. Queued(l, t) /\ connections' = connections \ {c}
  BY DEF Removed, Queued
<1>3. Placed(t, l)'
  BY <1>1 DEF Placed, Made
<1> HIDE DEF t
<1>4. Grows
  BY <1>1, <1>2, <1>3, QueuedGrows
<1>5. Open' \subseteq Open
  BY <1>1, <1>2, OpenKept
<1>6. Held = connections /\ Held' = connections'
  BY DEF Held
<1>7. QED
  BY <1>2, <1>4, <1>5, <1>6 DEF Settled

LEMMA HandleCloseKeeps ==
  ASSUME IInv, NEW c \in Conns, HandleClose(c)
  PROVE  IInv'
<1> DEFINE l == loopOf[c]
<1>1. /\ loc[l] = "events" /\ state[c] = "kConnected" /\ Told(c, "kDisconnected", "down")
      /\ IF l = Base THEN Removed(c)
         ELSE Queued(Base, Task("remove", c)) /\ UNCHANGED connections
      /\ UNCHANGED <<startVars, acceptVars, next, nextConnId, loopOf, batch, done, loc,
                     quit, server, unvisited>>
  BY DEF HandleClose, Queued, serverVars
<1>2. c \in Made /\ Exists(c)
  BY <1>1, ConnFacts, ConnectedExists
<1>3. /\ ConnInv' /\ state' \in [Conns -> StateType]
      /\ told' \in [Conns -> {"none", "up", "down"}]
  BY <1>1, <1>2, ConnInvKept
<1>4. /\ state' = [state EXCEPT ![c] = "kDisconnected"]
      /\ StateMoves /\ state'[c] = "kDisconnected"
  BY <1>1 DEF Told, StateMoves, IInv, ControlInv, TypeInv, ConnTypes
<1>5. Skips
  BY <1>1 DEF Skips
<1>6. /\ Grows /\ connections' \subseteq connections /\ Open' \subseteq Open
      /\ \A d \in Held : d \in Held' \/ Settled(d)'
      /\ server' = "alive" =>
            \A d \in connections : d \in connections' \/ state'[d] = "kDisconnected"
      /\ unvisited' \subseteq connections'
  <2>1. CASE l = Base
    <3>1. server = "alive" /\ Removed(c)
      BY <1>1, <2>1, ConnFacts
    <3>2. unvisited' \subseteq connections'
      \* The map is not being visited as long as the loop runs.
      <4>1. unvisited = {}
        BY <3>1 DEF IInv, ControlInv, ServerInv
      <4>2. QED
        BY <1>1, <4>1
    <3>3. QED
      BY <1>1, <1>2, <1>4, <3>1, <3>2, RemovedFacts
  <2>2. CASE l # Base
    <3>1. /\ Queued(Base, Task("remove", c)) /\ connections' = connections /\ Base \in Loops
          /\ Held' = Held
      BY <1>1, <2>2, ConnFacts DEF Held
    <3>2. /\ Task("remove", c) \in TaskType /\ Task("remove", c).what = "remove"
          /\ Task("remove", c).conn = c
      BY ConnFacts, TaskIsTask
    <3>3. Placed(Task("remove", c), Base)'
      BY <1>1, <1>2, <1>4, <3>2 DEF Placed, Made
    <3>4. Grows
      BY <3>1, <3>2, <3>3, QueuedGrows
    <3>5. Open' \subseteq Open
      BY <1>1, <1>2, <3>1, <3>2, OpenKept
    <3>6. QED
      BY <1>1, <3>1, <3>4, <3>5, ConnFacts
  <2>3. QED
    BY <2>1, <2>2
<1>7. ConnsInv'
  BY <1>1, <1>3, <1>4, <1>5, <1>6, ConnsKeep
<1>8. StartTypes' /\ StartInv'
  BY <1>1, ConnFacts DEF StartTypes, StartInv, startVars
<1>9. listening' \in BOOLEAN
  BY <1>1, Zenon DEF acceptVars, IInv, ControlInv, TypeInv, AcceptTypes
<1>10. /\ queue' \in [Loops -> Seq(TaskType)]
       /\ done' \in [Loops -> Nat] /\ \A k \in Loops : done'[k] <= Len(batch[k])
  BY <1>1, <1>6, ConnFacts DEF Grows, LoopTypes
<1>11. UNCHANGED <<numThreads, loops, idleFd, acc, backlog, arrived, stolen, others>>
  BY <1>1 DEF startVars, acceptVars
<1>12. QED
  BY <1>1, <1>3, <1>6, <1>7, <1>8, <1>9, <1>10, <1>11, ControlFrame

\* The task that is run, and what running it leaves of the batch.
LEMMA RunningFacts ==
  ASSUME IInv, NEW l \in Loops, NEW what, Running(l, what)
  PROVE  /\ loc[l] = "tasks"
         /\ done[l] + 1 \in DOMAIN batch[l] /\ batch[l][done[l] + 1] \in TaskType
         /\ batch[l][done[l] + 1].what = what /\ Placed(batch[l][done[l] + 1], l)
         /\ what # "listen" => ConnOfTask(l) \in Made /\ Exists(ConnOfTask(l))
         /\ done' \in [Loops -> Nat] /\ \A k \in Loops : done'[k] <= Len(batch[k])
         /\ \A k \in Loops : \A i \in DOMAIN batch[k] :
               /\ i > done'[k] => i > done[k]
               /\ i > done[k] => i > done'[k] \/ (k = l /\ i = done[l] + 1)
         /\ \A i \in DOMAIN batch[l] : i > done'[l] <=> i > done[l] + 1
<1>1. /\ loc[l] = "tasks" /\ done[l] < Len(batch[l])
      /\ batch[l][done[l] + 1].what = what
      /\ done' = [done EXCEPT ![l] = @ + 1]
  BY DEF Running
<1>2. \A k \in Loops : /\ batch[k] \in Seq(TaskType) /\ Len(batch[k]) \in Nat
                       /\ DOMAIN batch[k] = 1..Len(batch[k])
                       /\ done[k] \in Nat /\ done[k] <= Len(batch[k])
  BY ConnFacts, LenProperties DEF LoopTypes
<1>3. done[l] + 1 \in DOMAIN batch[l] /\ batch[l][done[l] + 1] \in TaskType
  BY <1>1, <1>2, ElementOfSeq
<1>4. Placed(batch[l][done[l] + 1], l)
  BY <1>3 DEF IInv, ConnsInv, TaskInv
<1>5. ASSUME what # "listen" PROVE ConnOfTask(l) \in Made /\ Exists(ConnOfTask(l))
  BY <1>1, <1>3, <1>4, <1>5 DEF Placed, ConnOfTask, Exists, Refers
<1>6. /\ done' \in [Loops -> Nat]
      /\ \A k \in Loops : done'[k] = IF k = l THEN done[k] + 1 ELSE done[k]
  BY <1>1, <1>2, ConnFacts DEF LoopTypes
<1>7. \A k \in Loops : done'[k] <= Len(batch[k])
  BY <1>1, <1>2, <1>6
<1>8. \A k \in Loops : \A i \in DOMAIN batch[k] :
         /\ i > done'[k] => i > done[k]
         /\ i > done[k] => i > done'[k] \/ (k = l /\ i = done[l] + 1)
  BY <1>2, <1>6
<1>9. QED
  BY <1>1, <1>3, <1>4, <1>5, <1>6, <1>7, <1>8

LEMMA RunListenKeeps ==
  ASSUME IInv, RunListen
  PROVE  IInv'
<1>1. /\ Running(Base, "listen") /\ listening' = TRUE
      /\ UNCHANGED <<numThreads, started, starting, loops, idleFd, acc, backlog, arrived,
                     stolen, others, next, nextConnId, connections, state, told, loopOf,
                     queue, batch, loc, quit, server, unvisited>>
  BY DEF RunListen, startVars, connVars, serverVars
<1>2. Skips
  BY <1>1, RunningFacts, ConnFacts DEF Skips
<1>3. Grows /\ StateMoves /\ ConnInv'
  BY <1>1, SameGrows, ConnInvKept DEF StateMoves
<1>4. ConnsInv'
  <2>1. Held' = Held
    BY <1>1 DEF Held
  <2>2. QED
    BY <1>1, <1>2, <1>3, <2>1, ConnsKeep
<1>5. Open' \subseteq Open
  BY <1>1, OpenKept
<1>6. StartTypes' /\ StartInv'
  BY <1>1, ConnFacts DEF StartTypes, StartInv
<1>7. listening' \in BOOLEAN
  BY <1>1
<1>8. /\ queue' \in [Loops -> Seq(TaskType)]
      /\ done' \in [Loops -> Nat] /\ \A l \in Loops : done'[l] <= Len(batch[l])
      /\ state' \in [Conns -> StateType] /\ told' \in [Conns -> {"none", "up", "down"}]
      /\ unvisited' \subseteq connections'
  BY <1>1, <1>3, RunningFacts, ConnInvKept, ConnFacts DEF Grows
<1>9. QED
  BY <1>1, <1>4, <1>5, <1>6, <1>7, <1>8, ControlFrame

LEMMA RunRemoveKeeps ==
  ASSUME IInv, RunRemove
  PROVE  IInv'
<1> PICK c \in Made : c = ConnOfTask(Base)
  BY RunningFacts, ConnFacts DEF RunRemove
<1>1. /\ Running(Base, "remove") /\ Removed(c)
      /\ UNCHANGED <<startVars, acceptVars, next, nextConnId, state, told, loopOf, batch,
                     loc, quit, server, unvisited>>
  BY DEF RunRemove, serverVars
<1>2. loc[Base] = "tasks" /\ Exists(c) /\ state[c] = "kDisconnected"
  BY <1>1, RunningFacts, ConnFacts DEF Placed, ConnOfTask
<1>3. server = "alive" /\ unvisited = {}
  BY <1>2, ConnFacts DEF IInv, ControlInv, ServerInv
<1>4. /\ Grows /\ connections' \subseteq connections /\ Open' \subseteq Open
      /\ \A d \in Held : d \in Held' \/ Settled(d)'
      /\ \A d \in connections : d \in connections' \/ state'[d] = "kDisconnected"
  BY <1>1, <1>2, <1>3, RemovedFacts
<1>5. Skips
  BY <1>1, RunningFacts, ConnFacts DEF Skips
<1>6. /\ StateMoves /\ ConnInv' /\ state' \in [Conns -> StateType]
      /\ told' \in [Conns -> {"none", "up", "down"}]
  BY <1>1, ConnInvKept DEF StateMoves
<1>7. ConnsInv'
  BY <1>1, <1>4, <1>5, <1>6, ConnsKeep
<1>8. StartTypes' /\ StartInv'
  BY <1>1, ConnFacts DEF StartTypes, StartInv, startVars
<1>9. listening' \in BOOLEAN
  BY <1>1, Zenon DEF acceptVars, IInv, ControlInv, TypeInv, AcceptTypes
<1>10. /\ queue' \in [Loops -> Seq(TaskType)]
       /\ done' \in [Loops -> Nat] /\ \A k \in Loops : done'[k] <= Len(batch[k])
       /\ unvisited' \subseteq connections'
  BY <1>1, <1>3, <1>4, RunningFacts, ConnFacts DEF Grows
<1>11. UNCHANGED <<numThreads, loops, idleFd, acc, backlog, arrived, stolen, others>>
  BY <1>1 DEF startVars, acceptVars
<1>12. QED
  BY <1>1, <1>4, <1>6, <1>7, <1>8, <1>9, <1>10, <1>11, ControlFrame

\* connectDestroyed never comes before connectEstablished has been run.
LEMMA DestroyedIsLast ==
  ASSUME IInv, NEW l \in Loops, Running(l, "destroyed"),
         state[ConnOfTask(l)] = "kConnecting"
  PROVE  FALSE
<1> PICK c \in Made : c = ConnOfTask(l)
  BY RunningFacts
<1> DEFINE n == done[l] + 1
<1>1. /\ n \in DOMAIN batch[l] /\ batch[l][n].what = "destroyed" /\ batch[l][n].conn = c
      /\ loopOf[c] = l /\ loc[l] = "tasks" /\ done[l] \in Nat /\ DOMAIN batch[l] \subseteq Nat
  <2>1. /\ n \in DOMAIN batch[l] /\ batch[l][n].what = "destroyed" /\ loc[l] = "tasks"
        /\ Placed(batch[l][n], l)
    BY RunningFacts
  <2>2. batch[l][n].conn = c
    BY DEF ConnOfTask
  <2>3. loopOf[c] = l
    BY <2>1, <2>2 DEF Placed
  <2>4. LoopTypes
    BY ConnFacts
  <2>5. done[l] \in Nat /\ DOMAIN batch[l] \subseteq Nat
    BY <2>4 DEF LoopTypes
  <2>6. QED
    BY <2>1, <2>2, <2>3, <2>5
<1>2. Pending(l, "established", c)
  BY <1>1, ConnFacts DEF IInv, ConnsInv, PendingInv
<1>3. Task("established", c).what = "established" /\ Task("established", c).conn = c
  BY DEF Task
<1>4. ASSUME NEW j \in DOMAIN queue[l], queue[l][j] = Task("established", c) PROVE FALSE
  BY <1>1, <1>3, <1>4 DEF IInv, ConnsInv, OrderInv
<1>5. ASSUME NEW j \in DOMAIN batch[l], j > done[l], batch[l][j] = Task("established", c)
      PROVE  FALSE
  <2>1. n < j
    BY <1>1, <1>3, <1>5
  <2>2. FirstIn(batch[l])
    BY DEF IInv, ConnsInv, OrderInv
  <2>3. QED
    BY <1>1, <1>3, <1>5, <2>1, <2>2 DEF FirstIn
<1>6. QED
  BY <1>2, <1>4, <1>5 DEF Pending

\* After connectDestroyed() a connection that was not connecting is disconnected.
LEMMA ConnectDestroyedFacts ==
  ASSUME IInv, NEW c \in Made, ConnectDestroyed(c), UNCHANGED nextConnId
  PROVE  /\ ConnInv' /\ state' \in [Conns -> StateType]
         /\ told' \in [Conns -> {"none", "up", "down"}]
         /\ StateMoves
         /\ state[c] # "kConnecting" => state'[c] = "kDisconnected"
<1>1. CASE state[c] = "kConnected"
  <2>1. Told(c, "kDisconnected", "down")
    BY <1>1 DEF ConnectDestroyed
  <2>2. QED
    BY <1>1, <2>1, ConnInvKept, ConnFacts DEF Told, StateMoves, IInv, ControlInv, TypeInv,
       ConnTypes
<1>2. CASE state[c] # "kConnected"
  <2>1. UNCHANGED <<state, told>>
    BY <1>2 DEF ConnectDestroyed
  <2>2. state[c] \in StateType /\ state[c] # "none"
    BY ConnFacts DEF IInv, ControlInv, TypeInv, ConnTypes
  <2>3. QED
    BY <1>2, <2>1, <2>2, ConnInvKept DEF StateMoves, StateType
<1>3. QED
  BY <1>1, <1>2

LEMMA RunDestroyedKeeps ==
  ASSUME IInv, NEW l \in Loops, RunDestroyed(l)
  PROVE  IInv'
<1> PICK c \in Made : c = ConnOfTask(l)
  BY RunningFacts DEF RunDestroyed
<1>1. /\ Running(l, "destroyed") /\ ConnectDestroyed(c)
      /\ UNCHANGED <<startVars, acceptVars, next, nextConnId, connections, loopOf, queue,
                     batch, loc, quit, server, unvisited>>
  BY DEF RunDestroyed, serverVars
<1>2. /\ ConnInv' /\ state' \in [Conns -> StateType]
      /\ told' \in [Conns -> {"none", "up", "down"}]
      /\ StateMoves /\ state'[c] = "kDisconnected"
  BY <1>1, ConnectDestroyedFacts, DestroyedIsLast
<1>3. Skips
  <2>1. batch[l][done[l] + 1].what = "destroyed" /\ batch[l][done[l] + 1].conn = c
    BY <1>1, RunningFacts DEF ConnOfTask
  <2>2. QED
    BY <1>1, <1>2, <2>1, RunningFacts DEF Skips
<1>4. ConnsInv'
  <2>1. Held' = Held
    BY <1>1 DEF Held
  <2>2. QED
    BY <1>1, <1>2, <1>3, <2>1, SameGrows, ConnsKeep
<1>5. Open' \subseteq Open
  BY <1>1, OpenKept
<1>6. StartTypes' /\ StartInv'
  BY <1>1, ConnFacts DEF StartTypes, StartInv, startVars
<1>7. listening' \in BOOLEAN
  BY <1>1, Zenon DEF acceptVars, IInv, ControlInv, TypeInv, AcceptTypes
<1>8. /\ queue' \in [Loops -> Seq(TaskType)]
      /\ done' \in [Loops -> Nat] /\ \A k \in Loops : done'[k] <= Len(batch[k])
      /\ unvisited' \subseteq connections'
  BY <1>1, RunningFacts, ConnFacts DEF LoopTypes
<1>9. UNCHANGED <<numThreads, loops, idleFd, acc, backlog, arrived, stolen, others>>
  BY <1>1 DEF startVars, acceptVars
<1>10. QED
  BY <1>1, <1>2, <1>4, <1>5, <1>6, <1>7, <1>8, <1>9, ControlFrame

LEMMA VisitKeeps ==
  ASSUME IInv, NEW c \in Conns, Visit(c)
  PROVE  IInv'
<1> PICK l \in Loops : l = loopOf[c]
  BY ConnFacts
<1>1. /\ server = "visiting" /\ c \in unvisited /\ unvisited' = unvisited \ {c}
      /\ IF l = Base THEN ConnectDestroyed(c) /\ UNCHANGED queue
         ELSE Queued(l, Task("destroyed", c)) /\ UNCHANGED <<state, told>>
      /\ UNCHANGED <<startVars, acceptVars, next, nextConnId, connections, loopOf, batch,
                     done, loc, quit, server>>
  BY DEF Visit, Queued
<1>2. c \in Made /\ Exists(c) /\ loc[Base] = "stopped"
  BY <1>1, ConnFacts DEF Exists, IInv, ControlInv, ServerInv
<1>3. /\ ConnInv' /\ state' \in [Conns -> StateType]
      /\ told' \in [Conns -> {"none", "up", "down"}] /\ StateMoves
  BY <1>1, <1>2, ConnectDestroyedFacts, ConnInvKept DEF StateMoves
<1>4. Grows /\ Open' \subseteq Open /\ Settled(c)'
  <2>1. CASE l = Base
    <3>1. Settled(c)'
      \* The server's own loop has returned.
      BY <1>1, <1>2, <2>1 DEF Settled
    <3>2. QED
      BY <1>1, <2>1, <3>1, SameGrows, OpenKept
  <2>2. CASE l # Base
    <3>1. /\ Task("destroyed", c) \in TaskType /\ Task("destroyed", c).what = "destroyed"
          /\ Task("destroyed", c).conn = c
      BY ConnFacts, TaskIsTask
    <3>2. Placed(Task("destroyed", c), l)'
      BY <1>1, <1>2, <3>1 DEF Placed, Made
    <3>3. Queued(l, Task("destroyed", c))
      BY <1>1, <2>2
    <3>4. Grows /\ Open' \subseteq Open
      BY <1>1, <1>2, <3>1, <3>2, <3>3, QueuedGrows, OpenKept
    <3>5. \E i \in DOMAIN queue'[l] : queue'[l][i] = Task("destroyed", c)
      BY <3>1, <3>3, ConnFacts, QueueAfter
    <3>6. Settled(c)'
      BY <1>1, <3>5 DEF Settled, Pending
    <3>7. QED
      BY <3>4, <3>6
  <2>3. QED
    BY <2>1, <2>2
<1>5. Skips
  BY <1>1 DEF Skips
<1>6. ConnsInv'
  <2>1. \A d \in Held : d \in Held' \/ Settled(d)'
    BY <1>1, <1>4 DEF Held
  <2>2. QED
    BY <1>1, <1>3, <1>4, <1>5, <2>1, ConnsKeep
<1>7. StartTypes' /\ StartInv'
  BY <1>1, ConnFacts DEF StartTypes, StartInv, startVars
<1>8. listening' \in BOOLEAN
  BY <1>1, Zenon DEF acceptVars, IInv, ControlInv, TypeInv, AcceptTypes
<1>9. /\ queue' \in [Loops -> Seq(TaskType)]
      /\ done' \in [Loops -> Nat] /\ \A k \in Loops : done'[k] <= Len(batch[k])
      /\ unvisited' \subseteq connections' /\ unvisited' \subseteq unvisited
  BY <1>1, <1>4, ConnFacts DEF Grows, LoopTypes
<1>10. UNCHANGED <<numThreads, loops, idleFd, acc, backlog, arrived, stolen, others>>
  BY <1>1 DEF startVars, acceptVars
<1>11. QED
  BY <1>1, <1>3, <1>4, <1>6, <1>7, <1>8, <1>9, <1>10, ControlFrame

LEMMA MapDestroyedKeeps ==
  ASSUME IInv, MapDestroyed
  PROVE  IInv'
<1>1. /\ server = "visiting" /\ unvisited = {} /\ server' = "joining" /\ connections' = {}
      /\ UNCHANGED <<startVars, acceptVars, next, nextConnId, state, told, loopOf, queue,
                     batch, done, loc, quit, unvisited>>
  BY DEF MapDestroyed, loopVars
<1>2. /\ ConnInv' /\ state' \in [Conns -> StateType]
      /\ told' \in [Conns -> {"none", "up", "down"}] /\ StateMoves /\ Skips
  BY <1>1, ConnInvKept DEF StateMoves, Skips
<1>3. ConnsInv'
  <2>1. Held = {}
    BY <1>1 DEF Held
  <2>2. QED
    BY <1>1, <1>2, <2>1, SameGrows, ConnsKeep
<1>4. Open' \subseteq Open
  BY <1>1, OpenKept
<1>5. StartTypes' /\ StartInv'
  BY <1>1, ConnFacts DEF StartTypes, StartInv, startVars
<1>6. listening' \in BOOLEAN
  BY <1>1, Zenon DEF acceptVars, IInv, ControlInv, TypeInv, AcceptTypes
<1>7. /\ queue' \in [Loops -> Seq(TaskType)]
      /\ done' \in [Loops -> Nat] /\ \A k \in Loops : done'[k] <= Len(batch[k])
      /\ unvisited' \subseteq connections' /\ connections' \subseteq connections
  BY <1>1, ConnFacts DEF LoopTypes
<1>8. UNCHANGED <<numThreads, loops, idleFd, acc, backlog, arrived, stolen, others>>
  BY <1>1 DEF startVars, acceptVars
<1>9. QED
  BY <1>1, <1>2, <1>3, <1>4, <1>5, <1>6, <1>7, <1>8, ControlFrame

\* The task that establishes a connection is the only one, and what comes of the
\* tasks that wait when it is run.
LEMMA EstablishedOnce ==
  ASSUME IInv, NEW l \in Loops, Running(l, "established"), UNCHANGED <<queue, batch>>
  PROVE  /\ state[ConnOfTask(l)] = "kConnecting"
         /\ \A k \in Loops, d \in Conns : Pending(k, "established", d)' =>
               Pending(k, "established", d) /\ d # ConnOfTask(l)
         /\ \A k \in Loops, d \in Conns, what \in {"established", "destroyed"} :
               Pending(k, what, d) => \/ Pending(k, what, d)'
                                      \/ what = "established" /\ d = ConnOfTask(l)
<1> PICK c \in Made : c = ConnOfTask(l)
  BY RunningFacts
<1> DEFINE n == done[l] + 1
<1>1. /\ n \in DOMAIN batch[l] /\ batch[l][n] \in TaskType
      /\ batch[l][n].what = "established" /\ batch[l][n].conn = c
      /\ Placed(batch[l][n], l) /\ loopOf[c] = l /\ c \in Conns
      /\ done[l] \in Nat /\ DOMAIN batch[l] \subseteq Nat
  <2>1. /\ n \in DOMAIN batch[l] /\ batch[l][n] \in TaskType
        /\ batch[l][n].what = "established" /\ Placed(batch[l][n], l)
    BY RunningFacts
  <2>2. batch[l][n].conn = c
    BY DEF ConnOfTask
  <2>3. loopOf[c] = l
    BY <2>1, <2>2 DEF Placed
  <2>4. LoopTypes /\ c \in Conns
    BY ConnFacts
  <2>5. done[l] \in Nat /\ DOMAIN batch[l] \subseteq Nat
    BY <2>4 DEF LoopTypes
  <2>6. QED
    BY <2>1, <2>2, <2>3, <2>4, <2>5
<1>2. state[c] = "kConnecting"
  <2>1. batch[l][n] = Task("established", c) /\ n > done[l]
    BY <1>1 DEF TaskType, Task
  <2>2. Pending(l, "established", c)
    BY <1>1, <2>1 DEF Pending
  <2>3. QED
    BY <1>1, <2>2 DEF IInv, ConnsInv, PendingInv
<1>3. ASSUME NEW k \in Loops, NEW d \in Conns, Pending(k, "established", d)'
      PROVE  Pending(k, "established", d) /\ d # c
  <2> DEFINE t == Task("established", d)
  <2>1. t.what = "established" /\ t.conn = d
    BY DEF Task
  <2>2. ASSUME NEW j \in DOMAIN queue[k], queue[k][j] = t
        PROVE  Pending(k, "established", d) /\ d # c
    <3>1. loopOf[d] = k
      BY <2>1, <2>2 DEF IInv, ConnsInv, TaskInv, Placed
    <3>2. ASSUME d = c PROVE FALSE
      BY <1>1, <2>1, <2>2, <3>1, <3>2 DEF IInv, ConnsInv, OrderInv
    <3>3. QED
      BY <2>2, <3>2 DEF Pending
  <2>3. ASSUME NEW j \in DOMAIN batch[k], j > done'[k], batch[k][j] = t
        PROVE  Pending(k, "established", d) /\ d # c
    <3>1. loopOf[d] = k /\ j > done[k]
      <4>1. Placed(batch[k][j], k)
        BY <2>3 DEF IInv, ConnsInv, TaskInv
      <4>2. j > done[k]
        BY <2>3, RunningFacts
      <4>3. QED
        BY <2>1, <2>3, <4>1, <4>2 DEF Placed
    <3>2. ASSUME d = c PROVE FALSE
      <4>1. k = l /\ n < j
        BY <1>1, <2>3, <3>1, <3>2, RunningFacts
      <4>2. FirstIn(batch[l])
        BY DEF IInv, ConnsInv, OrderInv
      <4>3. QED
        BY <1>1, <2>1, <2>3, <3>2, <4>1, <4>2 DEF FirstIn
    <3>3. QED
      BY <2>3, <3>1, <3>2 DEF Pending
  <2>4. QED
    BY <1>3, <2>2, <2>3 DEF Pending
<1>4. ASSUME NEW k \in Loops, NEW d \in Conns, NEW what \in {"established", "destroyed"},
             Pending(k, what, d)
      PROVE  Pending(k, what, d)' \/ (what = "established" /\ d = c)
  <2>1. ASSUME NEW j \in DOMAIN batch[k], j > done[k], batch[k][j] = Task(what, d)
        PROVE  j > done'[k] \/ (what = "established" /\ d = c)
    <3>1. CASE k = l /\ j = n
      BY <1>1, <2>1, <3>1 DEF Task
    <3>2. CASE ~(k = l /\ j = n)
      BY <2>1, <3>2, RunningFacts
    <3>3. QED
      BY <3>1, <3>2
  <2>2. QED
    BY <1>4, <2>1 DEF Pending
<1>5. QED
  BY <1>2, <1>3, <1>4

LEMMA RunEstablishedKeeps ==
  ASSUME IInv, NEW l \in Loops, RunEstablished(l)
  PROVE  IInv'
<1> PICK c \in Made : c = ConnOfTask(l)
  BY RunningFacts DEF RunEstablished
<1>1. /\ Running(l, "established") /\ Told(c, "kConnected", "up")
      /\ UNCHANGED <<startVars, acceptVars, next, nextConnId, connections, loopOf, queue,
                     batch, loc, quit, server, unvisited>>
  BY DEF RunEstablished, serverVars
<1>2. /\ state[c] = "kConnecting"
      /\ \A k \in Loops, d \in Conns : Pending(k, "established", d)' =>
            Pending(k, "established", d) /\ d # c
      /\ \A k \in Loops, d \in Conns, what \in {"established", "destroyed"} :
            Pending(k, what, d) => Pending(k, what, d)' \/ (what = "established" /\ d = c)
  BY <1>1, EstablishedOnce
<1>3. /\ state' \in [Conns -> StateType] /\ told' \in [Conns -> {"none", "up", "down"}]
      /\ \A d \in Conns : state'[d] = (IF d = c THEN "kConnected" ELSE state[d])
      /\ \A d \in Conns : told'[d] = (IF d = c THEN "up" ELSE told[d])
  BY <1>1 DEF Told, IInv, ControlInv, TypeInv, ConnTypes, StateType
<1>4. Made' = Made /\ \A d \in Made : d \in Conns
  BY <1>1, ConnFacts DEF Made
<1>5. ConnInv'
  BY <1>3, <1>4 DEF IInv, ConnsInv, ConnInv, ToldIn
<1>6. TaskInv' /\ OrderInv'
  <2>1. \A task, k : task \in TaskType /\ Placed(task, k) => Placed(task, k)'
    BY <1>1, <1>2, <1>3, <1>4 DEF Placed
  <2>2. \A k \in Loops : /\ \A i \in DOMAIN queue[k] : queue[k][i] \in TaskType
                         /\ \A i \in DOMAIN batch[k] : batch[k][i] \in TaskType
    BY ConnFacts, ElementOfSeq DEF LoopTypes
  <2>3. ASSUME NEW k \in Loops, NEW i \in DOMAIN queue'[k] PROVE Placed(queue[k][i], k)'
    BY <1>1, <2>1, <2>2 DEF IInv, ConnsInv, TaskInv
  <2>4. ASSUME NEW k \in Loops, NEW i \in DOMAIN batch'[k] PROVE Placed(batch[k][i], k)'
    BY <1>1, <2>1, <2>2 DEF IInv, ConnsInv, TaskInv
  <2>5. TaskInv'
    BY <2>3, <2>4 DEF TaskInv
  <2>6. OrderInv'
    BY <1>1 DEF IInv, ConnsInv, OrderInv, FirstIn
  <2>7. QED
    BY <2>5, <2>6
<1>7. PendingInv'
  BY <1>1, <1>2, <1>3, ConnFacts DEF IInv, ConnsInv, PendingInv
<1>8. HeldInv'
  <2>1. \A d \in Made : Settled(d) => Settled(d)'
    BY <1>1, <1>2, <1>3, <1>4, ConnFacts DEF Settled
  <2>2. Held' = Held
    BY <1>1 DEF Held
  <2>3. QED
    BY <1>1, <1>2, <1>3, <1>4, <2>1, <2>2 DEF IInv, ConnsInv, HeldInv
<1>9. Open' \subseteq Open
  BY <1>1, OpenKept
<1>10. StartTypes' /\ StartInv'
  BY <1>1, ConnFacts DEF StartTypes, StartInv, startVars
<1>11. listening' \in BOOLEAN
  BY <1>1, Zenon DEF acceptVars, IInv, ControlInv, TypeInv, AcceptTypes
<1>12. /\ queue' \in [Loops -> Seq(TaskType)]
       /\ done' \in [Loops -> Nat] /\ \A k \in Loops : done'[k] <= Len(batch[k])
       /\ unvisited' \subseteq connections'
  BY <1>1, RunningFacts, ConnFacts DEF LoopTypes
<1>13. UNCHANGED <<numThreads, loops, idleFd, acc, backlog, arrived, stolen, others>>
  BY <1>1 DEF startVars, acceptVars
<1>14. ConnsInv'
  BY <1>5, <1>6, <1>7, <1>8 DEF ConnsInv
<1>15. QED
  BY <1>1, <1>3, <1>9, <1>10, <1>11, <1>12, <1>13, <1>14, ControlFrame

\* Steps that only take tasks on or let them go, none of which waits to be run by a
\* loop that does not stop.
LEMMA TasksOnly ==
  ASSUME IInv,
         UNCHANGED <<startVars, listening, idleFd, backlog, arrived, stolen, others,
                     connVars, quit, serverVars>>,
         \/ acc' = acc
         \/ ~Accepting /\ acc' = "idle",
         Accepting => loc'[Base] = "events",
         \A k \in Loops : loc[k] = "stopped" => loc'[k] = "stopped",
         LoopTypes', LoopInv', OrderInv',
         \A k \in Loops : \A i \in DOMAIN queue'[k] :
            \E j \in DOMAIN queue[k] : queue[k][j] = queue'[k][i],
         \A k \in Loops : \A i \in DOMAIN batch'[k] :
            \/ \E j \in DOMAIN queue[k] : queue[k][j] = batch'[k][i]
            \/ \E j \in DOMAIN batch[k] : batch[k][j] = batch'[k][i],
         \A k \in Loops : \A what, c : Pending(k, what, c)' => Pending(k, what, c),
         \A k \in Loops : \A what, c : Pending(k, what, c) =>
            Pending(k, what, c)' \/ loc'[k] = "stopped"
  PROVE  IInv' /\ Open' \subseteq Open
<1>1. /\ UNCHANGED <<numThreads, started, starting, loops, next, nextConnId, connections,
                     state, told, loopOf, server, unvisited>>
      /\ Made' = Made /\ Held' = Held
  BY DEF startVars, connVars, serverVars, Made, Held
<1>2. Open' \subseteq Open
  <2>1. SUFFICES ASSUME NEW c \in Conns, Exists(c)' PROVE Exists(c)
    BY DEF Open
  <2>2. CASE c \in connections'
    BY <1>1, <2>2 DEF Exists
  <2>3. ASSUME NEW k \in Loops, NEW i \in DOMAIN queue'[k], queue'[k][i].conn = c
        PROVE  Exists(c)
    BY <2>3 DEF Exists, Refers
  <2>4. ASSUME NEW k \in Loops, NEW i \in DOMAIN batch'[k], batch'[k][i].conn = c
        PROVE  Exists(c)
    BY <2>4 DEF Exists, Refers
  <2>5. QED
    BY <2>1, <2>2, <2>3, <2>4 DEF Exists, Refers
<1>3. ConnInv'
  BY <1>1 DEF IInv, ConnsInv, ConnInv
<1>4. TaskInv'
  <2>1. \A task, k : Placed(task, k)' <=> Placed(task, k)
    BY <1>1 DEF Placed
  <2>2. \A k \in Loops : /\ \A i \in DOMAIN queue'[k] : Placed(queue'[k][i], k)
                         /\ \A i \in DOMAIN batch'[k] : Placed(batch'[k][i], k)
    BY DEF IInv, ConnsInv, TaskInv
  <2>3. ASSUME NEW k \in Loops, NEW i \in DOMAIN queue'[k] PROVE Placed(queue[k][i], k)'
    BY <2>1, <2>2
  <2>4. ASSUME NEW k \in Loops, NEW i \in DOMAIN batch'[k] PROVE Placed(batch[k][i], k)'
    BY <2>1, <2>2
  <2>5. QED
    BY <2>3, <2>4 DEF TaskInv
<1>5. PendingInv'
  BY <1>1, ConnFacts DEF IInv, ConnsInv, PendingInv
<1>6. HeldInv'
  <2>1. \A c \in Made : Settled(c) => Settled(c)'
    BY <1>1, ConnFacts DEF Settled
  <2>2. QED
    BY <1>1, <2>1 DEF IInv, ConnsInv, HeldInv
<1>7. ControlInv'
  <2>1. listening' \in BOOLEAN /\ stolen' \in BOOLEAN
    BY Zenon DEF IInv, ControlInv, TypeInv, AcceptTypes
  <2>2. AcceptTypes' /\ ClientInv'
    BY <1>1, <2>1 DEF IInv, ControlInv, TypeInv, AcceptTypes, ClientInv
  <2>3. ConnTypes' /\ ServerInv'
    BY <1>1, ConnFacts DEF IInv, ControlInv, TypeInv, ConnTypes, ServerInv
  <2>4. StartTypes' /\ StartInv'
    BY <1>1, ConnFacts DEF StartTypes, StartInv
  <2>5. QED
    BY <2>2, <2>3, <2>4 DEF ControlInv, TypeInv
<1>8. SpareInv' /\ FdInv'
  <2>1. Cardinality(Open') <= Cardinality(Open)
    BY <1>2, OpenShrinks
  <2>2. Used' <= Used /\ Used' \in Int /\ Used \in Int
    BY <2>1, UsedIs DEF IInv, ControlInv, TypeInv, AcceptTypes
  <2>3. FdInv' /\ (FdFree => FdFree')
    BY <2>2 DEF IInv, FdInv, FdFree
  <2>4. SpareInv'
    BY <1>1, <2>3 DEF IInv, SpareInv, Accepting
  <2>5. QED
    BY <2>3, <2>4
<1>9. QED
  BY <1>2, <1>3, <1>4, <1>5, <1>6, <1>7, <1>8 DEF IInv, ConnsInv

LEMMA TakeBatchKeeps ==
  ASSUME IInv, NEW l \in Loops, TakeBatch(l)
  PROVE  IInv' /\ Open' \subseteq Open
<1>1. /\ loc[l] = "events" /\ (l = Base => ~Accepting)
      /\ batch' = [batch EXCEPT ![l] = queue[l]] /\ queue' = [queue EXCEPT ![l] = <<>>]
      /\ done' = [done EXCEPT ![l] = 0] /\ loc' = [loc EXCEPT ![l] = "tasks"]
      /\ UNCHANGED <<startVars, acceptVars, connVars, quit, serverVars>>
  BY DEF TakeBatch
<1>2. UNCHANGED <<loops, listening, idleFd, acc, backlog, arrived, stolen, others, server>>
  BY <1>1 DEF startVars, acceptVars, serverVars
<1>3. /\ queue'[l] = <<>> /\ batch'[l] = queue[l] /\ done'[l] = 0 /\ loc'[l] = "tasks"
      /\ \A k \in Loops : k # l => /\ queue'[k] = queue[k] /\ batch'[k] = batch[k]
                                   /\ done'[k] = done[k] /\ loc'[k] = loc[k]
  BY <1>1, ConnFacts DEF LoopTypes
<1>4. batch[l] = <<>> /\ \A k \in Loops : queue[k] \in Seq(TaskType)
  BY <1>1, ConnFacts DEF LoopTypes, LoopInv, IInv, ControlInv
<1>5. Accepting => loc'[Base] = "events"
  BY <1>1, <1>3, ConnFacts DEF IInv, SpareInv
<1>6. \A k \in Loops : loc[k] = "stopped" => loc'[k] = "stopped"
  BY <1>1, <1>3
<1>7. LoopTypes' /\ LoopInv'
  <2>1. <<>> \in Seq(TaskType) /\ Len(queue[l]) \in Nat
    BY <1>4, EmptySeq, LenProperties
  <2>2. LoopTypes'
    BY <1>1, <2>1, ConnFacts DEF LoopTypes
  <2>3. LoopInv'
    BY <1>1, <1>2, <1>3 DEF IInv, ControlInv, LoopInv
  <2>4. QED
    BY <2>2, <2>3
<1>8. OrderInv'
  <2>1. ASSUME NEW k \in Loops
        PROVE  /\ FirstIn(queue[k])' /\ FirstIn(batch[k])'
               /\ (\A i \in DOMAIN batch[k], j \in DOMAIN queue[k] :
                     queue[k][j].what = "established" => batch[k][i].conn # queue[k][j].conn)'
    <3>1. CASE k = l
      BY <1>3, <3>1 DEF IInv, ConnsInv, OrderInv, FirstIn
    <3>2. CASE k # l
      BY <1>3, <3>2 DEF IInv, ConnsInv, OrderInv, FirstIn
    <3>3. QED
      BY <3>1, <3>2
  <2>2. QED
    BY <2>1 DEF OrderInv
<1>9. /\ \A k \in Loops : \A i \in DOMAIN queue'[k] :
            \E j \in DOMAIN queue[k] : queue[k][j] = queue'[k][i]
      /\ \A k \in Loops : \A i \in DOMAIN batch'[k] :
            \/ \E j \in DOMAIN queue[k] : queue[k][j] = batch'[k][i]
            \/ \E j \in DOMAIN batch[k] : batch[k][j] = batch'[k][i]
  BY <1>3
<1>10. ASSUME NEW k \in Loops, NEW what, NEW c
       PROVE  Pending(k, what, c)' <=> Pending(k, what, c)
  <2>1. CASE k = l
    <3>1. DOMAIN queue[l] = 1..Len(queue[l]) /\ Len(queue[l]) \in Nat
      BY <1>4, LenProperties
    <3>2. DOMAIN batch[l] = {} /\ DOMAIN queue'[l] = {}
      BY <1>3, <1>4
    <3>3. QED
      BY <1>3, <2>1, <3>1, <3>2 DEF Pending
  <2>2. CASE k # l
    BY <1>3, <2>2 DEF Pending
  <2>3. QED
    BY <2>1, <2>2
<1>11. QED
  BY <1>1, <1>2, <1>5, <1>6, <1>7, <1>8, <1>9, <1>10, TasksOnly

LEMMA EndIterationKeeps ==
  ASSUME IInv, NEW l \in Loops, EndIteration(l)
  PROVE  IInv' /\ Open' \subseteq Open
<1>1. /\ loc[l] = "tasks" /\ done[l] = Len(batch[l])
      /\ batch' = [batch EXCEPT ![l] = <<>>] /\ done' = [done EXCEPT ![l] = 0]
      /\ loc' = [loc EXCEPT ![l] = IF quit[l] THEN "stopped" ELSE "events"]
      /\ queue' = IF quit[l] /\ l # Base THEN [queue EXCEPT ![l] = <<>>] ELSE queue
      /\ acc' = IF l = Base THEN "idle" ELSE acc
      /\ UNCHANGED <<startVars, listening, idleFd, backlog, arrived, stolen, others,
                     connVars, quit, serverVars>>
  BY DEF EndIteration
<1>2. UNCHANGED <<loops, server>>
  BY <1>1 DEF startVars, serverVars
<1>3. /\ batch'[l] = <<>> /\ done'[l] = 0 /\ loc'[l] \in {"events", "stopped"}
      /\ queue'[l] = queue[l] \/ (queue'[l] = <<>> /\ loc'[l] = "stopped")
      /\ \A k \in Loops : k # l => /\ queue'[k] = queue[k] /\ batch'[k] = batch[k]
                                   /\ done'[k] = done[k] /\ loc'[k] = loc[k]
  BY <1>1, ConnFacts DEF LoopTypes
<1>4. acc' = acc \/ (~Accepting /\ acc' = "idle")
  BY <1>1 DEF IInv, SpareInv
<1>5. Accepting => loc'[Base] = "events"
  BY <1>1, <1>3, ConnFacts DEF IInv, SpareInv
<1>6. \A k \in Loops : loc[k] = "stopped" => loc'[k] = "stopped"
  BY <1>1, <1>3
<1>7. LoopTypes' /\ LoopInv'
  <2>1. <<>> \in Seq(TaskType) /\ Len(<<>>) = 0
    BY EmptySeq
  <2>2. queue' \in [Loops -> Seq(TaskType)]
    BY <1>1, <2>1, ConnFacts DEF LoopTypes
  <2>3. batch' \in [Loops -> Seq(TaskType)] /\ done' \in [Loops -> Nat]
    BY <1>1, <2>1, ConnFacts DEF LoopTypes
  <2>4. loc' \in [Loops -> {"before", "events", "tasks", "stopped"}] /\ quit' = quit
    BY <1>1, ConnFacts DEF LoopTypes
  <2>5. \A k \in Loops : done'[k] <= Len(batch'[k])
    <3>1. ASSUME NEW k \in Loops PROVE done'[k] <= Len(batch'[k])
      <4>1. CASE k = l
        BY <1>3, <2>1, <4>1
      <4>2. CASE k # l
        BY <1>3, <4>2, ConnFacts DEF LoopTypes
      <4>3. QED
        BY <4>1, <4>2
    <3>2. QED
      BY <3>1
  <2>6. LoopTypes'
    BY <2>2, <2>3, <2>4, <2>5, ConnFacts DEF LoopTypes
  <2>7. LoopInv'
    BY <1>1, <1>2, <1>3 DEF IInv, ControlInv, LoopInv
  <2>8. QED
    BY <2>6, <2>7
<1>8. OrderInv'
  <2>1. ASSUME NEW k \in Loops
        PROVE  /\ FirstIn(queue[k])' /\ FirstIn(batch[k])'
               /\ (\A i \in DOMAIN batch[k], j \in DOMAIN queue[k] :
                     queue[k][j].what = "established" => batch[k][i].conn # queue[k][j].conn)'
    <3>1. CASE k = l
      BY <1>3, <3>1 DEF IInv, ConnsInv, OrderInv, FirstIn
    <3>2. CASE k # l
      BY <1>3, <3>2 DEF IInv, ConnsInv, OrderInv, FirstIn
    <3>3. QED
      BY <3>1, <3>2
  <2>2. QED
    BY <2>1 DEF OrderInv
<1>9. /\ \A k \in Loops : \A i \in DOMAIN queue'[k] :
            \E j \in DOMAIN queue[k] : queue[k][j] = queue'[k][i]
      /\ \A k \in Loops : \A i \in DOMAIN batch'[k] :
            \/ \E j \in DOMAIN queue[k] : queue[k][j] = batch'[k][i]
            \/ \E j \in DOMAIN batch[k] : batch[k][j] = batch'[k][i]
  BY <1>3
<1>10. ASSUME NEW k \in Loops, NEW what, NEW c
       PROVE  /\ Pending(k, what, c)' => Pending(k, what, c)
              /\ Pending(k, what, c) => Pending(k, what, c)' \/ loc'[k] = "stopped"
  <2>1. CASE k = l
    <3>1. DOMAIN batch[l] = 1..Len(batch[l]) /\ Len(batch[l]) \in Nat
      BY ConnFacts, LenProperties DEF LoopTypes
    <3>2. \A i \in DOMAIN batch[l] : ~(i > done[l])
      BY <1>1, <3>1
    <3>3. QED
      BY <1>3, <2>1, <3>2 DEF Pending
  <2>2. CASE k # l
    BY <1>3, <2>2 DEF Pending
  <2>3. QED
    BY <2>1, <2>2
<1>11. QED
  BY <1>1, <1>4, <1>5, <1>6, <1>7, <1>8, <1>9, <1>10, TasksOnly

LEMMA BaseLoopDestroyedKeeps ==
  ASSUME IInv, BaseLoopDestroyed
  PROVE  IInv' /\ Open' \subseteq Open
<1>1. /\ server = "gone" /\ queue' = [queue EXCEPT ![Base] = <<>>]
      /\ UNCHANGED <<startVars, acceptVars, connVars, batch, done, loc, quit, serverVars>>
  BY DEF BaseLoopDestroyed, serverVars
<1>2. UNCHANGED <<loops, listening, idleFd, acc, backlog, arrived, stolen, others, server>>
  BY <1>1 DEF startVars, acceptVars, serverVars
<1>3. /\ queue'[Base] = <<>> /\ loc[Base] = "stopped"
      /\ \A k \in Loops : k # Base => queue'[k] = queue[k]
  BY <1>1, ConnFacts DEF LoopTypes, IInv, ControlInv, ServerInv
<1>4. Accepting => loc'[Base] = "events"
  BY <1>1 DEF IInv, SpareInv
<1>5. LoopTypes' /\ LoopInv'
  <2>1. <<>> \in Seq(TaskType)
    BY EmptySeq
  <2>2. LoopTypes'
    BY <1>1, <2>1, ConnFacts DEF LoopTypes
  <2>3. LoopInv'
    BY <1>1, <1>2 DEF IInv, ControlInv, LoopInv
  <2>4. QED
    BY <2>2, <2>3
<1>6. OrderInv'
  <2>1. ASSUME NEW k \in Loops
        PROVE  /\ FirstIn(queue[k])' /\ FirstIn(batch[k])'
               /\ (\A i \in DOMAIN batch[k], j \in DOMAIN queue[k] :
                     queue[k][j].what = "established" => batch[k][i].conn # queue[k][j].conn)'
    <3>1. CASE k = Base
      BY <1>1, <1>3, <3>1 DEF IInv, ConnsInv, OrderInv, FirstIn
    <3>2. CASE k # Base
      BY <1>1, <1>3, <3>2 DEF IInv, ConnsInv, OrderInv, FirstIn
    <3>3. QED
      BY <3>1, <3>2
  <2>2. QED
    BY <2>1 DEF OrderInv
<1>7. /\ \A k \in Loops : \A i \in DOMAIN queue'[k] :
            \E j \in DOMAIN queue[k] : queue[k][j] = queue'[k][i]
      /\ \A k \in Loops : \A i \in DOMAIN batch'[k] :
            \/ \E j \in DOMAIN queue[k] : queue[k][j] = batch'[k][i]
            \/ \E j \in DOMAIN batch[k] : batch[k][j] = batch'[k][i]
  BY <1>1, <1>3
<1>8. ASSUME NEW k \in Loops, NEW what, NEW c
      PROVE  /\ Pending(k, what, c)' => Pending(k, what, c)
             /\ Pending(k, what, c) => Pending(k, what, c)' \/ loc'[k] = "stopped"
  BY <1>1, <1>3 DEF Pending
<1>9. QED
  BY <1>1, <1>2, <1>4, <1>5, <1>6, <1>7, <1>8, TasksOnly

\* A connection that is made is a new one: no task speaks of it yet.
LEMMA NewIsNew ==
  ASSUME IInv, NewConnection
  PROVE  /\ nextConnId \in Conns /\ nextConnId \notin Made /\ state[nextConnId] = "none"
         /\ NextLoop \in Loops /\ (NextLoop = Base <=> loops = 0)
         /\ server = "alive" /\ FdFree /\ ReadEvent
         /\ \A k \in Loops : /\ \A i \in DOMAIN queue[k] : queue[k][i].conn # nextConnId
                             /\ \A i \in DOMAIN batch[k] : batch[k][i].conn # nextConnId
<1>1. FdFree /\ loc[Base] = "events" /\ backlog > 0 /\ ReadEvent
  BY DEF NewConnection, ReadEvent
<1>2. nextConnId \in Conns /\ nextConnId \notin Made
  BY <1>1 DEF IInv, ControlInv, ClientInv, TypeInv, ConnTypes, AcceptTypes, Conns, Made
<1>3. state[nextConnId] = "none" /\ server = "alive"
  BY <1>1, <1>2, ConnFacts
<1>4. NextLoop \in Loops /\ (NextLoop = Base <=> loops = 0)
  BY ConnFacts DEF StartTypes, NextLoop, Loops, Base
<1>5. ASSUME NEW task, NEW k, Placed(task, k) PROVE task.conn # nextConnId
  BY <1>2, <1>5, ConnFacts DEF Placed
<1>6. \A k \in Loops : /\ \A i \in DOMAIN queue[k] : queue[k][i].conn # nextConnId
                       /\ \A i \in DOMAIN batch[k] : batch[k][i].conn # nextConnId
  BY <1>5 DEF IInv, ConnsInv, TaskInv
<1>7. QED
  BY <1>1, <1>2, <1>3, <1>4, <1>6

LEMMA NewConnectionKeeps ==
  ASSUME IInv, NewConnection
  PROVE  IInv'
<1> PICK c \in Conns : c = nextConnId
  BY NewIsNew
<1> PICK l \in Loops : l = NextLoop
  BY NewIsNew
<1> DEFINE t == Task("established", c)
<1>1. /\ c \notin Made /\ state[c] = "none" /\ server = "alive" /\ FdFree
      /\ loc[Base] = "events" /\ acc = "idle" /\ backlog > 0
      /\ \A k \in Loops : /\ \A i \in DOMAIN queue[k] : queue[k][i].conn # c
                          /\ \A i \in DOMAIN batch[k] : batch[k][i].conn # c
  BY NewIsNew DEF ReadEvent
<1>2. /\ backlog' = backlog - 1 /\ next' = (IF loops = 0 THEN next ELSE After(next))
      /\ nextConnId' = c + 1 /\ connections' = connections \cup {c}
      /\ loopOf' = [loopOf EXCEPT ![c] = l] /\ acc' = "handled"
      /\ \/ l = Base /\ Told(c, "kConnected", "up") /\ UNCHANGED queue
         \/ /\ l # Base /\ Queued(l, t)
            /\ state' = [state EXCEPT ![c] = "kConnecting"] /\ UNCHANGED told
      /\ UNCHANGED <<startVars, listening, idleFd, arrived, stolen, others, batch, done,
                     loc, quit, serverVars>>
  BY DEF NewConnection, Queued
<1>3. UNCHANGED <<numThreads, started, starting, loops, server, unvisited>>
  BY <1>2 DEF startVars, serverVars
<1>4. t \in TaskType /\ t.what = "established" /\ t.conn = c
  BY ConnFacts, TaskIsTask
<1>5. /\ Made' = Made \union {c} /\ Made \subseteq Conns
      /\ Held = connections /\ Held' = connections' /\ c \in Held'
  BY <1>1, <1>2, <1>3, ConnFacts DEF Made, Held, Conns
<1> HIDE DEF t
<1>6. /\ queue' \in [Loops -> Seq(TaskType)]
      /\ \A k \in Loops : \A i \in DOMAIN queue[k] :
            i \in DOMAIN queue'[k] /\ queue'[k][i] = queue[k][i]
      /\ \A k \in Loops : \A i \in DOMAIN queue'[k] :
            \/ i \in DOMAIN queue[k] /\ queue'[k][i] = queue[k][i]
            \/ /\ k = l /\ l # Base /\ i = Len(queue[k]) + 1 /\ queue'[k][i] = t
      /\ l # Base => \E i \in DOMAIN queue'[l] : queue'[l][i] = t
  <2>1. CASE UNCHANGED queue /\ l = Base
    BY <2>1, ConnFacts DEF LoopTypes
  <2>2. CASE Queued(l, t) /\ l # Base
    BY <1>4, <2>2, ConnFacts, QueueAfter
  <2>3. QED
    BY <1>2, <2>1, <2>2
<1>7. /\ state' \in [Conns -> StateType] /\ told' \in [Conns -> {"none", "up", "down"}]
      /\ \A d \in Conns : d # c => /\ state'[d] = state[d] /\ told'[d] = told[d]
                                   /\ loopOf'[d] = loopOf[d]
      /\ loopOf'[c] = l /\ loopOf' \in [Conns -> Loops]
      /\ state'[c] = (IF l = Base THEN "kConnected" ELSE "kConnecting")
      /\ told'[c] = (IF l = Base THEN "up" ELSE told[c])
  BY <1>2 DEF Told, IInv, ControlInv, TypeInv, ConnTypes, StateType
<1>8. ConnInv'
  <2>1. told'[c] = ToldIn(state'[c]) /\ state'[c] # "none"
    BY <1>1, <1>7 DEF IInv, ConnsInv, ConnInv, ToldIn
  <2>2. \A d \in Conns : d # c => told'[d] = ToldIn(state'[d])
    BY <1>7 DEF IInv, ConnsInv, ConnInv, ToldIn
  <2>3. \A d \in Conns : state'[d] = "none" <=> d \notin Made'
    BY <1>5, <1>7, <2>1 DEF IInv, ConnsInv, ConnInv
  <2>4. \A d \in Conns : ToldIn(state'[d]) = ToldIn(state[d])'
    BY DEF ToldIn
  <2>5. \A d \in Conns : told'[d] = ToldIn(state'[d])
    BY <2>1, <2>2
  <2>6. QED
    BY <2>3, <2>5 DEF ConnInv, ToldIn
<1>9. TaskInv'
  <2>1. ASSUME NEW task \in TaskType, NEW k, Placed(task, k)
        PROVE  Placed(task, k)'
    <3>1. task.conn # c
      BY <1>1, <2>1, ConnFacts, <1>5 DEF Placed, NoConn, Conns
    <3>2. QED
      BY <1>5, <1>7, <2>1, <3>1 DEF Placed
  <2>2. \A k \in Loops : /\ \A i \in DOMAIN queue[k] : queue[k][i] \in TaskType
                         /\ \A i \in DOMAIN batch[k] : batch[k][i] \in TaskType
    BY ConnFacts, ElementOfSeq DEF LoopTypes
  <2>3. Placed(t, l)'
    BY <1>4, <1>5, <1>7 DEF Placed
  <2>4. ASSUME NEW k \in Loops, NEW i \in DOMAIN queue'[k] PROVE Placed(queue[k][i], k)'
    <3>1. CASE i \in DOMAIN queue[k] /\ queue'[k][i] = queue[k][i]
      <4>1. Placed(queue[k][i], k) /\ queue[k][i] \in TaskType
        BY <2>2, <3>1 DEF IInv, ConnsInv, TaskInv
      <4>2. PICK task \in TaskType : task = queue[k][i]
        BY <4>1
      <4>3. Placed(task, k)' /\ task = queue'[k][i]
        BY <2>1, <3>1, <4>1, <4>2
      <4>4. QED
        BY <4>3, Zenon
    <3>2. CASE k = l /\ queue'[k][i] = t
      BY <2>3, <3>2
    <3>3. QED
      BY <1>6, <3>1, <3>2
  <2>5. ASSUME NEW k \in Loops, NEW i \in DOMAIN batch'[k] PROVE Placed(batch[k][i], k)'
    <3>1. Placed(batch[k][i], k) /\ batch[k][i] \in TaskType /\ batch' = batch
      BY <1>2, <2>2, <2>5 DEF IInv, ConnsInv, TaskInv
    <3>2. PICK task \in TaskType : task = batch[k][i]
      BY <3>1
    <3>3. Placed(task, k)' /\ task = batch'[k][i]
      BY <2>1, <3>1, <3>2
    <3>4. QED
      BY <3>3, Zenon
  <2>6. QED
    BY <2>4, <2>5 DEF TaskInv
<1>10. OrderInv'
  <2>1. ASSUME NEW k \in Loops
        PROVE  /\ FirstIn(queue[k])' /\ FirstIn(batch[k])'
               /\ (\A i \in DOMAIN batch[k], j \in DOMAIN queue[k] :
                     queue[k][j].what = "established" => batch[k][i].conn # queue[k][j].conn)'
    <3>1. FirstIn(batch[k])'
      BY <1>2 DEF IInv, ConnsInv, OrderInv, FirstIn
    <3>2. ASSUME NEW i \in DOMAIN queue'[k], NEW j \in DOMAIN queue'[k], i < j,
                 queue'[k][j].what = "established"
          PROVE  queue'[k][i].conn # queue'[k][j].conn
      <4>1. /\ DOMAIN queue[k] = 1..Len(queue[k]) /\ Len(queue[k]) \in Nat
            /\ FirstIn(queue[k])
        BY ConnFacts, LenProperties DEF LoopTypes, IInv, ConnsInv, OrderInv
      <4>2. CASE j \in DOMAIN queue[k] /\ queue'[k][j] = queue[k][j]
        <5>1. i \in DOMAIN queue[k] /\ queue'[k][i] = queue[k][i]
          BY <1>6, <3>2, <4>1, <4>2
        <5>2. QED
          BY <3>2, <4>1, <4>2, <5>1 DEF FirstIn
      <4>3. CASE j = Len(queue[k]) + 1 /\ queue'[k][j] = t
        <5>1. i \in DOMAIN queue[k] /\ queue'[k][i] = queue[k][i]
          BY <1>6, <3>2, <4>1, <4>3
        <5>2. QED
          BY <1>1, <1>4, <4>3, <5>1
      <4>4. QED
        BY <1>6, <4>2, <4>3
    <3>3. ASSUME NEW i \in DOMAIN batch'[k], NEW j \in DOMAIN queue'[k],
                 queue'[k][j].what = "established"
          PROVE  batch'[k][i].conn # queue'[k][j].conn
      BY <1>1, <1>2, <1>4, <1>6, <3>3 DEF IInv, ConnsInv, OrderInv
    <3>4. QED
      BY <3>1, <3>2, <3>3 DEF FirstIn
  <2>2. QED
    BY <2>1 DEF OrderInv
<1>11. /\ \A k \in Loops : \A what : \A d \in Conns :
             Pending(k, what, d) => Pending(k, what, d)' /\ d # c
       /\ \A k \in Loops : \A d \in Conns :
             Pending(k, "established", d)' /\ d # c => Pending(k, "established", d)
       /\ \A k \in Loops : Pending(k, "established", c)' => l # Base
       /\ l # Base => Pending(l, "established", c)'
  <2>1. \A what, d : Task(what, d).conn = d
    BY DEF Task
  <2>2. ASSUME NEW k \in Loops, NEW what, NEW d \in Conns, Pending(k, what, d)
        PROVE  Pending(k, what, d)' /\ d # c
    <3>1. ASSUME NEW i \in DOMAIN queue[k], queue[k][i] = Task(what, d)
          PROVE  Pending(k, what, d)' /\ d # c
      <4>1. i \in DOMAIN queue'[k] /\ queue'[k][i] = Task(what, d)
        BY <1>6, <3>1
      <4>2. d # c
        BY <1>1, <2>1, <3>1
      <4>3. QED
        BY <4>1, <4>2 DEF Pending
    <3>2. ASSUME NEW i \in DOMAIN batch[k], i > done[k], batch[k][i] = Task(what, d)
          PROVE  Pending(k, what, d)' /\ d # c
      <4>1. d # c
        BY <1>1, <2>1, <3>2
      <4>2. QED
        BY <1>2, <3>2, <4>1 DEF Pending
    <3>3. QED
      BY <2>2, <3>1, <3>2 DEF Pending
  <2>3. ASSUME NEW k \in Loops, NEW d \in Conns, Pending(k, "established", d)', d # c
        PROVE  Pending(k, "established", d)
    BY <1>2, <1>4, <1>6, <2>1, <2>3 DEF Pending
  <2>4. ASSUME NEW k \in Loops, Pending(k, "established", c)' PROVE l # Base
    <3>1. ASSUME NEW i \in DOMAIN queue'[k], queue'[k][i] = Task("established", c)
          PROVE  l # Base
      BY <1>1, <1>6, <2>1, <3>1
    <3>2. ASSUME NEW i \in DOMAIN batch'[k], batch'[k][i] = Task("established", c)
          PROVE  FALSE
      BY <1>1, <1>2, <2>1, <3>2
    <3>3. QED
      BY <2>4, <3>1, <3>2 DEF Pending
  <2>5. ASSUME l # Base PROVE Pending(l, "established", c)'
    BY <1>6, <2>5 DEF Pending, t
  <2>6. QED
    BY <2>2, <2>3, <2>4, <2>5
<1>12. PendingInv'
  <2>1. ASSUME NEW d \in Conns
        PROVE  /\ \A k \in Loops : Pending(k, "established", d)' => state'[d] = "kConnecting"
               /\ state'[d] = "kConnecting" => \/ Pending(loopOf[d], "established", d)'
                                               \/ loc'[loopOf'[d]] = "stopped"
    <3>1. CASE d = c
      <4>1. ASSUME state'[c] = "kConnecting" PROVE Pending(loopOf[c], "established", c)'
        <5>1. l # Base /\ loopOf'[c] = l
          BY <1>7, <4>1
        <5>2. QED
          BY <1>6, <5>1 DEF Pending, t
      <4>2. QED
        BY <1>7, <1>11, <3>1, <4>1
    <3>2. CASE d # c
      <4>1. ASSUME NEW k \in Loops, Pending(k, "established", d)'
            PROVE  state'[d] = "kConnecting"
        BY <1>7, <1>11, <3>2, <4>1 DEF IInv, ConnsInv, PendingInv
      <4>2. ASSUME state'[d] = "kConnecting"
            PROVE  \/ Pending(loopOf[d], "established", d)'
                   \/ loc'[loopOf'[d]] = "stopped"
        <5>1. PICK k \in Loops : k = loopOf[d]
          BY ConnFacts
        <5>2. Pending(k, "established", d) \/ loc[k] = "stopped"
          BY <1>7, <3>2, <4>2, <5>1 DEF IInv, ConnsInv, PendingInv
        <5>3. Pending(k, "established", d)' \/ loc'[k] = "stopped"
          BY <1>2, <1>11, <5>2
        <5>4. loopOf'[d] = k
          BY <1>7, <3>2, <5>1
        <5>5. QED
          BY <5>3, <5>4 DEF Pending
      <4>3. QED
        BY <4>1, <4>2
    <3>3. QED
      BY <3>1, <3>2
  <2>2. QED
    BY <2>1 DEF PendingInv, Pending
<1>13. HeldInv'
  <2>1. ASSUME NEW d \in Made, Settled(d)
        PROVE  Settled(d)'
    <3>1. PICK k \in Loops : k = loopOf[d]
      BY ConnFacts
    <3>2. d \in Conns /\ d # c /\ loopOf'[d] = k /\ state'[d] = state[d]
      BY <1>1, <1>5, <1>7, <3>1
    <3>3. \/ state[d] = "kDisconnected" \/ loc[k] = "stopped"
          \/ Pending(k, "destroyed", d)
      BY <2>1, <3>1 DEF Settled
    <3>4. \/ state'[d] = "kDisconnected" \/ loc'[k] = "stopped"
          \/ Pending(k, "destroyed", d)'
      BY <1>2, <1>11, <3>2, <3>3
    <3>5. QED
      BY <3>2, <3>4 DEF Settled, Pending
  <2>2. ASSUME NEW d \in Made'
        PROVE  /\ d \in Held' \/ Settled(d)'
               /\ d \in connections' \/ state'[d] = "kDisconnected"
    <3>1. CASE d = c
      BY <1>5, <3>1
    <3>2. CASE d # c
      <4>1. d \in Made /\ d \in Conns /\ state'[d] = state[d]
        BY <1>5, <1>7, <2>2, <3>2
      <4>2. d \in Held => d \in Held'
        BY <1>2, <1>5
      <4>3. QED
        BY <1>1, <1>2, <2>1, <4>1, <4>2 DEF IInv, ConnsInv, HeldInv
    <3>3. QED
      BY <3>1, <3>2
  <2>3. QED
    BY <2>2 DEF HeldInv
<1>14. ControlInv'
  <2> USE DEF IInv, ControlInv, TypeInv
  <2>1. listening' \in BOOLEAN /\ stolen' \in BOOLEAN
    BY <1>2, Zenon DEF AcceptTypes
  <2>2. AcceptTypes' /\ ClientInv'
    BY <1>1, <1>2, <2>1 DEF AcceptTypes, ClientInv, ConnTypes
  <2>3. ConnTypes'
    BY <1>2, <1>3, <1>7 DEF ConnTypes, Conns
  <2>4. StartTypes'
    BY <1>2, <1>3 DEF StartTypes, After
  <2>5. StartInv'
    BY <1>3 DEF StartInv
  <2>6. LoopTypes' /\ LoopInv' /\ ServerInv'
    BY <1>1, <1>2, <1>3, <1>6 DEF LoopTypes, LoopInv, ServerInv
  <2>7. QED
    BY <2>2, <2>3, <2>4, <2>5, <2>6
<1>15. SpareInv'
  BY <1>1, <1>2, <1>3 DEF IInv, SpareInv, Accepting
<1>16. FdInv'
  <2>1. Open' \subseteq Open \union {c}
    <3>1. SUFFICES ASSUME NEW d \in Conns, d # c, Exists(d)' PROVE Exists(d)
      BY DEF Open
    <3>2. CASE d \in connections'
      BY <1>2, <3>1, <3>2 DEF Exists
    <3>3. ASSUME NEW k \in Loops, NEW i \in DOMAIN queue'[k], queue'[k][i].conn = d
          PROVE  Exists(d)
      BY <1>4, <1>6, <3>1, <3>3 DEF Exists, Refers
    <3>4. ASSUME NEW k \in Loops, NEW i \in DOMAIN batch'[k], batch'[k][i].conn = d
          PROVE  Exists(d)
      BY <1>2, <3>4 DEF Exists, Refers
    <3>5. QED
      BY <3>1, <3>2, <3>3, <3>4 DEF Exists, Refers
  <2>2. Cardinality(Open') <= Cardinality(Open) + 1
    BY <2>1, OpenGrows
  <2>3. QED
    BY <1>1, <1>2, <2>2, UsedIs DEF FdInv, FdFree, IInv, ControlInv, TypeInv, AcceptTypes
<1>17. QED
  BY <1>8, <1>9, <1>10, <1>12, <1>13, <1>14, <1>15, <1>16 DEF IInv, ConnsInv

-----------------------------------------------------------------------------
(* The invariant holds.                                                    *)

LEMMA StepKeeps == IInv /\ [Next]_vars => IInv'
<1> SUFFICES ASSUME IInv, [Next]_vars PROVE IInv'
  OBVIOUS
<1>1. CASE UNCHANGED vars
  <2>1. UNCHANGED <<startVars, acceptVars, connVars, loopVars, serverVars>>
    BY <1>1 DEF vars
  <2>2. UNCHANGED <<numThreads, started, starting, loops, listening, idleFd, acc, backlog,
                    arrived, stolen, others, nextConnId, connections, state, told, loopOf,
                    next, queue, batch, done, loc, quit, server, unvisited>>
    BY <2>1 DEF startVars, acceptVars, connVars, loopVars, serverVars
  <2>3. Held' = Held
    BY <2>2 DEF Held
  <2>4. ConnsInv' /\ Open' = Open
    BY <2>2, <2>3, ConnsFrame
  <2>5. Accepting => loc'[Base] = "events"
    BY <2>2 DEF IInv, SpareInv
  <2>6. SpareInv' /\ FdInv'
    BY <2>2, <2>4, <2>5, DescriptorsFrame
  <2>7. ControlInv'
    BY <2>2 DEF IInv, ControlInv, TypeInv, StartTypes, AcceptTypes, ConnTypes, LoopTypes,
       StartInv, LoopInv, ServerInv, ClientInv
  <2>8. QED
    BY <2>4, <2>6, <2>7 DEF IInv
<1>2. ASSUME NEW t \in Starters, Start(t) \/ StartStep(t) PROVE IInv'
  BY <1>2, ControlKeeps, StartListeningKeeps DEF StartStep
<1>3. CASE QuitBase
  BY <1>3, ControlKeeps
<1>4. ASSUME NEW l \in Loops, EnterLoop(l) \/ LoopStep(l) PROVE IInv'
  BY <1>4, ControlKeeps, TakeBatchKeeps, RunEstablishedKeeps, RunDestroyedKeeps, EndIterationKeeps,
     RunListenKeeps, RunRemoveKeeps DEF LoopStep
<1>5. CASE AcceptorStep
  BY <1>5, NewConnectionKeeps, AcceptorKeeps DEF AcceptorStep, AcceptorTurn
<1>6. ASSUME NEW c \in Conns, HandleClose(c) PROVE IInv'
  BY <1>6, HandleCloseKeeps
<1>7. CASE ClientConnects \/ ClientLeaves \/ OtherOpens \/ OtherCloses
  BY <1>7, AcceptorKeeps DEF EnvStep
<1>8. CASE EndStep
  BY <1>8, ControlKeeps, VisitKeeps, MapDestroyedKeeps, BaseLoopDestroyedKeeps DEF EndStep
<1>9. QED
  BY <1>1, <1>2, <1>3, <1>4, <1>5, <1>6, <1>7, <1>8 DEF Next

\* The inductive invariant holds of every state a TcpServer comes to.
THEOREM Invariant == Spec => []IInv
<1>1. QED
  BY InitHolds, StepKeeps, PTL DEF Spec

LEMMA InvGivesTypes == IInv => TypeOK
<1> SUFFICES ASSUME IInv PROVE TypeOK
  OBVIOUS
<1> DEFINE InPool == {t \in Starters : starting[t] = "pool"}
<1>1. Cardinality(InPool) <= 1
  <2>1. CASE InPool = {}
    BY <2>1, FS_EmptySet
  <2>2. ASSUME NEW t \in InPool PROVE Cardinality(InPool) <= 1
    <3>1. \A u \in InPool : u = t
      BY <2>2 DEF IInv, ControlInv, StartInv
    <3>2. InPool = {t}
      BY <2>2, <3>1
    <3>3. Cardinality({t}) = 1
      BY FS_Singleton
    <3>4. QED
      BY <3>2, <3>3
  <2>3. QED
    BY <2>1, <2>2
<1>2. /\ loops \in 0..numThreads
      /\ next = 0 \/ next \in 0..(loops - 1)
  BY DEF IInv, ControlInv, TypeInv, StartTypes
<1>3. backlog \in 0..arrived
  BY DEF IInv, ControlInv, TypeInv, AcceptTypes, ConnTypes, ClientInv
<1>4. QED
  BY <1>1, <1>2, <1>3 DEF TypeOK, IInv, ControlInv, TypeInv, AcceptTypes, ConnTypes, FdInv

\* However many threads call start(), one starts the pool, which gets no more threads
\* than it was told to have; next_ is the index of one of them; no client is accepted
\* that did not connect, and no more descriptors are in use than there are.
THEOREM TypeCorrect == Spec => []TypeOK
BY Invariant, InvGivesTypes, PTL

\* Acceptor::handleRead() has its spare descriptor again when it returns, however many
\* clients it turned away, unless others took a descriptor while it did.
THEOREM SpareIsKept == Spec => []SpareKept
<1>1. IInv => SpareKept
  BY DEF IInv, SpareInv, SpareKept, Accepting, ControlInv, TypeInv, AcceptTypes
<1>2. QED
  BY <1>1, Invariant, PTL

-----------------------------------------------------------------------------
(* The promise to connections is kept.                                     *)

\* The phase of a connection, by its state.
PhaseByState(c) == IF c \notin Made THEN "none"
                   ELSE IF c \notin Open THEN "closed"
                   ELSE IF state[c] = "kConnecting" THEN "accepted"
                   ELSE IF state[c] = "kConnected" THEN "up" ELSE "down"

LEMMA OpenIsMade ==
  ASSUME IInv
  PROVE  Open \subseteq Made
<1>1. SUFFICES ASSUME NEW c \in Conns, Exists(c) PROVE c \in Made
  BY DEF Open
<1>2. CASE c \in connections
  BY <1>2, ConnFacts
<1>3. ASSUME NEW task, NEW l, Placed(task, l), task.conn = c PROVE c \in Made
  BY <1>3, ConnFacts DEF Placed
<1>4. CASE \E l \in Loops : Refers(queue[l], c) \/ Refers(batch[l], c)
  BY <1>3, <1>4 DEF Refers, IInv, ConnsInv, TaskInv
<1>5. QED
  BY <1>1, <1>2, <1>4 DEF Exists

LEMMA PhaseIs == IInv => \A c \in Conns : Phase(c) = PhaseByState(c)
<1> SUFFICES ASSUME IInv, NEW c \in Conns PROVE Phase(c) = PhaseByState(c)
  OBVIOUS
<1>1. /\ c \notin Made <=> state[c] = "none" /\ c >= nextConnId
      /\ c \notin Made => ~Exists(c)
      /\ state[c] \in StateType /\ told[c] = ToldIn(state[c])
  <2>1. c \in Nat /\ nextConnId \in Nat /\ c >= 1
    BY DEF Conns, IInv, ControlInv, TypeInv, ConnTypes
  <2>2. c \notin Made <=> c >= nextConnId
    BY <2>1 DEF Made
  <2>3. c \notin Made <=> state[c] = "none"
    BY ConnFacts
  <2>4. Exists(c) => c \in Made
    BY OpenIsMade DEF Open
  <2>5. QED
    BY <2>2, <2>3, <2>4 DEF IInv, ControlInv, TypeInv, ConnTypes, ConnsInv, ConnInv
<1>2. CASE c \notin Made
  BY <1>1, <1>2 DEF Phase, PhaseByState
<1>3. CASE c \in Made /\ ~Exists(c)
  BY <1>1, <1>3 DEF Phase, PhaseByState, Open
<1>4. CASE c \in Made /\ Exists(c)
  <2>1. state[c] \in {"kConnecting", "kConnected", "kDisconnected"}
    BY <1>1, <1>4, ConnFacts DEF StateType
  <2>2. QED
    BY <1>1, <1>4, <2>1, ConnFacts DEF Phase, PhaseByState, Open, ToldIn
<1>5. QED
  BY <1>2, <1>3, <1>4

LEMMA PhaseIsNext == IInv' => \A c \in Conns : Phase(c)' = PhaseByState(c)'
<1>1. (IInv => \A c \in Conns : Phase(c) = PhaseByState(c))'
  BY PhaseIs, PTL
<1>2. QED
  BY <1>1

\* A step of one connection.
LEMMA Turning ==
  ASSUME IInv, IInv', NEW c \in Conns, NEW from, NEW to,
         PhaseByState(c) = from, PhaseByState(c)' = to,
         \A d \in Conns : d # c => PhaseByState(d)' = PhaseByState(d),
         server' = "alive" <=> server = "alive"
  PROVE  Promise!Turns(c, {from}, to)
<1>1. \A d \in Conns : Phase(d) = PhaseByState(d) /\ Phase(d)' = PhaseByState(d)'
  BY PhaseIs, PhaseIsNext
<1>2. Phase(c) = from /\ Phase(c)' = to
  BY <1>1
<1>3. \A d \in Conns : d # c => Phase(d)' = Phase(d)
  BY <1>1
<1>4. [d \in Conns |-> Phase(d)]' = [[d \in Conns |-> Phase(d)] EXCEPT ![c] = to]
  BY <1>2, <1>3
<1>5. (server # "alive")' = (server # "alive")
  OBVIOUS
<1>6. QED
  BY <1>2, <1>4, <1>5 DEF Promise!Turns

\* A step that lets connections go, or none: while the server lives, only those that
\* were told down.
LEMMA Closing ==
  ASSUME IInv, IInv', UNCHANGED <<nextConnId, state>>, Open' \subseteq Open,
         server' = "alive" <=> server = "alive"
  PROVE  Promise!Close(Open \ Open')
<1> DEFINE S == Open \ Open'
<1>1. \A d \in Conns : Phase(d) = PhaseByState(d) /\ Phase(d)' = PhaseByState(d)'
  BY PhaseIs, PhaseIsNext
<1>2. Made' = Made
  BY DEF Made
<1>3. ASSUME NEW d \in Conns
      PROVE  Phase(d)' = IF d \in S THEN "closed" ELSE Phase(d)
  BY <1>1, <1>2, OpenIsMade DEF PhaseByState
<1>4. [d \in Conns |-> Phase(d)]' =
         [d \in Conns |-> IF d \in S THEN "closed" ELSE [e \in Conns |-> Phase(e)][d]]
  BY <1>3
<1>5. ASSUME NEW d \in S
      PROVE  /\ d \in Conns
             /\ Phase(d) = "down" \/ (server # "alive" /\ Phase(d) # "none")
  <2>1. d \in Conns /\ d \in Open /\ ~Exists(d)'
    BY <1>5 DEF Open
  <2>2. d \in Made
    <3>1. Phase(d)' = "closed"
      BY <1>3, <1>5, <2>1
    <3>2. QED
      BY <1>1, <1>2, <2>1, <3>1 DEF PhaseByState
  <2>3. Phase(d) # "none"
    BY <1>1, <2>1, <2>2 DEF PhaseByState
  <2>4. ASSUME server = "alive" PROVE Phase(d) = "down"
    <3>1. d \notin connections'
      BY <2>1 DEF Exists
    <3>2. state'[d] = "kDisconnected"
      BY <1>2, <2>2, <2>4, <3>1 DEF IInv, ConnsInv, HeldInv
    <3>3. QED
      BY <1>1, <2>1, <2>2, <3>2 DEF PhaseByState
  <2>5. QED
    BY <2>1, <2>3, <2>4
<1>6. (server # "alive")' = (server # "alive")
  OBVIOUS
<1>7. \A d \in S : \/ [e \in Conns |-> Phase(e)][d] = "down"
                   \/ server # "alive" /\ [e \in Conns |-> Phase(e)][d] # "none"
  BY <1>5
<1> HIDE DEF S
<1>8. Promise!Close(S)
  BY <1>4, <1>6, <1>7 DEF Promise!Close
<1>9. QED
  BY <1>8 DEF S

LEMMA ClosingStep ==
  ASSUME IInv, IInv', UNCHANGED <<nextConnId, state>>, Open' \subseteq Open,
         server' = "alive" <=> server = "alive"
  PROVE  Promise!Next
<1>1. Open \ Open' \in SUBSET Conns
  BY DEF Open
<1>2. QED
  BY <1>1, Closing DEF Promise!Next

LEMMA SameOpen ==
  ASSUME UNCHANGED <<connections, queue, batch>>
  PROVE  Open' = Open
BY DEF Open, Exists, Refers

\* Where no connection is told anything.
LEMMA QuietStep ==
  ASSUME IInv, IInv',
         \/ \E t \in Starters : Start(t) \/ StartStep(t)
         \/ QuitBase \/ MapDestroyed \/ AcceptorDestroyed \/ BaseLoopDestroyed
         \/ \E l \in Loops : EnterLoop(l) \/ TakeBatch(l) \/ EndIteration(l)
         \/ RunListen \/ RunRemove
         \/ \E l \in IoLoops : QuitLoop(l)
         \/ AcceptorTurn \/ EnvStep
  PROVE  Promise!Next
<1> USE ClosingStep
<1>1. ASSUME NEW t \in Starters, Start(t) \/ StartThread(t) PROVE Promise!Next
  BY <1>1, SameOpen DEF Start, StartThread, connVars, loopVars, serverVars
<1>2. ASSUME NEW t \in Starters, StartListening(t) PROVE Promise!Next
  <2>1. Task("listen", NoConn) \in TaskType /\ Task("listen", NoConn).conn \notin Conns
    BY TaskIsTask, ConnFacts
  <2>2. UNCHANGED queue \/ Queued(Base, Task("listen", NoConn))
    BY <1>2 DEF StartListening, Queued
  <2>3. Open' \subseteq Open
    BY <1>2, <2>1, <2>2, ConnFacts, OpenKept DEF StartListening, connVars
  <2>4. QED
    BY <1>2, <2>3 DEF StartListening, connVars, serverVars
<1>3. CASE QuitBase \/ AcceptorDestroyed \/ \E l \in Loops : EnterLoop(l)
  BY <1>3, SameOpen DEF EnterLoop, QuitBase, AcceptorDestroyed, connVars, loopVars,
     serverVars
<1>4. ASSUME NEW l \in IoLoops, QuitLoop(l) PROVE Promise!Next
  BY <1>4, SameOpen DEF QuitLoop, connVars
<1>5. CASE MapDestroyed
  BY <1>5, OpenKept DEF MapDestroyed, loopVars
<1>6. CASE BaseLoopDestroyed
  BY <1>6, BaseLoopDestroyedKeeps DEF BaseLoopDestroyed, connVars, serverVars
<1>7. ASSUME NEW l \in Loops, TakeBatch(l) PROVE Promise!Next
  BY <1>7, TakeBatchKeeps DEF TakeBatch, connVars, serverVars
<1>8. ASSUME NEW l \in Loops, EndIteration(l) PROVE Promise!Next
  BY <1>8, EndIterationKeeps DEF EndIteration, connVars, serverVars
<1>9. CASE RunListen
  BY <1>9, SameOpen DEF RunListen, connVars, serverVars
<1>10. CASE RunRemove
  <2>1. PICK c \in Made : c = ConnOfTask(Base)
    BY <1>10, RunningFacts, ConnFacts DEF RunRemove
  <2>2. loc[Base] = "tasks" /\ Exists(c) /\ state[c] = "kDisconnected" /\ server = "alive"
    BY <1>10, <2>1, RunningFacts, ConnFacts DEF Placed, ConnOfTask, RunRemove
  <2>3. Open' \subseteq Open
    BY <1>10, <2>1, <2>2, RemovedFacts DEF RunRemove, serverVars
  <2>4. QED
    BY <1>10, <2>3 DEF RunRemove, serverVars
<1>11. CASE AcceptorTurn \/ EnvStep
  <2>1. UNCHANGED <<connVars, loopVars, serverVars>>
    BY <1>11 DEF AcceptorTurn, EnvStep, AcceptFails, CloseIdle, AcceptAway, CloseAway,
       OpenIdle, AcceptorAt, ClientConnects, ClientLeaves, OtherOpens, OtherCloses,
       envUnchanged
  <2>2. QED
    BY <2>1, SameOpen DEF connVars, loopVars, serverVars
<1>12. QED
  BY <1>1, <1>2, <1>3, <1>4, <1>5, <1>6, <1>7, <1>8, <1>9, <1>10, <1>11 DEF StartStep

\* ~TcpServer begins: from now on, connections may be dropped as they are.
LEMMA StopStep ==
  ASSUME IInv, IInv', DestructorBegins
  PROVE  Promise!Stop
<1>1. UNCHANGED <<connections, queue, batch, state, told, nextConnId>> /\ server' = "visiting"
  BY DEF DestructorBegins, connVars, loopVars
<1>2. Open' = Open /\ Made' = Made
  BY <1>1, SameOpen DEF Made
<1>3. \A c \in Conns : PhaseByState(c)' = PhaseByState(c)
  BY <1>1, <1>2 DEF PhaseByState
<1>4. [c \in Conns |-> Phase(c)]' = [c \in Conns |-> Phase(c)]
  BY <1>3, PhaseIs, PhaseIsNext
<1>5. (server # "alive")' = TRUE
  BY <1>1
<1>6. QED
  BY <1>4, <1>5 DEF Promise!Stop

\* One connection, and no other, is told of a change of its state.
LEMMA ToldStep ==
  ASSUME IInv, IInv', NEW c \in Made, NEW s, NEW what, Told(c, s, what), Open' = Open,
         UNCHANGED <<nextConnId, server>>, Exists(c),
         \/ state[c] = "kConnecting" /\ s = "kConnected"
         \/ state[c] = "kConnected" /\ s = "kDisconnected"
  PROVE  Promise!Next
<1>1. Made' = Made /\ c \in Conns /\ c \in Open
  BY ConnFacts DEF Made, Open
<1>2. /\ state'[c] = s
      /\ \A d \in Conns : d # c => state'[d] = state[d]
  BY <1>1 DEF Told, IInv, ControlInv, TypeInv, ConnTypes
<1>3. \A d \in Conns : d # c => PhaseByState(d)' = PhaseByState(d)
  BY <1>1, <1>2 DEF PhaseByState
<1>4. CASE state[c] = "kConnecting" /\ s = "kConnected"
  <2>1. PhaseByState(c) = "accepted" /\ PhaseByState(c)' = "up"
    BY <1>1, <1>2, <1>4 DEF PhaseByState
  <2>2. Promise!Up(c)
    BY <1>1, <1>3, <2>1, Turning DEF Promise!Up
  <2>3. QED
    BY <1>1, <2>2 DEF Promise!Next
<1>5. CASE state[c] = "kConnected" /\ s = "kDisconnected"
  <2>1. PhaseByState(c) = "up" /\ PhaseByState(c)' = "down"
    BY <1>1, <1>2, <1>5 DEF PhaseByState
  <2>2. Promise!Down(c)
    BY <1>1, <1>3, <2>1, Turning DEF Promise!Down
  <2>3. QED
    BY <1>1, <2>2 DEF Promise!Next
<1>6. QED
  BY <1>4, <1>5

LEMMA HandleCloseStep ==
  ASSUME IInv, IInv', NEW c \in Conns, HandleClose(c)
  PROVE  Promise!Next
<1> PICK l \in Loops : l = loopOf[c]
  BY ConnFacts
<1>1. /\ loc[l] = "events" /\ state[c] = "kConnected" /\ Told(c, "kDisconnected", "down")
      /\ IF l = Base THEN Removed(c)
         ELSE Queued(Base, Task("remove", c)) /\ UNCHANGED connections
      /\ UNCHANGED <<nextConnId, loopOf, batch, server>>
  BY DEF HandleClose, Queued, serverVars
<1>2. c \in Made /\ Exists(c)
  BY <1>1, ConnFacts, ConnectedExists
<1>3. PICK what \in {"destroyed", "remove"} :
         /\ Queued(Base, Task(what, c))
         /\ connections' = connections \/ connections' = connections \ {c}
  BY <1>1 DEF Removed, Queued
<1>4. Task(what, c) \in TaskType /\ Task(what, c).conn = c /\ Base \in Loops
  BY ConnFacts, TaskIsTask
<1>5. Open' \subseteq Open
  BY <1>1, <1>2, <1>3, <1>4, OpenKept
<1>6. Open \subseteq Open'
  <2>1. SUFFICES ASSUME NEW d \in Conns, Exists(d) PROVE Exists(d)'
    BY DEF Open
  <2>2. /\ \A k \in Loops : \A i \in DOMAIN queue[k] :
              i \in DOMAIN queue'[k] /\ queue'[k][i] = queue[k][i]
        /\ \E i \in DOMAIN queue'[Base] : queue'[Base][i] = Task(what, c)
    BY <1>3, <1>4, ConnFacts, QueueAfter
  <2>3. CASE d = c
    BY <1>4, <2>2, <2>3 DEF Exists, Refers
  <2>4. CASE d # c
    BY <1>1, <1>3, <2>1, <2>2, <2>4 DEF Exists, Refers
  <2>5. QED
    BY <2>3, <2>4
<1>7. Open' = Open
  BY <1>5, <1>6, Zenon
<1>8. UNCHANGED <<nextConnId, server>>
  BY <1>1
<1>9. QED
  BY <1>1, <1>2, <1>7, <1>8, ToldStep

LEMMA RunTaskStep ==
  ASSUME IInv, IInv', NEW l \in Loops, RunEstablished(l) \/ RunDestroyed(l)
  PROVE  Promise!Next
<1> PICK c \in Made : c = ConnOfTask(l)
  BY RunningFacts DEF RunEstablished, RunDestroyed
<1>1. /\ UNCHANGED <<nextConnId, connections, queue, batch, server>>
      /\ Open' = Open /\ Exists(c)
  BY RunningFacts, SameOpen DEF RunEstablished, RunDestroyed, serverVars
<1>2. CASE RunEstablished(l)
  <2>1. state[c] = "kConnecting" /\ Told(c, "kConnected", "up")
    BY <1>1, <1>2, EstablishedOnce DEF RunEstablished
  <2>2. QED
    BY <1>1, <2>1, ToldStep
<1>3. CASE RunDestroyed(l) /\ state[c] = "kConnected"
  <2>1. Told(c, "kDisconnected", "down")
    BY <1>3 DEF RunDestroyed, ConnectDestroyed
  <2>2. QED
    BY <1>1, <1>3, <2>1, ToldStep
<1>4. CASE RunDestroyed(l) /\ state[c] # "kConnected"
  BY <1>1, <1>4, ClosingStep DEF RunDestroyed, ConnectDestroyed
<1>5. QED
  BY <1>2, <1>3, <1>4

LEMMA VisitStep ==
  ASSUME IInv, IInv', NEW c \in Conns, Visit(c)
  PROVE  Promise!Next
<1> PICK l \in Loops : l = loopOf[c]
  BY ConnFacts
<1>1. /\ IF l = Base THEN ConnectDestroyed(c) /\ UNCHANGED queue
         ELSE Queued(l, Task("destroyed", c)) /\ UNCHANGED <<state, told>>
      /\ UNCHANGED <<nextConnId, connections, batch, server>>
      /\ c \in Made /\ Exists(c)
  BY ConnFacts DEF Visit, Queued, Exists
<1>2. CASE l = Base /\ state[c] = "kConnected"
  <2>1. Told(c, "kDisconnected", "down") /\ Open' = Open
    BY <1>1, <1>2, SameOpen DEF ConnectDestroyed
  <2>2. QED
    BY <1>1, <1>2, <2>1, ToldStep
<1>3. CASE l = Base /\ state[c] # "kConnected"
  BY <1>1, <1>3, SameOpen, ClosingStep DEF ConnectDestroyed
<1>4. CASE l # Base
  <2>1. Task("destroyed", c) \in TaskType /\ Task("destroyed", c).conn = c
    BY ConnFacts, TaskIsTask
  <2>2. Open' \subseteq Open
    BY <1>1, <1>4, <2>1, OpenKept
  <2>3. QED
    BY <1>1, <1>4, <2>2, ClosingStep
<1>5. QED
  BY <1>2, <1>3, <1>4

LEMMA NewConnectionStep ==
  ASSUME IInv, IInv', NewConnection
  PROVE  Promise!Next
<1> PICK c \in Conns : c = nextConnId
  BY NewIsNew
<1> PICK l \in Loops : l = NextLoop
  BY NewIsNew
<1>1. /\ c \notin Made /\ nextConnId' = c + 1 /\ connections' = connections \cup {c}
      /\ \/ l = Base /\ Told(c, "kConnected", "up") /\ UNCHANGED queue
         \/ /\ l # Base /\ Queued(l, Task("established", c))
            /\ state' = [state EXCEPT ![c] = "kConnecting"]
      /\ UNCHANGED <<batch, server>>
  BY NewIsNew DEF NewConnection, Queued, serverVars
<1>2. Made' = Made \union {c} /\ c \in connections'
  BY <1>1, ConnFacts DEF Made, Conns
<1>3. Task("established", c) \in TaskType /\ Task("established", c).conn = c
  BY ConnFacts, TaskIsTask
<1>4. /\ \A k \in Loops : \A i \in DOMAIN queue[k] :
            i \in DOMAIN queue'[k] /\ queue'[k][i] = queue[k][i]
      /\ \A k \in Loops : \A i \in DOMAIN queue'[k] :
            \/ i \in DOMAIN queue[k] /\ queue'[k][i] = queue[k][i]
            \/ queue'[k][i].conn = c
  <2>1. CASE UNCHANGED queue
    BY <2>1
  <2>2. CASE Queued(l, Task("established", c))
    BY <1>3, <2>2, ConnFacts, QueueAfter
  <2>3. QED
    BY <1>1, <2>1, <2>2
<1>5. \A d \in Conns : d # c => (Exists(d)' <=> Exists(d))
  <2>1. ASSUME NEW d \in Conns, d # c, Exists(d) PROVE Exists(d)'
    BY <1>1, <1>4, <2>1 DEF Exists, Refers
  <2>2. ASSUME NEW d \in Conns, d # c, Exists(d)' PROVE Exists(d)
    BY <1>1, <1>4, <2>2 DEF Exists, Refers
  <2>3. QED
    BY <2>1, <2>2
<1>6. c \in Open' /\ \A d \in Conns : d # c => (d \in Open' <=> d \in Open)
  BY <1>2, <1>5 DEF Open, Exists
<1>7. \A d \in Conns : d # c => state'[d] = state[d]
  BY <1>1 DEF Told, IInv, ControlInv, TypeInv, ConnTypes
<1>8. \A d \in Conns : d # c => PhaseByState(d)' = PhaseByState(d)
  BY <1>2, <1>6, <1>7 DEF PhaseByState
<1>9. PhaseByState(c) = "none"
  BY <1>1 DEF PhaseByState
<1>10. CASE l = Base
  <2>1. state'[c] = "kConnected"
    BY <1>1, <1>10 DEF Told, IInv, ControlInv, TypeInv, ConnTypes
  <2>2. PhaseByState(c)' = "up"
    BY <1>2, <1>6, <2>1 DEF PhaseByState
  <2>3. Promise!AcceptUp(c)
    BY <1>1, <1>8, <1>9, <2>2, Turning DEF Promise!AcceptUp
  <2>4. QED
    BY <2>3 DEF Promise!Next
<1>11. CASE l # Base
  <2>1. state'[c] = "kConnecting"
    BY <1>1, <1>11 DEF IInv, ControlInv, TypeInv, ConnTypes
  <2>2. PhaseByState(c)' = "accepted"
    BY <1>2, <1>6, <2>1 DEF PhaseByState
  <2>3. Promise!Accept(c)
    BY <1>1, <1>8, <1>9, <2>2, Turning DEF Promise!Accept
  <2>4. QED
    BY <2>3 DEF Promise!Next
<1>12. QED
  BY <1>10, <1>11

LEMMA StepRefines == IInv /\ IInv' /\ [Next]_vars => [Promise!Next]_(Promise!vars)
<1> SUFFICES ASSUME IInv, IInv', [Next]_vars PROVE [Promise!Next]_(Promise!vars)
  OBVIOUS
<1>1. CASE UNCHANGED vars
  <2>1. UNCHANGED <<startVars, acceptVars, connVars, loopVars, serverVars>>
    BY <1>1 DEF vars
  <2>2. UNCHANGED <<nextConnId, connections, state, queue, batch, server>>
    BY <2>1 DEF connVars, loopVars, serverVars
  <2>3. QED
    BY <2>2, SameOpen, ClosingStep
<1>2. ASSUME NEW t \in Starters, Start(t) \/ StartStep(t) PROVE Promise!Next
  BY <1>2, QuietStep
<1>3. CASE QuitBase
  BY <1>3, QuietStep
<1>4. ASSUME NEW l \in Loops, EnterLoop(l) \/ LoopStep(l) PROVE Promise!Next
  BY <1>4, QuietStep, RunTaskStep DEF LoopStep
<1>5. CASE AcceptorStep
  BY <1>5, QuietStep, NewConnectionStep DEF AcceptorStep, AcceptorTurn
<1>6. ASSUME NEW c \in Conns, HandleClose(c) PROVE Promise!Next
  BY <1>6, HandleCloseStep
<1>7. CASE ClientConnects \/ ClientLeaves \/ OtherOpens \/ OtherCloses
  BY <1>7, QuietStep DEF EnvStep
<1>8. CASE EndStep
  <2>1. CASE DestructorBegins
    BY <2>1, StopStep DEF Promise!Next
  <2>2. CASE \/ MapDestroyed \/ AcceptorDestroyed \/ BaseLoopDestroyed
             \/ \E l \in IoLoops : QuitLoop(l)
    BY <2>2, QuietStep
  <2>3. QED
    BY <1>8, <2>1, <2>2, VisitStep DEF EndStep
<1>9. QED
  BY <1>1, <1>2, <1>3, <1>4, <1>5, <1>6, <1>7, <1>8 DEF Next

\* A TcpServer keeps its promise: every connection is told up once, then down once, and
\* is closed only then, whatever thread of whatever loop does which part of it when;
\* only after ~TcpServer has begun may one be dropped before.
THEOREM Refinement == Spec => ImplementsConnections
<1>1. Init => Promise!Init
  <2> SUFFICES ASSUME Init PROVE Promise!Init
    OBVIOUS
  <2>1. IInv /\ Made = {}
    BY InitHolds DEF Init, Made
  <2>2. \A c \in Conns : Phase(c) = "none"
    BY <2>1, PhaseIs DEF PhaseByState
  <2>3. [c \in Conns |-> Phase(c)] = [c \in Conns |-> "none"]
    BY <2>2
  <2>4. (server # "alive") = FALSE
    BY DEF Init
  <2>5. QED
    BY <2>3, <2>4 DEF Promise!Init
<1>2. IInv /\ IInv' /\ [Next]_vars => [Promise!Next]_(Promise!vars)
  BY StepRefines
<1>3. QED
  BY <1>1, <1>2, Invariant, PTL DEF Spec, ImplementsConnections, Promise!Spec
=============================================================================
