---------------------------- MODULE AsyncLogging ----------------------------
(***************************************************************************)
(* AsyncLogging (base/src/AsyncLogging.cc): threads append log lines to    *)
(* the current one of a few large buffers under a mutex; a backend thread  *)
(* takes the buffers, at the latest every flushInterval_ seconds, writes   *)
(* them without the mutex and gives two back as spares.  owner is the      *)
(* thread that calls start() and stop().                                   *)
(*                                                                         *)
(* A line is a model value with a length; a buffer is the sequence of its  *)
(* lines.  Each line is logged at most once.                               *)
(***************************************************************************)
EXTENDS Naturals, SequencesExt

CONSTANTS Lines,
          Length,      \* bytes (units) of each line
          Capacity,    \* kLargeBuffer, in units
          MaxToWrite,  \* 25: more buffers than this are not written
          LogDuringStop, \* do the threads go on logging while stop() runs?
          NoBuffer     \* a unique_ptr that is nullptr

ASSUME LengthType == Length \in [Lines -> Nat]
ASSUME CapacityType == Capacity \in Nat
\* Two buffers are kept when the rest is dropped.
ASSUME MaxToWriteType == MaxToWrite \in Nat \ {0, 1}
ASSUME LogDuringStopType == LogDuringStop \in BOOLEAN
ASSUME NoBufferApart == NoBuffer \notin Seq(Lines)

VARIABLES
    running,                             \* running_
    owner,                               \* where the owner is, see OwnerAt
    backend,                             \* where threadFunc() is, see BackendAt
    currentBuffer, nextBuffer, buffers,  \* guarded by mutex_
    \* the backend's own: its spares, what it took, the buffer to be written next
    newBuffer1, newBuffer2, buffersToWrite, next,
    file,                                \* lines handed to LogFile::append()
    \* history: lines given to append(), in order; lines thrown away with their
    \* buffer
    logged, dropped

frontVars   == <<currentBuffer, nextBuffer, buffers>>
backVars    == <<newBuffer1, newBuffer2, buffersToWrite, next>>
historyVars == <<logged, dropped>>
vars == <<running, owner, backend, frontVars, backVars, file, historyVars>>

\* new      start() not called           starting  in latch_.wait()
\* started  start() has returned         stopping  in stop(), running_ cleared
\* joining  in thread_.join()            stopped   stop() has returned
OwnerAt == {"new", "starting", "started", "stopping", "joining", "stopped"}

\* unborn   no thread                    born      before latch_.countDown()
\* while    at `while (running_)`        locking   at the MutexLockGuard
\* waiting  in cond_.waitForSeconds()    woken     about to hold the mutex again
\* taken    has swapped, mutex released  writing   in the loop over buffersToWrite
\* refill   written, making spares       exited    threadFunc() has returned
BackendAt == {"unborn", "born", "while", "locking", "waiting", "woken", "taken",
              "writing", "refill", "exited"}

Init == /\ running = FALSE
        /\ owner = "new"
        /\ backend = "unborn"
        /\ currentBuffer = <<>> /\ nextBuffer = <<>> /\ buffers = <<>>
        /\ newBuffer1 = <<>> /\ newBuffer2 = <<>>
        /\ buffersToWrite = <<>> /\ next = 1
        /\ file = <<>>
        /\ logged = <<>> /\ dropped = {}

-----------------------------------------------------------------------------
(* FixedBuffer and Condition.                                              *)

\* cur_ - data_: the bytes of the lines, added up.
Used(buffer) ==
    LET used[i \in 0..Len(buffer)] ==
            IF i = 0 THEN 0 ELSE used[i - 1] + Length[buffer[i]]
    IN  used[Len(buffer)]

Avail(buffer) == Capacity - Used(buffer)

\* `avail() > len`, in append() and in FixedBuffer::append() alike.
Fits(buffer, line) == Avail(buffer) > Length[line]

\* FixedBuffer::append() ignores a line that does not fit.
Filled(buffer, line) == IF Fits(buffer, line) THEN Append(buffer, line) ELSE buffer

\* Mutant: the recycled buffer keeps what it held.
Reset_Never(buffer) == buffer

\* FixedBuffer::reset()
Reset(buffer) == <<>>

\* cond_.notify(): the backend leaves the wait, if it is there, and is not told
\* otherwise.
Notified == IF backend = "waiting" THEN "woken" ELSE backend

-----------------------------------------------------------------------------
(* The threads that log.                                                   *)

\* `nextBuffer_` if there is one, else a new one.
SpareOrNew == IF nextBuffer # NoBuffer THEN nextBuffer ELSE <<>>

\* Mutant: the full buffer is put in front of those that wait.
Queued_InFront == <<currentBuffer>> \o buffers

\* buffers_.push_back(std::move(currentBuffer_))
Queued == Append(buffers, currentBuffer)

\* append(), under mutex_.  Bound: no call once stop() has returned.
AppendLine(line) ==
    /\ owner \in {"new", "starting", "started"}
         \/ (LogDuringStop /\ owner # "stopped")
    /\ ~Contains(logged, line)
    /\ logged' = Append(logged, line)
    /\ IF Fits(currentBuffer, line)
       THEN /\ currentBuffer' = Append(currentBuffer, line)
            /\ UNCHANGED <<nextBuffer, buffers, backend>>
       ELSE /\ buffers' = Queued
            /\ currentBuffer' = Filled(SpareOrNew, line)
            /\ nextBuffer' = NoBuffer
            /\ backend' = Notified
    /\ UNCHANGED <<running, owner, backVars, file, dropped>>

-----------------------------------------------------------------------------
(* The owner.                                                              *)

\* start() up to latch_.wait().
Start == /\ owner = "new"
         /\ running' = TRUE
         /\ owner' = "starting"
         /\ backend' = "born"
         /\ UNCHANGED <<frontVars, backVars, file, historyVars>>

\* latch_.wait() returns.
StartReturns == /\ owner = "starting"
                /\ backend # "born"
                /\ owner' = "started"
                /\ UNCHANGED <<running, backend, frontVars, backVars, file,
                               historyVars>>

\* Mutant: stop() does not clear running_.
Stopped_Forgotten == running
Stopped == FALSE

\* stop(): `running_ = false;`
Stop == /\ owner = "started"
        /\ running' = Stopped
        /\ owner' = "stopping"
        /\ UNCHANGED <<backend, frontVars, backVars, file, historyVars>>

\* stop(): cond_.notify(), without mutex_.
StopNotifies == /\ owner = "stopping"
                /\ owner' = "joining"
                /\ backend' = Notified
                /\ UNCHANGED <<running, frontVars, backVars, file, historyVars>>

\* thread_.join() returns.
StopReturns == /\ owner = "joining"
               /\ backend = "exited"
               /\ owner' = "stopped"
               /\ UNCHANGED <<running, backend, frontVars, backVars, file,
                              historyVars>>

-----------------------------------------------------------------------------
(* The backend: threadFunc().                                              *)

CountDown == /\ backend = "born"
             /\ backend' = "while"
             /\ UNCHANGED <<running, owner, frontVars, backVars, file, historyVars>>

\* `while (running_)`: another round, or the last flush and the end.
CheckRunning == /\ backend = "while"
                /\ backend' = IF running THEN "locking" ELSE "exited"
                /\ UNCHANGED <<running, owner, frontVars, backVars, file,
                               historyVars>>

\* `if (buffers_.empty()) cond_.waitForSeconds(...)`, once, not in a loop.
Wait == /\ backend = "locking"
        /\ buffers = <<>>
        /\ backend' = "waiting"
        /\ UNCHANGED <<running, owner, frontVars, backVars, file, historyVars>>

\* The interval is over (or the wakeup is spurious).
Timeout == /\ backend = "waiting"
           /\ backend' = "woken"
           /\ UNCHANGED <<running, owner, frontVars, backVars, file, historyVars>>

\* Mutant: only full buffers are taken.
MayTake_FullOnly == backend \in {"locking", "woken"} /\ buffers # <<>>

\* The mutex is held and the wait, if any, is over.
MayTake == backend = "woken" \/ (backend = "locking" /\ buffers # <<>>)

\* The exchange: everything is taken, full or not, and replaced by the spares.
TakeBuffers == /\ MayTake
               /\ backend' = "taken"
               /\ buffersToWrite' = Queued
               /\ buffers' = <<>>
               /\ currentBuffer' = newBuffer1
               /\ newBuffer1' = NoBuffer
               /\ IF nextBuffer = NoBuffer
                  THEN nextBuffer' = newBuffer2 /\ newBuffer2' = NoBuffer
                  ELSE UNCHANGED <<nextBuffer, newBuffer2>>
               /\ UNCHANGED <<running, owner, next, file, historyVars>>

\* Mutant: one buffer is kept, too few for the spares.
Kept_One == 1

\* How many buffers survive a backlog, and how many are recycled.
Kept == 2

\* A backlog of more than MaxToWrite buffers is cut down to the first two.
DropBacklog == /\ backend = "taken"
               /\ backend' = "writing"
               /\ IF Len(buffersToWrite) > MaxToWrite
                  THEN /\ buffersToWrite' = SubSeq(buffersToWrite, 1, Kept)
                       /\ dropped' = dropped \union
                            UNION {ToSet(buffersToWrite[i]) :
                                     i \in (Kept + 1)..Len(buffersToWrite)}
                  ELSE UNCHANGED <<buffersToWrite, dropped>>
               /\ UNCHANGED <<running, owner, frontVars, newBuffer1, newBuffer2,
                              next, file, logged>>

\* output.append() of one buffer, and of no more when all are written.
WriteBuffer ==
    /\ backend = "writing"
    /\ IF next <= Len(buffersToWrite)
       THEN /\ file' = file \o buffersToWrite[next]
            /\ next' = next + 1
            /\ UNCHANGED backend
       ELSE /\ backend' = "refill"
            /\ UNCHANGED <<file, next>>
    /\ UNCHANGED <<running, owner, frontVars, newBuffer1, newBuffer2,
                   buffersToWrite, historyVars>>

\* buffersToWrite.resize(2), if there are more.
Resized == IF Len(buffersToWrite) > 2 THEN SubSeq(buffersToWrite, 1, 2)
                                      ELSE buffersToWrite

\* Mutant: the spare is not replaced.
Replaced_Never(spare, s) == spare

\* A spare that was given away is replaced by the last of s, emptied.
Replaced(spare, s) == IF spare = NoBuffer THEN Reset(Last(s)) ELSE spare

\* What is left of s when one spare has been taken from its back, if needed.
AfterSpare(spare, s) == IF spare = NoBuffer THEN Front(s) ELSE s

\* The two spares are made of written buffers; the others are freed.
Refill ==
    /\ backend = "refill"
    /\ backend' = "while"
    /\ newBuffer1' = Replaced(newBuffer1, Resized)
    /\ newBuffer2' = Replaced(newBuffer2, AfterSpare(newBuffer1, Resized))
    /\ buffersToWrite' = <<>> /\ next' = 1
    /\ UNCHANGED <<running, owner, frontVars, file, historyVars>>

-----------------------------------------------------------------------------
BackendNext == \/ CountDown \/ CheckRunning \/ Wait \/ Timeout \/ TakeBuffers
               \/ DropBacklog \/ WriteBuffer \/ Refill

OwnerNext == Start \/ StartReturns \/ Stop \/ StopNotifies \/ StopReturns

Next == BackendNext \/ OwnerNext \/ \E line \in Lines : AppendLine(line)

\* The backend's thread runs and its timed wait ends; the owner finishes what it
\* began, but need not begin it.
Fairness == /\ WF_vars(BackendNext)
            /\ WF_vars(StartReturns) /\ WF_vars(StopNotifies) /\ WF_vars(StopReturns)

SafetySpec == Init /\ [][Next]_vars
Spec == SafetySpec /\ Fairness

-----------------------------------------------------------------------------
(* Properties.                                                             *)

BufferType == Seq(Lines)
SpareType == BufferType \union {NoBuffer}

\* The type of every variable; in particular there is always a currentBuffer_
\* for append() to write to.
TypeOK == /\ running \in BOOLEAN
          /\ owner \in OwnerAt
          /\ backend \in BackendAt
          /\ currentBuffer \in BufferType
          /\ nextBuffer \in SpareType
          /\ buffers \in Seq(BufferType)
          /\ newBuffer1 \in SpareType /\ newBuffer2 \in SpareType
          /\ buffersToWrite \in Seq(BufferType) /\ next \in Nat \ {0}
          /\ file \in Seq(Lines) /\ logged \in Seq(Lines)
          /\ dropped \subseteq Lines

\* The two assert(!buffersToWrite.empty()) (lines 124 and 131): there are as many
\* written buffers as spares to be made, however the swaps and appends fell.
EnoughBuffers ==
    Len(buffersToWrite) >= (IF newBuffer1 = NoBuffer THEN 1 ELSE 0)
                           + (IF newBuffer2 = NoBuffer THEN 1 ELSE 0)
SparesSuffice == backend = "refill" => EnoughBuffers

\* The lines of buffers i, i + 1, ... of s.
LinesFrom(s, i) == FlattenSeq(SubSeq(s, i, Len(s)))

\* The first buffer that the backend has taken and not yet written.
FirstToWrite == IF backend = "taken" THEN 1
                ELSE IF backend = "writing" THEN next ELSE Len(buffersToWrite) + 1

\* Every line on its way, the oldest first: written, taken by the backend, in a
\* full buffer and in the current one.
Output == file \o LinesFrom(buffersToWrite, FirstToWrite)
               \o (FlattenSeq(buffers) \o currentBuffer)

\* A line for which a whole buffer is too small is lost without a trace; all
\* others are to be written.
Writable(line) == Length[line] < Capacity

\* append() was called for x before it was called for y.
LoggedBefore(x, y) ==
    \E k, l \in DOMAIN logged : k < l /\ logged[k] = x /\ logged[l] = y

\* The file has the writable lines, each once and in the order of their
\* append()s, up to those still in some buffer; only lines of a dropped backlog
\* are missing.
LinesInOrder ==
    /\ ToSet(Output) = {line \in ToSet(logged) : Writable(line)} \ dropped
    /\ \A i, j \in DOMAIN Output : i < j => LoggedBefore(Output[i], Output[j])

Settled(line) == line \in dropped \/ Contains(file, line)

\* While the logger runs, each writable line reaches the file within bounded
\* rounds of the backend, without any more lines being logged, unless dropped.
EveryLineWritten ==
    \A line \in Lines :
        (owner = "started" /\ Contains(logged, line) /\ Writable(line))
            ~> (Settled(line) \/ owner # "started")

\* stop() returns, also when its notify() comes before the backend waits.
StopCompletes == (owner = "stopping") ~> (owner = "stopped")

\* stop() is a graceful exit (AsyncLogging.h:42): what was logged before it was
\* called is in the file when it returns.  (To be checked where nothing is
\* logged any more once stop() has been called.)
StopKeepsLines ==
    owner = "stopped" =>
        \A i \in DOMAIN logged : Writable(logged[i]) => Settled(logged[i])
=============================================================================
