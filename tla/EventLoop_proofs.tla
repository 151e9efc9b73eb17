-------------------------- MODULE EventLoop_proofs --------------------------
(***************************************************************************)
(* For any number of threads, tasks and channels and any MaxPending: the   *)
(* loop implements the abstract task queue and, unless its own thread has  *)
(* queued before loop() ran, never blocks with work pending and no wakeup  *)
(* due.                                                                    *)
(***************************************************************************)
EXTENDS EventLoop, SequenceTheorems, TLAPS

-----------------------------------------------------------------------------
(* The inductive invariants.                                               *)

\* callingPendingFunctors_ is true exactly while a batch is being run.
FlagInv == callingPendingFunctors <=> pc \in {"batch", "functor"}

\* There is a batch only while one is being run.
BatchInv == pc \notin {"batch", "functor"} => functors = <<>>

\* What holds however the loop is used.
LoopInv == TypeOK /\ FlagInv /\ BatchInv

\* Until the wakeup channel is handled in this turn, a pending task has a
\* wakeup due.  Between that and the swap (dispatch, handler) it needs none.
PendingInv == (/\ pc \in {"start", "while", "poll", "batch", "functor"}
               /\ pendingFunctors # <<>>) => WakeupDue

\* A loop that went past `while(!quit_)` and now sees quit_ set was told by
\* another thread, which wakes it.
QuitInv == (pc = "poll" /\ quit) => WakeupDue

\* What NoLostWakeup needs in addition.
WakeInv == PendingInv /\ QuitInv

-----------------------------------------------------------------------------
LEMMA LoopInvInit == Init => LoopInv
<1> SUFFICES ASSUME Init PROVE LoopInv
  OBVIOUS
<1>1. TypeOK
  BY EmptySeq DEF Init, TypeOK, Locations
<1>2. FlagInv /\ BatchInv
  BY DEF Init, FlagInv, BatchInv
<1>3. QED
  BY <1>1, <1>2 DEF LoopInv

\* Every step of the loop's thread and of its callers preserves LoopInv.
LEMMA LoopInvStep == LoopInv /\ [Next]_vars => LoopInv'
<1> SUFFICES ASSUME LoopInv, [Next]_vars PROVE LoopInv'
  OBVIOUS
<1> USE DEF LoopInv, TypeOK, FlagInv, BatchInv, Locations
<1>1. CASE LoopStart
  BY <1>1 DEF LoopStart
<1>2. CASE LoopCheck
  BY <1>2 DEF LoopCheck
<1>3. CASE Poll
  BY <1>3 DEF Poll
<1>4. CASE HandleRead
  BY <1>4 DEF HandleRead
<1>5. ASSUME NEW c \in Channels, Dispatch(c) PROVE LoopInv'
  BY <1>5 DEF Dispatch
<1>6. CASE HandlerReturns
  BY <1>6 DEF HandlerReturns
<1>7. CASE SwapPending
  BY <1>7 DEF SwapPending
<1>8. CASE RunFunctor
  <2>1. Head(functors) \in Functors /\ Tail(functors) \in Seq(Functors)
    BY <1>8, HeadTailProperties DEF RunFunctor
  <2>2. QED
    BY <1>8, <2>1 DEF RunFunctor
<1>9. CASE FunctorReturns
  BY <1>9 DEF FunctorReturns
<1>10. CASE BatchDone
  BY <1>10 DEF BatchDone
<1>11. ASSUME NEW t \in AllThreads, NEW f \in Functors, QueueInLoop(t, f)
       PROVE  LoopInv'
  <2>1. Append(pendingFunctors, f) \in Seq(Functors)
    OBVIOUS
  <2>2. QED
    BY <1>11, <2>1 DEF QueueInLoop
<1>12. ASSUME NEW t \in AllThreads, Quit(t) PROVE LoopInv'
  BY <1>12 DEF Quit
<1>13. ASSUME NEW t \in AllThreads, Wakeup(t) PROVE LoopInv'
  BY <1>13 DEF Wakeup
<1>14. CASE UNCHANGED vars
  BY <1>14 DEF vars
<1>15. QED
  BY <1>1, <1>2, <1>3, <1>4, <1>5, <1>6, <1>7, <1>8, <1>9, <1>10, <1>11,
     <1>12, <1>13, <1>14 DEF Next, LoopThreadNext, CallerNext

\* The shape of the loop's state: types, and when there is a batch.
THEOREM LoopInvariant == SafetySpec => []LoopInv
BY LoopInvInit, LoopInvStep, PTL DEF SafetySpec

\* Type correctness of the event loop.
THEOREM TypeCorrect == SafetySpec => []TypeOK
<1>1. LoopInv => TypeOK
  BY DEF LoopInv
<1>2. QED
  BY <1>1, LoopInvariant, PTL

-----------------------------------------------------------------------------
LEMMA WakeInvInit == Init => WakeInv
BY DEF Init, WakeInv, PendingInv, QuitInv

\* A pending task and a late quit_ keep their wakeup through every step.
LEMMA WakeInvStep ==
  ASSUME ~QueueBeforeLoop, LoopInv, WakeInv, [Next]_vars
  PROVE  WakeInv'
<1> USE DEF WakeInv, PendingInv, QuitInv, WakeupDue
<1>1. CASE LoopStart
  BY <1>1 DEF LoopStart
<1>2. CASE LoopCheck
  BY <1>2 DEF LoopCheck, LoopInv, TypeOK
<1>3. CASE Poll
  BY <1>3 DEF Poll
<1>4. CASE HandleRead
  BY <1>4 DEF HandleRead
<1>5. ASSUME NEW c \in Channels, Dispatch(c) PROVE WakeInv'
  BY <1>5 DEF Dispatch
<1>6. CASE HandlerReturns
  BY <1>6 DEF HandlerReturns
<1>7. CASE SwapPending
  BY <1>7 DEF SwapPending
<1>8. CASE RunFunctor
  BY <1>8 DEF RunFunctor
<1>9. CASE FunctorReturns
  BY <1>9 DEF FunctorReturns
<1>10. CASE BatchDone
  BY <1>10 DEF BatchDone
<1>11. ASSUME NEW t \in AllThreads, NEW f \in Functors, QueueInLoop(t, f)
       PROVE  WakeInv'
  \* A call from a handler is the one that wakes nobody, and there PendingInv
  \* asks for nothing.
  <2>1. t = LoopThread => pc \in {"handler", "functor"}
    BY <1>11, LoopThreadApart DEF QueueInLoop, CanCall
  <2>2. CASE NeedsWakeup(t)
    BY <1>11, <2>2 DEF QueueInLoop
  <2>3. CASE ~NeedsWakeup(t)
    BY <1>11, <2>1, <2>3 DEF QueueInLoop, NeedsWakeup, LoopInv, FlagInv
  <2>4. QED
    BY <2>2, <2>3
<1>12. ASSUME NEW t \in AllThreads, Quit(t) PROVE WakeInv'
  <2>1. t = LoopThread => pc \in {"handler", "functor"}
    BY <1>12, LoopThreadApart DEF Quit, CanCall
  <2>2. QED
    BY <1>12, <2>1 DEF Quit, QuitNeedsWakeup
<1>13. ASSUME NEW t \in AllThreads, Wakeup(t) PROVE WakeInv'
  BY <1>13 DEF Wakeup
<1>14. CASE UNCHANGED vars
  BY <1>14 DEF vars
<1>15. QED
  BY <1>1, <1>2, <1>3, <1>4, <1>5, <1>6, <1>7, <1>8, <1>9, <1>10, <1>11,
     <1>12, <1>13, <1>14 DEF Next, LoopThreadNext, CallerNext

\* No lost wakeup, for a loop whose own thread queues nothing before loop():
\* queueInLoop's and quit's conditions for calling wakeup() are sufficient.
THEOREM NoWakeupIsLost ==
  ASSUME ~QueueBeforeLoop
  PROVE  SafetySpec => []NoLostWakeup
<1>1. LoopInv /\ WakeInv /\ [Next]_vars => WakeInv'
  BY WakeInvStep
<1>2. WakeInv => NoLostWakeup
  BY DEF WakeInv, PendingInv, QuitInv, NoLostWakeup
<1>3. QED
  BY <1>1, <1>2, WakeInvInit, LoopInvariant, PTL DEF SafetySpec

-----------------------------------------------------------------------------
(* The refinement.                                                         *)

LEMMA AppendToConcat ==
  ASSUME NEW S, NEW s \in Seq(S), NEW t \in Seq(S), NEW e \in S
  PROVE  s \o Append(t, e) = Append(s \o t, e)
OBVIOUS

LEMMA HeadTailOfConcat ==
  ASSUME NEW S, NEW s \in Seq(S), NEW t \in Seq(S), s # <<>>
  PROVE  /\ s \o t # <<>>
         /\ Head(s \o t) = Head(s)
         /\ Tail(s \o t) = Tail(s) \o t
OBVIOUS

\* Queueing is Put, starting a task is Run, and every other step -- the swap,
\* the wakeups, quit, I/O -- is a stutter of the abstract queue.
LEMMA StepRefines ==
  ASSUME LoopInv, [Next]_vars
  PROVE  [Tasks!Next]_(Tasks!vars)
<1> USE DEF Tasks!vars
<1>1. CASE \/ LoopStart \/ LoopCheck \/ Poll \/ HandleRead \/ HandlerReturns
           \/ FunctorReturns \/ BatchDone
  BY <1>1 DEF LoopStart, LoopCheck, Poll, HandleRead, HandlerReturns,
     FunctorReturns, BatchDone
<1>2. ASSUME NEW c \in Channels, Dispatch(c)
      PROVE  [Tasks!Next]_(Tasks!vars)
  BY <1>2 DEF Dispatch
<1>3. CASE SwapPending
  <2>1. functors = <<>> /\ pendingFunctors \in Seq(Functors)
    BY <1>3 DEF SwapPending, LoopInv, BatchInv, TypeOK
  <2>2. functors \o pendingFunctors = pendingFunctors \o <<>>
    BY <2>1, ConcatEmptySeq
  <2>3. QED
    BY <1>3, <2>2 DEF SwapPending
<1>4. CASE RunFunctor
  <2>1. functors \o pendingFunctors # <<>>
    BY <1>4, HeadTailOfConcat DEF RunFunctor, LoopInv, TypeOK
  <2>2. ran' = Head(functors \o pendingFunctors)
    BY <1>4, HeadTailOfConcat DEF RunFunctor, LoopInv, TypeOK
  <2>3. (functors \o pendingFunctors)' = Tail(functors \o pendingFunctors)
    BY <1>4, HeadTailOfConcat DEF RunFunctor, LoopInv, TypeOK
  <2>4. QED
    BY <2>1, <2>2, <2>3 DEF Tasks!Run, Tasks!Next
<1>5. ASSUME NEW t \in AllThreads, NEW f \in Functors, QueueInLoop(t, f)
      PROVE  [Tasks!Next]_(Tasks!vars)
  <2>1. (functors \o pendingFunctors)' = Append(functors \o pendingFunctors, f)
    BY <1>5, AppendToConcat DEF QueueInLoop, LoopInv, TypeOK
  <2>2. ran' = ran
    BY <1>5 DEF QueueInLoop
  <2>3. QED
    BY <2>1, <2>2 DEF Tasks!Put, Tasks!Next
<1>6. ASSUME NEW t \in AllThreads, Quit(t) \/ Wakeup(t)
      PROVE  [Tasks!Next]_(Tasks!vars)
  BY <1>6 DEF Quit, Wakeup
<1>7. CASE UNCHANGED vars
  BY <1>7 DEF vars
<1>8. QED
  BY <1>1, <1>2, <1>3, <1>4, <1>5, <1>6, <1>7
  DEF Next, LoopThreadNext, CallerNext

\* The loop implements the abstract task queue: tasks run once, in the order in
\* which queueInLoop() took the mutex, whoever queued them.
THEOREM Refinement == SafetySpec => ImplementsTaskQueue
<1>1. Init => Tasks!Init
  BY ConcatEmptySeq DEF Init, Tasks!Init
<1>2. LoopInv /\ [Next]_vars => [Tasks!Next]_(Tasks!vars)
  BY StepRefines
<1>3. QED
  BY <1>1, <1>2, LoopInvariant, PTL DEF SafetySpec, ImplementsTaskQueue, Tasks!Spec
=============================================================================
