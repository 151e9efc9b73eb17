----------------------- MODULE EventLoopThread_proofs -----------------------
(***************************************************************************)
(* An EventLoop that an EventLoopThread owns keeps what EventLoop_proofs   *)
(* shows of a loop, since all that the thread, its owner and the users do  *)
(* to it is a step of EventLoop or leaves it alone; and the pointer that   *)
(* startLoop() returns is good.                                            *)
(***************************************************************************)
EXTENDS EventLoop_proofs, EventLoopThread

-----------------------------------------------------------------------------
(* The composition implements the component.                               *)

\* What happens to the loop is something that EventLoop allows.
LEMMA StepOfLoop == [Next_ELT]_allVars => [Next]_vars
<1> SUFFICES ASSUME [Next_ELT]_allVars PROVE [Next]_vars
  OBVIOUS
<1>1. CASE StartLoop \/ AwaitLoop \/ Destroy \/ DestroyReads \/ Join \/ SpuriousWakeup
  BY <1>1 DEF StartLoop, AwaitLoop, Destroy, DestroyReads, Join, SpuriousWakeup
<1>2. CASE DestroyQuits
  BY <1>2, OwnerType DEF DestroyQuits, Next, CallerNext, AllThreads
<1>3. CASE CallbackReturns \/ Publish \/ ClearLoop \/ Unlock \/ ChildExits
  BY <1>3 DEF CallbackReturns, Publish, ClearLoop, Unlock, ChildExits
<1>4. CASE InLoop
  BY <1>4 DEF InLoop, Next
<1>5. ASSUME NEW t \in AllThreads, UserNext(t) PROVE [Next]_vars
  BY <1>5 DEF UserNext, UserQueues, UserQuits, UserCallsDead, UserWakes, Next,
              CallerNext
<1>6. CASE UNCHANGED allVars
  BY <1>6 DEF allVars
<1>7. QED
  BY <1>1, <1>2, <1>3, <1>4, <1>5, <1>6 DEF Next_ELT, OwnerNext, ChildNext

\* An EventLoopThread runs an EventLoop.
THEOREM RunsAnEventLoop == SafetySpec_ELT => SafetySpec
<1>1. Init_ELT => Init
  BY DEF Init_ELT
<1>2. QED
  BY <1>1, StepOfLoop, PTL DEF SafetySpec_ELT, SafetySpec

\* The loop of an EventLoopThread is a FIFO queue of tasks for all its users, from
\* startLoop() to the destructor.
THEOREM ThreadRefinement == SafetySpec_ELT => ImplementsTaskQueue
BY RunsAnEventLoop, Refinement, PTL

\* No lost wakeup: no user of the loop, and no destructor, leaves it blocked with
\* work or quit_ to be seen.
THEOREM ThreadLosesNoWakeup ==
  ASSUME ~QueueBeforeLoop
  PROVE  SafetySpec_ELT => []NoLostWakeup
<1>1. SafetySpec => []NoLostWakeup
  BY NoWakeupIsLost
<1>2. QED
  BY <1>1, RunsAnEventLoop, PTL

-----------------------------------------------------------------------------
(* The pointer.                                                            *)

\* loop_ is set while the child is in loop(), and only then.
PointerInv == loopPtr <=> child = "looping"

\* A loop is told to quit, and returns, only by a user or by the destructor.
QuitCauseInv ==
    (quit \/ pc = "stopped") => userQuit \/ owner \in {"joining", "gone"}

\* What startLoop() has returned, and the destructor reads.
ReturnedInv ==
    owner \in {"running", "quitting", "calling"} => loopPtr \/ userQuit

\* The child begins with startLoop(), and leaves loop() before it ends.
ChildInv == /\ owner = "idle" => child = "unborn"
            /\ child \in {"clearing", "destroying", "exited"} => pc = "stopped"
            /\ owner = "gone" => child \in {"unborn", "exited"} \/ userQuit

\* Who can be between the two halves of a call, once the destructor has begun.
CallersInv ==
    /\ child = "unborn" => waking = {}
    /\ owner \in {"quitting", "calling", "joining", "gone"} =>
           waking \subseteq {Owner, LoopThread}
    /\ owner = "gone" => Owner \notin waking
    /\ LoopThread \in waking => pc \in {"start", "handler", "functor"}

\* The process dies of a loop that a user made quit, or late in the destructor.
CrashInv == crashed => userQuit \/ owner = "joining"

ThreadInv == /\ PointerInv /\ QuitCauseInv /\ ReturnedInv
             /\ ChildInv /\ CallersInv /\ CrashInv

IInv == LoopInv /\ TypeOK_ELT /\ ThreadInv

LEMMA IInvInit == Init_ELT => IInv
<1> SUFFICES ASSUME Init_ELT PROVE IInv
  OBVIOUS
<1>1. LoopInv
  BY LoopInvInit DEF Init_ELT
<1>2. TypeOK_ELT
  BY <1>1 DEF Init_ELT, TypeOK_ELT, LoopInv, ChildLocations, OwnerLocations
<1>3. ThreadInv
  BY DEF Init_ELT, Init, ThreadInv, PointerInv, QuitCauseInv, ReturnedInv, ChildInv,
         CallersInv, CrashInv
<1>4. QED
  BY <1>1, <1>2, <1>3 DEF IInv

\* The loop's own steps stop it only when quit_ is set, never set it, and make no
\* step from a callback or into loop() while the thread is in wakeup().
LEMMA LoopStops ==
  ASSUME LoopThreadNext
  PROVE  /\ quit' => quit
         /\ pc' = "stopped" => quit \/ pc = "stopped"
         /\ pc # "stopped"
         /\ LoopThread \in waking => pc \notin {"start", "handler", "functor"}
         /\ waking' = waking
BY DEF LoopThreadNext, LoopStart, LoopCheck, Poll, HandleRead, Dispatch,
   HandlerReturns, SwapPending, RunFunctor, FunctorReturns, BatchDone, LoopThreadFree

\* Using a loop that is not there, with nobody but the destructor to blame, is
\* the wakeup() of the destructor's quit().
LEMMA DeadLoop ==
  ASSUME IInv, ~LoopAlive, ~userQuit
  PROVE  /\ owner \notin {"running", "quitting", "calling"}
         /\ waking # {} => owner = "joining"
<1> USE DEF IInv, TypeOK_ELT, ThreadInv, PointerInv, QuitCauseInv, ReturnedInv, ChildInv,
            CallersInv, ChildLocations, OwnerLocations, LoopAlive
<1>1. owner \notin {"running", "quitting", "calling"}
  OBVIOUS
<1>2. CASE child = "unborn"
  BY <1>1, <1>2
<1>3. CASE child = "exited"
  <2>1. pc = "stopped" /\ owner \in {"joining", "gone"}
    BY <1>3
  <2>2. LoopThread \notin waking
    BY <2>1
  <2>3. owner = "gone" => waking = {}
    BY <2>2
  <2>4. QED
    BY <1>1, <2>1, <2>3
<1>4. QED
  BY <1>2, <1>3

\* Every step preserves the types and what is known of the thread.
LEMMA ThreadInvStep ==
  ASSUME IInv, Next_ELT
  PROVE  (/\ child \in ChildLocations /\ owner \in OwnerLocations
          /\ loopPtr \in BOOLEAN /\ userQuit \in BOOLEAN /\ crashed \in BOOLEAN
          /\ ThreadInv)'
<1> USE DEF IInv, TypeOK_ELT, ThreadInv, PointerInv, QuitCauseInv, ReturnedInv, ChildInv,
            CallersInv, CrashInv, ChildLocations, OwnerLocations
<1> DEFINE Goal == (/\ child \in ChildLocations /\ owner \in OwnerLocations
                    /\ loopPtr \in BOOLEAN /\ userQuit \in BOOLEAN /\ crashed \in BOOLEAN
                    /\ ThreadInv)'
<1>0. ~crashed
  BY DEF Next_ELT
<1>1. CASE StartLoop
  BY <1>1 DEF StartLoop, vars
<1>2. CASE AwaitLoop
  BY <1>2 DEF AwaitLoop, vars
<1>3. CASE SpuriousWakeup
  BY <1>3 DEF SpuriousWakeup, AfterWait, vars
<1>4. CASE Destroy
  BY <1>4 DEF Destroy, Access, vars
<1>5. CASE DestroyReads
  BY <1>5 DEF DestroyReads, vars
<1>6. CASE DestroyQuits
  <2>1. CASE LoopAlive
    BY <1>6, <2>1, LoopThreadApart, OwnerType DEF DestroyQuits, Access, Quit, LoopAlive
  <2>2. CASE ~LoopAlive
    BY <1>6, <2>2 DEF DestroyQuits, Access, vars
  <2>3. QED
    BY <2>1, <2>2
<1>7. CASE Join
  BY <1>7, <1>0 DEF Join, vars
<1>8. CASE CallbackReturns
  BY <1>8 DEF CallbackReturns, vars
<1>9. CASE Publish
  BY <1>9 DEF Publish, Notified, AfterWait, vars
<1>10. CASE ClearLoop
  BY <1>10 DEF ClearLoop, vars
<1>11. CASE Unlock
  BY <1>11 DEF Unlock, Access, vars
<1>12. CASE ChildExits
  BY <1>12 DEF ChildExits, vars
<1>13. CASE InLoop
  BY <1>13, LoopStops DEF InLoop, eltVars
<1>14. ASSUME NEW t \in AllThreads, NEW f \in Functors, UserQueues(t, f)
       PROVE  Goal
  BY <1>14, OwnerType, LoopThreadApart
  DEF UserQueues, QueueInLoop, CanCall, HasLoop, LoopAlive, AllThreads, eltVars
<1>15. ASSUME NEW t \in AllThreads, UserQuits(t) PROVE Goal
  BY <1>15, OwnerType, LoopThreadApart
  DEF UserQuits, Quit, CanCall, HasLoop, LoopAlive, AllThreads
<1>16. ASSUME NEW t \in AllThreads, UserCallsDead(t) PROVE Goal
  <2>1. ~LoopAlive /\ owner = "running"
    BY <1>16 DEF UserCallsDead, HasLoop, LoopAlive
  <2>2. userQuit
    BY <2>1, DeadLoop
  <2>3. QED
    BY <1>16, <2>2 DEF UserCallsDead, Access, vars
<1>17. ASSUME NEW t \in AllThreads, UserWakes(t) PROVE Goal
  <2>1. ~LoopAlive => userQuit \/ owner = "joining"
    BY <1>17, DeadLoop DEF UserWakes, Wakeup
  <2>2. QED
    BY <1>17, <2>1 DEF UserWakes, Wakeup, Access
<1>18. QED
  BY <1>1, <1>2, <1>3, <1>4, <1>5, <1>6, <1>7, <1>8, <1>9, <1>10, <1>11, <1>12,
     <1>13, <1>14, <1>15, <1>16, <1>17
  DEF Next_ELT, OwnerNext, ChildNext, UserNext

\* Every step preserves the invariant.
LEMMA IInvStep == IInv /\ [Next_ELT]_allVars => IInv'
<1> SUFFICES ASSUME IInv, [Next_ELT]_allVars PROVE IInv'
  OBVIOUS
<1>1. LoopInv'
  BY StepOfLoop, LoopInvStep DEF IInv
<1>2. TypeOK'
  BY <1>1 DEF LoopInv
<1>3. CASE Next_ELT
  BY <1>1, <1>2, <1>3, ThreadInvStep DEF IInv, TypeOK_ELT
<1>4. CASE UNCHANGED allVars
  BY <1>1, <1>2, <1>4 DEF allVars, vars, eltVars, IInv, TypeOK_ELT, ThreadInv, PointerInv,
                          QuitCauseInv, ReturnedInv, ChildInv, CallersInv, CrashInv
<1>5. QED
  BY <1>3, <1>4

\* Type correctness of the thread, its owner and its loop.
THEOREM ThreadTypeCorrect == SafetySpec_ELT => []TypeOK_ELT
<1>1. IInv => TypeOK_ELT
  BY DEF IInv
<1>2. QED
  BY <1>1, IInvInit, IInvStep, PTL DEF SafetySpec_ELT

\* Unless a user makes the loop quit, the pointer that startLoop() returned is
\* good until the destructor has called quit() on it, however often the condition
\* wakes up for nothing, and only the wakeup() of that quit() can find it dead.
THEOREM PointerIsGood == SafetySpec_ELT => []StartLoopGivesLoop
<1>1. IInv => StartLoopGivesLoop
  BY DEF IInv, ThreadInv, PointerInv, ReturnedInv, CrashInv, StartLoopGivesLoop, LoopAlive
<1>2. QED
  BY <1>1, IInvInit, IInvStep, PTL DEF SafetySpec_ELT
=============================================================================
