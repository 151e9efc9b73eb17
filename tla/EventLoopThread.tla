-------------------------- MODULE EventLoopThread --------------------------
(***************************************************************************)
(* EventLoopThread (net/src/EventLoopThread.cc): a thread that owns an     *)
(* EventLoop on its stack, and the object through which an owner starts    *)
(* it, waits until the loop exists, and later destroys it.                 *)
(*                                                                         *)
(* The child thread is EventLoop's LoopThread; child says where it is in   *)
(* threadFunc(), outside loop().  The owner is one of EventLoop's Threads; *)
(* owner says where it is in startLoop() or in the destructor.  The other  *)
(* Threads use the pointer that startLoop() returned.                      *)
(*                                                                         *)
(* An access to an EventLoop or a mutex_ that is no longer there, of which *)
(* the code has several, ends the process or goes unnoticed.               *)
(***************************************************************************)
EXTENDS EventLoop

CONSTANTS Owner,
          DestroyAtOnce   \* may ~EventLoopThread run before loop() is entered?

ASSUME OwnerType == Owner \in Threads
ASSUME DestroyAtOnceType == DestroyAtOnce \in BOOLEAN

VARIABLES child,    \* the thread running threadFunc()
          owner,    \* the thread that owns the EventLoopThread
          loopPtr,  \* loop_ # nullptr, guarded by mutex_ except in the destructor
          userQuit, \* history: someone but the destructor has called quit()
          crashed   \* the process was ended by an access to what is gone

eltVars == <<child, owner, loopPtr, userQuit, crashed>>
allVars == <<vars, eltVars>>

\* unborn     not started          callback   in callback_, the loop constructed
\* publish    about to set loop_   looping    in loop()
\* clearing   holds mutex_, loop_ is nullptr
\* destroying mutex_ released, ~EventLoop to come      exited   thread ended
ChildLocations == {"unborn", "callback", "publish", "looping", "clearing",
                   "destroying", "exited"}

\* idle      before startLoop()         starting  at `while(loop_==nullptr)`
\* waiting   in cond_.wait()            running   startLoop() has returned
\* quitting  in the destructor, loop_ read as not null
\* calling   loop_ read again, about to call its quit()
\* joining   in quit()'s wakeup() or in join()         gone  destructor returned
OwnerLocations == {"idle", "starting", "waiting", "running", "quitting",
                   "calling", "joining", "gone"}

Init_ELT == /\ Init
            /\ child = "unborn"
            /\ owner = "idle"
            /\ loopPtr = FALSE
            /\ userQuit = FALSE
            /\ crashed = FALSE

\* The EventLoop is an object on the child's stack.
LoopAlive == child \notin {"unborn", "exited"}

\* Using an object: undefined when it is not there, and then either a crash or
\* not noticed.  (What a stray write may spoil elsewhere is not followed.)
Access(there) == crashed' \in (IF there THEN {FALSE} ELSE BOOLEAN)

-----------------------------------------------------------------------------
(* The owner.                                                              *)

\* startLoop(): thread_.start() has created the child.
StartLoop == /\ owner = "idle"
             /\ child = "unborn"
             /\ owner' = "starting"
             /\ child' = "callback"
             /\ UNCHANGED <<vars, loopPtr, userQuit, crashed>>

\* `while(loop_==nullptr) cond_.wait();` under mutex_: wait, or return loop_.
AwaitLoop == /\ owner = "starting"
             /\ owner' = IF loopPtr THEN "running" ELSE "waiting"
             /\ UNCHANGED <<vars, child, loopPtr, userQuit, crashed>>

\* Mutant: `if` for `while` around cond_.wait().
AfterWait_If == "running"

\* Where a thread that cond_.wait() released goes on.
AfterWait == "starting"

\* cond_.wait() may also return although nobody notified.
SpuriousWakeup == /\ owner = "waiting"
                  /\ owner' = AfterWait
                  /\ UNCHANGED <<vars, child, loopPtr, userQuit, crashed>>

\* ~EventLoopThread up to its first reading of loop_, which takes no lock.  The
\* owner destroys it once nobody is inside a call on the loop.  If loop_ is null
\* the members go, mutex_ among them, which a child that is clearing loop_ holds.
Destroy == /\ owner \in {"idle", "running"}
           /\ waking = {}
           /\ DestroyAtOnce \/ pc # "start" \/ owner = "idle"
           /\ owner' = IF loopPtr THEN "quitting" ELSE "gone"
           /\ Access(child # "clearing")
           /\ UNCHANGED <<vars, child, loopPtr, userQuit>>

\* loop_->quit() reads loop_ again, and calls through a null pointer if the child
\* has cleared it since.
DestroyReads == /\ owner = "quitting"
                /\ owner' = "calling"
                /\ crashed' = ~loopPtr
                /\ UNCHANGED <<vars, child, loopPtr, userQuit>>

\* quit(): the flag is set here; EventLoop's Wakeup(Owner) follows.  If the loop
\* has ended since loop_ was read, the flag is somewhere on a stack that is gone.
DestroyQuits == /\ owner = "calling"
                /\ owner' = "joining"
                /\ IF LoopAlive THEN Quit(Owner) ELSE UNCHANGED vars
                /\ Access(LoopAlive)
                /\ UNCHANGED <<child, loopPtr, userQuit>>

\* thread_.join() returns.
Join == /\ owner = "joining"
        /\ Owner \notin waking
        /\ child = "exited"
        /\ owner' = "gone"
        /\ UNCHANGED <<vars, child, loopPtr, userQuit, crashed>>

-----------------------------------------------------------------------------
(* The child: threadFunc().                                                *)

\* callback_(&loop) returns.
CallbackReturns == /\ child = "callback"
                   /\ LoopThreadFree
                   /\ child' = "publish"
                   /\ UNCHANGED <<vars, owner, loopPtr, userQuit, crashed>>

\* Mutant: no cond_.notify().
Notified_Never == owner

\* cond_.notify(): a waiting owner leaves cond_.wait().
Notified == IF owner = "waiting" THEN AfterWait ELSE owner

\* Under mutex_: loop_ = &loop; cond_.notify().
Publish == /\ child = "publish"
           /\ loopPtr' = TRUE
           /\ owner' = Notified
           /\ child' = "looping"
           /\ UNCHANGED <<vars, userQuit, crashed>>

\* loop() has returned; mutex_ is taken and loop_ cleared.  The owner's critical
\* sections are single steps, so the lock is free here.
ClearLoop == /\ child = "looping"
             /\ pc = "stopped"
             /\ loopPtr' = FALSE
             /\ child' = "clearing"
             /\ UNCHANGED <<vars, owner, userQuit, crashed>>

\* The guard `lock` is destroyed first, and mutex_ with its EventLoopThread may
\* be gone before it; ...
Unlock == /\ child = "clearing"
          /\ child' = "destroying"
          /\ Access(owner # "gone")
          /\ UNCHANGED <<vars, owner, loopPtr, userQuit>>

\* ... then the EventLoop; the thread ends.
ChildExits == /\ child = "destroying"
              /\ child' = "exited"
              /\ UNCHANGED <<vars, owner, loopPtr, userQuit, crashed>>

-----------------------------------------------------------------------------
(* The loop and its users.                                                 *)

InLoop == child = "looping" /\ LoopThreadNext /\ UNCHANGED eltVars

\* Who can make calls on the loop: its own thread from a callback, the others
\* from the return of startLoop() to the destructor.
HasLoop(t) == IF t = LoopThread THEN child \in {"callback", "looping"}
                                ELSE owner = "running"

UserQueues(t, f) == HasLoop(t) /\ LoopAlive /\ QueueInLoop(t, f) /\ UNCHANGED eltVars
UserQuits(t) == /\ HasLoop(t) /\ LoopAlive
                /\ Quit(t)
                /\ userQuit' = TRUE
                /\ UNCHANGED <<child, owner, loopPtr, crashed>>

\* A call on a loop that somebody has made quit, and that is gone.
UserCallsDead(t) == /\ HasLoop(t) /\ ~LoopAlive
                    /\ Access(LoopAlive)
                    /\ UNCHANGED <<vars, child, owner, loopPtr, userQuit>>

\* The second half of a call: threadId_ and wakeupFd_ are read after the task or
\* the flag has been published, and the loop may have acted on it and be gone.
UserWakes(t) == /\ Wakeup(t)
                /\ Access(LoopAlive)
                /\ UNCHANGED <<child, owner, loopPtr, userQuit>>

UserNext(t) == \/ \E f \in Functors : UserQueues(t, f)
               \/ UserQuits(t)
               \/ UserCallsDead(t)
               \/ UserWakes(t)

OwnerNext == \/ StartLoop \/ AwaitLoop
             \/ Destroy \/ DestroyReads \/ DestroyQuits \/ Join

ChildNext == \/ CallbackReturns \/ Publish \/ InLoop
             \/ ClearLoop \/ Unlock \/ ChildExits

Next_ELT == /\ ~crashed
            /\ \/ OwnerNext \/ SpuriousWakeup \/ ChildNext
               \/ \E t \in AllThreads : UserNext(t)

\* The owner need not start or destroy anything, but finishes what it began; the
\* child gets its steps, with epoll_wait as in EventLoop.
OwnerProgress == AwaitLoop \/ DestroyReads \/ DestroyQuits \/ Join
ChildProgress == CallbackReturns \/ Publish \/ ClearLoop \/ Unlock \/ ChildExits
LoopProgress  == child = "looping" /\ LoopThreadProgress /\ UNCHANGED eltVars

Fairness_ELT == /\ WF_allVars(~crashed /\ OwnerProgress)
                /\ WF_allVars(~crashed /\ ChildProgress)
                /\ WF_allVars(~crashed /\ LoopProgress)
                /\ \A t \in AllThreads : WF_allVars(~crashed /\ UserWakes(t))

SafetySpec_ELT == Init_ELT /\ [][Next_ELT]_allVars
Spec_ELT == SafetySpec_ELT /\ Fairness_ELT

-----------------------------------------------------------------------------
(* Properties.                                                             *)

\* The type of every variable.
TypeOK_ELT == /\ TypeOK
              /\ child \in ChildLocations
              /\ owner \in OwnerLocations
              /\ loopPtr \in BOOLEAN
              /\ userQuit \in BOOLEAN
              /\ crashed \in BOOLEAN

\* The pointer startLoop() returned stays good, spurious wakeups of the condition
\* included, up to the destructor's call of quit() -- unless somebody else makes
\* the loop quit, which ends the thread and the loop with it.  If nobody does, one
\* access to the loop alone can come too late: the wakeup() of the destructor's
\* quit(), after the flag it set has ended the thread.
StartLoopGivesLoop ==
    ~userQuit => /\ owner \in {"running", "quitting", "calling"} => loopPtr /\ LoopAlive
                 /\ crashed => owner = "joining"

\* startLoop() returns.  (A loop that its own callbacks stop at once may have
\* cleared loop_ again before the owner gets the mutex.)
StartLoopReturns == (owner = "starting") ~> (owner = "running" \/ userQuit)

\* ~EventLoopThread returns, whoever else has called quit() before and wherever
\* the child is when loop_ is read: it waits for no thread that does not end.
\* That the process dies in it instead, of a loop gone too early, is the one
\* exception; StartLoopGivesLoop says when that can be.
DestructorReturns == (owner = "quitting") ~> (owner = "gone" \/ crashed)
=============================================================================
