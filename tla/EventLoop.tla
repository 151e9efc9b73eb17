----------------------------- MODULE EventLoop -----------------------------
(***************************************************************************)
(* One EventLoop (net/src/EventLoop.cc): the reactor that one thread runs  *)
(* and to which any thread hands tasks.  The loop's thread is a sequential *)
(* program whose control location is pc; the other threads take the two    *)
(* halves of queueInLoop() and quit() (publish, then wake) as two steps.   *)
(*                                                                         *)
(* A Functor is a model value.  What it does is left open: while it runs,  *)
(* the loop's thread may itself call queueInLoop() and quit(), any number  *)
(* of times, and so may an I/O handler.  The eventfd is kept as "readable  *)
(* or not".  Polling is level triggered, as EPollPoller registers it.      *)
(***************************************************************************)
EXTENDS Naturals, Sequences

CONSTANTS Threads,          \* the threads that are not the loop's
          LoopThread,       \* the thread threadId_ names
          Functors,         \* tasks
          NoFunctor,        \* "nothing has run yet"
          Channels,         \* channels of sockets; the wakeup channel is apart
          WakeupChannel,
          MaxPending,       \* bound on pendingFunctors_, for TLC
          QueueBeforeLoop   \* may the loop's thread queue before loop() runs?

ASSUME LoopThreadApart == LoopThread \notin Threads
ASSUME NoFunctorApart == NoFunctor \notin Functors
ASSUME WakeupChannelApart == WakeupChannel \notin Channels
ASSUME MaxPendingType == MaxPending \in Nat
ASSUME QueueBeforeLoopType == QueueBeforeLoop \in BOOLEAN

VARIABLES
    pc,                      \* where the loop's thread is, see Locations
    quit,                    \* quit_
    callingPendingFunctors,  \* callingPendingFunctors_
    pendingFunctors,         \* pendingFunctors_, guarded by mutex_
    functors,                \* what is left of doPendingFunctors()'s batch
    wakeupFd,                \* the eventfd's counter is not zero
    active,                  \* activeChannels_ still to be dispatched
    waking,                  \* threads between "published" and ::write
    ran                      \* history: the task started last

vars == <<pc, quit, callingPendingFunctors, pendingFunctors, functors,
          wakeupFd, active, waking, ran>>

\* start    constructed, loop() not entered    while    at `while(!quit_)`
\* poll     in epoll_wait                      dispatch in the handleEvent loop
\* handler  in a socket's callback             batch    between two tasks
\* functor  in a task                          stopped  loop() has returned
Locations == {"start", "while", "poll", "dispatch", "handler", "batch",
              "functor", "stopped"}

Init == /\ pc = "start"
        /\ quit = FALSE
        /\ callingPendingFunctors = FALSE
        /\ pendingFunctors = <<>>
        /\ functors = <<>>
        /\ wakeupFd = FALSE
        /\ active = {}
        /\ waking = {}
        /\ ran = NoFunctor

-----------------------------------------------------------------------------
(* The loop's thread: loop() and doPendingFunctors().                      *)

\* A thread inside wakeup() does nothing else meanwhile.
LoopThreadFree == LoopThread \notin waking

\* loop() entered: looping_ = true; quit_ = false.
LoopStart == /\ pc = "start"
             /\ LoopThreadFree
             /\ pc' = "while"
             /\ quit' = FALSE
             /\ UNCHANGED <<callingPendingFunctors, pendingFunctors, functors,
                            wakeupFd, active, waking, ran>>

\* `while(!quit_)`: one more turn, or loop() returns.
LoopCheck == /\ pc = "while"
             /\ pc' = IF quit THEN "stopped" ELSE "poll"
             /\ UNCHANGED <<quit, callingPendingFunctors, pendingFunctors,
                            functors, wakeupFd, active, waking, ran>>

\* poller_->poll() returns: the wakeup channel is among the active ones
\* exactly when the eventfd is readable; of the sockets, any may be.  An empty
\* result is the timeout, or EINTR.
Poll == /\ pc = "poll"
        /\ \E ready \in SUBSET Channels :
              active' = ready \union (IF wakeupFd THEN {WakeupChannel} ELSE {})
        /\ pc' = "dispatch"
        /\ UNCHANGED <<quit, callingPendingFunctors, pendingFunctors, functors,
                       wakeupFd, waking, ran>>

\* handleRead(), the wakeup channel's callback: reads the eventfd empty.
HandleRead == /\ pc = "dispatch"
              /\ WakeupChannel \in active
              /\ active' = active \ {WakeupChannel}
              /\ wakeupFd' = FALSE
              /\ UNCHANGED <<pc, quit, callingPendingFunctors, pendingFunctors,
                             functors, waking, ran>>

\* handleEvent() of a socket's channel: the callback begins ...
Dispatch(c) == /\ pc = "dispatch"
               /\ c \in active
               /\ active' = active \ {c}
               /\ pc' = "handler"
               /\ UNCHANGED <<quit, callingPendingFunctors, pendingFunctors,
                              functors, wakeupFd, waking, ran>>

\* ... and returns to the dispatch loop.
HandlerReturns == /\ pc = "handler"
                  /\ LoopThreadFree
                  /\ pc' = "dispatch"
                  /\ UNCHANGED <<quit, callingPendingFunctors, pendingFunctors,
                                 functors, wakeupFd, active, waking, ran>>

\* Mutant: the vector is pushed onto the batch instead of swapped with it.
SwapPending_Push == /\ pc = "dispatch"
                    /\ active = {}
                    /\ callingPendingFunctors' = TRUE
                    /\ functors' = Append(functors, pendingFunctors)
                    /\ pendingFunctors' = <<>>
                    /\ pc' = "batch"
                    /\ UNCHANGED <<quit, wakeupFd, active, waking, ran>>

\* doPendingFunctors() up to the unlock: the flag is set, the vectors swapped.
\* Only the loop's thread reads the flag to any effect, so the two are one step.
SwapPending == /\ pc = "dispatch"
               /\ active = {}
               /\ callingPendingFunctors' = TRUE
               /\ functors' = pendingFunctors
               /\ pendingFunctors' = <<>>
               /\ pc' = "batch"
               /\ UNCHANGED <<quit, wakeupFd, active, waking, ran>>

\* Mutant: the batch is run from its back, as pop_back() would.
RunFunctor_FromBack == /\ pc = "batch"
                       /\ functors # <<>>
                       /\ ran' = functors[Len(functors)]
                       /\ functors' = SubSeq(functors, 1, Len(functors) - 1)
                       /\ pc' = "functor"
                       /\ UNCHANGED <<quit, callingPendingFunctors,
                                      pendingFunctors, wakeupFd, active, waking>>

\* `for(functor : functors) functor();`
RunFunctor == /\ pc = "batch"
              /\ functors # <<>>
              /\ ran' = Head(functors)
              /\ functors' = Tail(functors)
              /\ pc' = "functor"
              /\ UNCHANGED <<quit, callingPendingFunctors, pendingFunctors,
                             wakeupFd, active, waking>>

FunctorReturns == /\ pc = "functor"
                  /\ LoopThreadFree
                  /\ pc' = "batch"
                  /\ UNCHANGED <<quit, callingPendingFunctors, pendingFunctors,
                                 functors, wakeupFd, active, waking, ran>>

\* Mutant: swap and run again until pendingFunctors_ is empty.
BatchDone_Drain == /\ pc = "batch"
                   /\ functors = <<>>
                   /\ functors' = pendingFunctors
                   /\ pendingFunctors' = <<>>
                   /\ callingPendingFunctors' = (pendingFunctors # <<>>)
                   /\ pc' = IF pendingFunctors = <<>> THEN "while" ELSE "batch"
                   /\ UNCHANGED <<quit, wakeupFd, active, waking, ran>>

\* The batch is done: doPendingFunctors() returns.
BatchDone == /\ pc = "batch"
             /\ functors = <<>>
             /\ callingPendingFunctors' = FALSE
             /\ pc' = "while"
             /\ UNCHANGED <<quit, pendingFunctors, functors, wakeupFd, active,
                            waking, ran>>

-----------------------------------------------------------------------------
(* queueInLoop() and quit(), called by any thread.                         *)

\* Where t can make a call: another thread anywhere, the loop's own thread
\* in a callback, or before loop() (as a ThreadInitCallback may).
CanCall(t) == /\ t \notin waking
              /\ \/ t \in Threads
                 \/ t = LoopThread /\ pc \in {"handler", "functor"}
                 \/ t = LoopThread /\ pc = "start" /\ QueueBeforeLoop

\* Mutants: either half of queueInLoop's condition is missing.
NeedsWakeup_OtherThreadOnly(t) == t # LoopThread
NeedsWakeup_BatchOnly(t) == callingPendingFunctors

\* `!isInLoopThread() || callingPendingFunctors_`
NeedsWakeup(t) == t # LoopThread \/ callingPendingFunctors

\* Mutant: quit() only sets the flag.
QuitNeedsWakeup_Never(t) == FALSE

\* `!isInLoopThread()`, in quit().
QuitNeedsWakeup(t) == t # LoopThread

\* queueInLoop(f) up to the unlock; wakeup() is still to come if it is needed.
\* The flag read after the unlock is the loop's thread's own, or irrelevant.
QueueInLoop(t, f) ==
    /\ CanCall(t)
    /\ Len(pendingFunctors) < MaxPending
    /\ pendingFunctors' = Append(pendingFunctors, f)
    /\ waking' = IF NeedsWakeup(t) THEN waking \union {t} ELSE waking
    /\ UNCHANGED <<pc, quit, callingPendingFunctors, functors, wakeupFd, active,
                   ran>>

\* quit() up to the call of wakeup().
Quit(t) ==
    /\ CanCall(t)
    /\ quit' = TRUE
    /\ waking' = IF QuitNeedsWakeup(t) THEN waking \union {t} ELSE waking
    /\ UNCHANGED <<pc, callingPendingFunctors, pendingFunctors, functors,
                   wakeupFd, active, ran>>

\* wakeup(): the ::write to the eventfd.
Wakeup(t) == /\ t \in waking
             /\ waking' = waking \ {t}
             /\ wakeupFd' = TRUE
             /\ UNCHANGED <<pc, quit, callingPendingFunctors, pendingFunctors,
                            functors, active, ran>>

-----------------------------------------------------------------------------
AllThreads == Threads \union {LoopThread}

LoopThreadNext == \/ LoopStart \/ LoopCheck \/ Poll \/ HandleRead
                  \/ \E c \in Channels : Dispatch(c)
                  \/ HandlerReturns \/ SwapPending \/ RunFunctor
                  \/ FunctorReturns \/ BatchDone

CallerNext(t) == \/ \E f \in Functors : QueueInLoop(t, f)
                 \/ Quit(t)
                 \/ Wakeup(t)

Next == LoopThreadNext \/ \E t \in AllThreads : CallerNext(t)

\* The steps of loop() the scheduler owes the thread.  epoll_wait is only owed
\* a return when the eventfd is readable: what follows does not lean on the
\* ten-second timeout nor on traffic.  Tasks and handlers are taken to return.
LoopThreadProgress == \/ LoopStart \/ LoopCheck \/ (wakeupFd /\ Poll)
                      \/ HandleRead \/ \E c \in Channels : Dispatch(c)
                      \/ HandlerReturns \/ SwapPending \/ RunFunctor
                      \/ FunctorReturns \/ BatchDone

Fairness == /\ WF_vars(LoopThreadProgress)
            /\ \A t \in AllThreads : WF_vars(Wakeup(t))

SafetySpec == Init /\ [][Next]_vars
Spec == SafetySpec /\ Fairness

-----------------------------------------------------------------------------
(* Properties.                                                             *)

\* The type of every variable.
TypeOK == /\ pc \in Locations
          /\ quit \in BOOLEAN
          /\ callingPendingFunctors \in BOOLEAN
          /\ pendingFunctors \in Seq(Functors)
          /\ functors \in Seq(Functors)
          /\ wakeupFd \in BOOLEAN
          /\ active \subseteq Channels \union {WakeupChannel}
          /\ waking \subseteq AllThreads
          /\ ran \in Functors \union {NoFunctor}

\* The loop's thread will be woken: the eventfd is readable or about to be.
WakeupDue == wakeupFd \/ waking # {}

\* No lost wakeup: when the loop blocks in epoll_wait with a task in
\* pendingFunctors_ or quit_ set, the eventfd is readable or some thread is on
\* its way to write it.  This is what queueInLoop's condition (line 121) and
\* quit's (line 96) are for.
NoLostWakeup ==
    pc = "poll" /\ (pendingFunctors # <<>> \/ quit) => WakeupDue

\* The loop is the abstract task queue: the rest of the batch, then
\* pendingFunctors_, is one FIFO queue, and swap, quit and wakeups are invisible
\* to those who queue.  No task runs twice, is overtaken or is forgotten.
Tasks == INSTANCE TaskQueue WITH queue <- functors \o pendingFunctors
ImplementsTaskQueue == Tasks!Spec

Queued(f) == \E i \in DOMAIN pendingFunctors : pendingFunctors[i] = f

\* Every task handed to a loop that is not stopped is run, without the help of
\* the poll timeout or of traffic on the sockets.
EveryFunctorRuns ==
    \A f \in Functors : Queued(f) ~> (ran = f \/ pc = "stopped")

\* Tasks that queue tasks forever do not keep the loop from polling: the batch
\* is what was pending when it was swapped out.
IoNotStarved == (pc = "batch") ~> (pc \in {"poll", "stopped"})
=============================================================================
