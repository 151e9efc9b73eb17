CONSTANTS
  own = own  user = user  f1 = f1  f2 = f2
  Threads = {own, user}
  LoopThread = loop
  Functors = {f1, f2}
  NoFunctor = none
  Channels = {sock}
  WakeupChannel = wake
  MaxPending = 3
  QueueBeforeLoop = FALSE
  Owner = own
  DestroyAtOnce = FALSE
SPECIFICATION Spec_ELT
INVARIANTS TypeOK_ELT NoLostWakeup StartLoopGivesLoop
PROPERTIES ImplementsTaskQueue EveryFunctorRuns IoNotStarved StartLoopReturns DestructorReturns
CHECK_DEADLOCK FALSE
