CONSTANTS
  own = own  user = user  f1 = f1  f2 = f2
  Threads = {own, user}
  LoopThread = loop
  Functors = {f1}
  NoFunctor = none
  Channels = {sock}
  WakeupChannel = wake
  MaxPending = 2
  QueueBeforeLoop = FALSE
  Owner = own
  DestroyAtOnce = TRUE
SPECIFICATION Spec_ELT
PROPERTY DestructorReturns
CHECK_DEADLOCK FALSE
