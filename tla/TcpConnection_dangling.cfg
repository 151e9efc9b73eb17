CONSTANTS
  u1 = u1  m1 = m1  m2 = m2
  Users = {u1}
  LoopMessages = {m1}
  UserMessages = {m2}
  Size <- MessageSize
  HighWaterMark = 2
  MaxTasks = 1
  MaxCalls = 2
  SigPipeIgnored = TRUE
SPECIFICATION Spec
INVARIANT ChannelGone
CHECK_DEADLOCK FALSE
