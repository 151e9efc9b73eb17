CONSTANTS
  u1 = u1  m1 = m1  m2 = m2
  Users = {u1}
  LoopMessages = {m1}
  UserMessages = {m2}
  Size <- MessageSize
  HighWaterMark = 2
  MaxTasks = 1
  MaxCalls = 1
  SigPipeIgnored = TRUE
SPECIFICATION Spec
INVARIANTS TypeOK WireInOrder EpollInSync WatchedIffBuffered UpThenDown NoDanglingChannel
PROPERTIES ShutdownKeepsOutput PeerCloseRemoves ShutdownCompletes
CHECK_DEADLOCK FALSE
