CONSTANTS
  main = main  helper = helper
  Starters = {main, helper}
  BaseThread = main
  MaxThreads = 2
  MaxClients = 3
  MaxFds = 3
  MaxOthers = 1
SPECIFICATION Spec
INVARIANTS TypeOK SpareKept
PROPERTIES ImplementsConnections WaitingServed DescriptorReturned
CHECK_DEADLOCK FALSE
