CONSTANTS
  l1 = l1  l2 = l2  l3 = l3  l4 = l4  l5 = l5
  Lines = {l1, l2, l3, l4, l5}
  Length <- LineLength
  Capacity = 3
  MaxToWrite = 2
  LogDuringStop = TRUE
  NoBuffer = none
SPECIFICATION Spec
INVARIANTS TypeOK SparesSuffice LinesInOrder
PROPERTIES EveryLineWritten StopCompletes
CHECK_DEADLOCK FALSE
