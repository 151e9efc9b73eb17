CONSTANTS
  l1 = l1  l2 = l2  l3 = l3  l4 = l4  l5 = l5
  Lines = {l1, l2, l3, l4, l5}
  Length <- LineLength
  Capacity = 3
  MaxToWrite = 2
  LogDuringStop = FALSE
  NoBuffer = none
SPECIFICATION Spec
INVARIANT StopKeepsLines
CHECK_DEADLOCK FALSE
