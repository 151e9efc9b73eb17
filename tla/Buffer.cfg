CONSTANTS
  a = a  b = b
  Byte = {a, b}
  Zero = b
  Data <- Strings
  kCheapPrepend = 2
  kInitialSize = 2
  ExtraSize = 2
  MaxReadable = 3
SPECIFICATION Spec
INVARIANT TypeOK
PROPERTY ImplementsByteQueue
CHECK_DEADLOCK FALSE
