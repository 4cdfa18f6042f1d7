SPECIFICATION Spec
CONSTANTS
  RequireAcks = TRUE
  MaxInflight = 1
  BatchMax = 2
  ReadMax = 2
  UseExternal = FALSE
  MaxExternal = 0
  Nonblocking = TRUE
  PtyCapacity = 2
  MaxOutput = 3
CHECK_DEADLOCK FALSE

PROPERTIES CloseTerminates OutputArrives OverdueBatchIsPosted ImplementsOutputStream
