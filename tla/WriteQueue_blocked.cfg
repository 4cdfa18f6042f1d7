SPECIFICATION Spec
CONSTANTS
  MaxBytes = 3
  Lengths = {0, 1, 2, 4}
  PtyRoom = 2
  SlaveKept = TRUE
  MaxAccepted = 3
CHECK_DEADLOCK FALSE
PROPERTY CloseReturns
