SPECIFICATION Spec
CONSTANTS
  MaxBytes = 3
  Lengths = {0, 1, 2, 4}
  PtyRoom = 2
  SlaveKept = FALSE
  MaxAccepted = 5
CHECK_DEADLOCK FALSE
INVARIANTS TypeOK BytesInOrder QueueBounded NoChunkStranded BufferFreedOnce WriterEndsLoudly
PROPERTIES WritesArrive CloseReturns ImplementsBytePipe
