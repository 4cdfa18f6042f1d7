SPECIFICATION Spec
CONSTANTS
  RequireAcks = TRUE
  MaxInflight = 2
  BatchMax = 2
  ReadMax = 2
  UseExternal = TRUE
  MaxExternal = 2
  Nonblocking = TRUE
  PtyCapacity = 2
  MaxOutput = 7
CHECK_DEADLOCK FALSE
INVARIANTS TypeOK InflightExact InflightBound StreamIntact BatchesFit IsolateBacklogBound ExternalBytesExact
