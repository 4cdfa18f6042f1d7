SPECIFICATION Spec
CONSTANTS
  Reporters = {"monitor"}
  Codes = {7}
  Faults = {}
  ModeEvents = {"monitor"}
  MaxModes = 0
  Closers = {"c1", "c2"}
CHECK_DEADLOCK FALSE
INVARIANT HandleFreedOnce
