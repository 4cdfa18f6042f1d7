SPECIFICATION Spec
CONSTANTS
  Reporters = {"monitor"}
  Codes = {7}
  Faults = {"mode"}
  ModeEvents = {"monitor"}
  MaxModes = 0
  Closers = {"c1"}
CHECK_DEADLOCK FALSE
PROPERTY SpawnReturns
