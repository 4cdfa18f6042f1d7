SPECIFICATION Spec
CONSTANTS
  Reporters = {"monitor", "wait", "watcher"}
  Codes = {7}
  Faults = {}
  ModeEvents = {"monitor", "wait", "watcher"}
  MaxModes = 0
  Closers = {"c1"}
CHECK_DEADLOCK FALSE
INVARIANT NoStrangerSignalled
