SPECIFICATION Spec
CONSTANTS
  Reporters = {"watcher", "monitor", "wait"}
  Codes = {7}
  Faults = {"exec", "childWaiter", "reader", "wait", "permission", "host", "kevent", "monitor"}
  ModeEvents = {"wait"}
  MaxModes = 0
  Closers = {"c1"}
CHECK_DEADLOCK FALSE
PROPERTIES CloseCompletes ExitIsReported SpawnReturns
