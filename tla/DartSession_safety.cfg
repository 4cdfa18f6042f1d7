SPECIFICATION Spec
CONSTANTS
  Reporters = {"monitor", "watcher", "wait"}
  Codes = {0, 255}
  Faults = {"exec", "monitor", "host", "kevent", "permission", "childWaiter", "reader", "wait", "mode"}
  ModeEvents = {"monitor", "watcher", "wait"}
  MaxModes = 1
  Closers = {"c1"}
CHECK_DEADLOCK FALSE
INVARIANTS TypeOK ExitCodeIsTrue NothingRunsAfterClose NoProcessLeft
