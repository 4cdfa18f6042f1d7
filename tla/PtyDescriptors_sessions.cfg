SPECIFICATION Spec
CONSTANTS
  Sessions = {"a", "b"}
  MayFail = {"pty", "pipe", "fork", "monitorFork", "exec", "monitor"}
CHECK_DEADLOCK FALSE
INVARIANTS TypeOK ProgramHoldsItsTerminal HostLeaksNothing
PROPERTIES CallsReturn DescriptorsReleased
