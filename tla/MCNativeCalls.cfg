SPECIFICATION Spec
CONSTANTS
  Isolates = {i1, i2}
  Threads = {t1, t2}
  Requests <- MCRequests
  Sizes <- MCSizes
  ProgramSizes <- MCProgramSizes
  TtyNames <- MCTtyNames
  Majors = {1, 2}
  AbiMajor = 1
  Max16 = 3
  Mod32 = 8
  Bytes = {"x", "y", "=", "NUL"}
  Keys <- MCKeys
  Values <- MCValues
  Parent <- MCParent
  MayFail = {"initialize", "openpty", "panic", "resize", "termios"}
SYMMETRY MCSymmetry
INVARIANTS TypeOK ErrorIsOwn EnvironmentIsAsAsked
PROPERTY ReadsAreTrue
