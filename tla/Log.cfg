SPECIFICATION FairSpec
CONSTANTS
  Ops = {o1, o2, o3}
  Boot = Boot
  Bypass = Bypass
  Logged = {a, b}
  Direct = {d}
  LOGSIZE = 6
  MAXOPBLOCKS = 3
  OpWrites = 2
  MaxCrash = 1
INVARIANTS
  LogConsistent
PROPERTIES
  ImplementsAtomicDisk CallsReturn
CHECK_DEADLOCK FALSE
