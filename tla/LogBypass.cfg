SPECIFICATION Spec
CONSTANTS
  Ops = {o1, o2}
  Boot = Boot
  Bypass = Bypass
  Logged = {a, b}
  Direct = {b}
  LOGSIZE = 6
  MAXOPBLOCKS = 3
  OpWrites = 2
  MaxCrash = 1
INVARIANT AllOrNothing
CHECK_DEADLOCK FALSE
