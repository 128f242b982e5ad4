SPECIFICATION FairSpec
CONSTANTS
  CPUS = {c1, c2}
  NoCpu = NoCpu
  MaxNest = 1
INVARIANTS
  SpinlockConsistent
PROPERTIES
  ImplementsMutex LockIsFreed
\* a CPU that spins for ever is what LockIsFreed excludes
CHECK_DEADLOCK FALSE
