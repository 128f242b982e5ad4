SPECIFICATION FairSpec
CONSTANTS
  Procs = {p1, p2, p3}
  NoHolder = NoHolder
INVARIANTS
  SleepLockConsistent
PROPERTIES
  ImplementsMutex FreeLockIsTaken
