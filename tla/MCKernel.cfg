CONSTANTS
  u1 = u1
  u2 = u2
  b1 = b1
  b2 = b2
  b3 = b3
  Tester = Tester
  Kid1 = Kid1
  Kid2 = Kid2
  NoProc = NoProc
  NoBlock = NoBlock
  NoBuf = NoBuf
  NoValue = NoValue
  NoMemory = NoMemory
  DiskProcs = {u1, u2}
  NBUF = 2
  DiskBlocks = {b1, b2, b3}
  DiskValues = {0, 1}
  DiskJobs <- UsesOfDisk
  MaxPinned = 1
  MaxFail = 1
  DiskCalls = 4
  Filers = {"f1"}
  Swappers = {"s1", "s2"}
  NBLOCKS = 4
  RUN = 2
  LOGSIZE = 6
  MAXOPBLOCKS = 2
  SwapCalls = 1
  BurstCpus = {1}
  BurstSlots = 3
  Bursts = {1, 2}
  Quantum0 = 3
  BurstCalls = 3
  GcdSlots = 3
  Prios = {1, 2, 4}
  GcdCalls = 3
  Sleepers = {1, 2}
  Naps <- SleepNaps
  TICKWRAP = 4
  MaxTicks = 4
  INPUT_BUF = 2
  INDEXWRAP = 4
  COLS = 2
  ROWS = 4
  Readers = {1, 2}
  ReadSizes = {2}
  MaxTyped = 4
  PrintCpus = {1, 2}
  NoPrinter = 0
  LENGTH = 2
  PIECES = 2
  PrintCalls = 2
  WORD = 2
  WOLFIE = 3
  INFO = 4
  ADDRWRAP = 16
  ProcSizes = {5, 8}
  Lengths = {0, 3, 7, 8, 15}
  Implemented = {1, 2, 4}
  Numbers = {0, 1, 2, 3, 4, 5}
  HEAP = 2
  LIMIT = 10
  CORE = 3
  MallocSizes = {1, 2, 4}
  MaxForeign = 1
SPECIFICATION Spec
CHECK_DEADLOCK FALSE
INVARIANTS
  DiskConsistent
  SwapConsistent
  FsConsistent
  StuckAsKnown
  BlocksConsistent
  BurstsServed
  GcdSharesRounds
  SleepsAsAsked
  ConsConsistent
  PrintedWhole
  DevicesServed
  StartsUp
  MemConserved
  PagedConserved
  ShellDoesAsMeant
  MallocConsistent
  ProgramsRight
  ArgsInside
PROPERTIES
  DiskImplementsStore
  ConsImplementsTty
