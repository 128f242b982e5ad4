SPECIFICATION Spec
CONSTANTS
  Procs = {p1, p2}
  NPAGES = 4
  TextPages = 1
  Frames = {f1,f2,f3,f4,f5}
  Forkers = {p1}
  SwapRoom = 1
  NSWAP = 3
  LostRoom = 1
  Torn = Torn
  Zero = Zero
  Junk = Junk
  Phys0 = Phys0
  Null = Null
INVARIANTS
  PagesConserved
PROPERTIES
  ImplementsMemory
SYMMETRY FrameSymmetry
CHECK_DEADLOCK FALSE
