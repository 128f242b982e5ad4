SPECIFICATION Spec
CONSTANTS
  Procs = {p1, p2}
  NPAGES = 4
  TextPages = 1
  Frames = {f1,f2,f3,f4,f5,f6}
  Forkers = {}
  SwapRoom = 0
  NSWAP = 9
  LostRoom = 0
  Torn = Torn
  Zero = Zero
  Junk = Junk
  Phys0 = Phys0
  Null = Null
INVARIANT SureOfAPage
SYMMETRY FrameSymmetry
CHECK_DEADLOCK FALSE
