SPECIFICATION FairSpec
CONSTANTS
  Writers = {w1}
  Readers = {r1, r2}
  NoProc = NoProc
  PIPESIZE = 2
  UintMod = 4
  Lens = {1, 3}
  Killable = {w1, r1}
INVARIANTS
  PipeConsistent
PROPERTIES
  ReadsInOrder CallsReturn
\* a call that waits for ever is what CallsReturn excludes
CHECK_DEADLOCK FALSE
