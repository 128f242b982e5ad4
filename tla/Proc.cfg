SPECIFICATION Spec
CONSTANTS
  NPROC = 4
  CPUS = {c1, c2}
  NoCpu = NoCpu
  MaxPid = 4
  KillPids = {2, 3}
SYMMETRY CpuSymmetry
INVARIANTS
  TableConsistent OneStackPerCpu NoLostWakeup NoStackLeak
