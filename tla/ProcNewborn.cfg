SPECIFICATION Spec
CONSTANTS
  NPROC = 3
  CPUS = {c1}
  NoCpu = NoCpu
  MaxPid = 3
  KillPids = {0}
PROPERTIES
  NewbornNotKilled
