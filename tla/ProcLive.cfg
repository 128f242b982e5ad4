SPECIFICATION FairSpec
CONSTANTS
  NPROC = 3
  CPUS = {c1}
  NoCpu = NoCpu
  MaxPid = 3
  KillPids = {2}
PROPERTIES
  Scheduled KilledIsReaped
