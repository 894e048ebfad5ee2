SPECIFICATION Spec
CONSTANTS
  NPROC = 3
  CPUS = {c0, c1}
  BootCpu = c0
  NoCpu = none
  MaxPid = 2
  BoostPeriod = 2
  TqBase = 1
  TqStep = 0
  Calls = {"fork", "setmonopoly"}
  PidArgs = {2}
INVARIANTS
  NoAcquirePanic
CHECK_DEADLOCK FALSE
