SPECIFICATION Spec
CONSTANTS
  NPROC = 3
  CPUS = {c0}
  BootCpu = c0
  NoCpu = none
  MaxPid = 3
  BoostPeriod = 2
  TqBase = 1
  TqStep = 0
  Calls = {"fork", "sleep", "setmonopoly", "monopolize"}
  PidArgs = {2, 3}
INVARIANTS
  MonopolyLevelOnly
PROPERTIES
  MoqHoldsSleepers
CHECK_DEADLOCK FALSE
