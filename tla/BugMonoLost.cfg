SPECIFICATION SelfMonopolySpec
CONSTANTS
  NPROC = 3
  CPUS = {c0}
  BootCpu = c0
  NoCpu = none
  MaxPid = 2
  BoostPeriod = 3
  TqBase = 2
  TqStep = 0
  Calls = {"fork", "setmonopoly", "monopolize", "exit"}
  PidArgs = {2}
PROPERTIES
  MonopolizedRuns
CHECK_DEADLOCK FALSE
