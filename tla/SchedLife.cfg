SPECIFICATION Spec
CONSTANTS
  NPROC = 4
  CPUS = {c0, c1}
  BootCpu = c0
  NoCpu = none
  MaxPid = 3
  BoostPeriod = 2
  TqBase = 1
  TqStep = 0
  Calls = {"fork", "exit", "wait"}
  PidArgs = {2}
INVARIANTS
  TypeOK
  OneCpu
  StackInUse
  QueuesCorrect
PROPERTIES
  PickLowestLevel
