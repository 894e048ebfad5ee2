SPECIFICATION TimedSpec
CONSTANTS
  NPROC = 4
  CPUS = {c0}
  BootCpu = c0
  NoCpu = none
  MaxPid = 3
  BoostPeriod = 5
  TqBase = 2
  TqStep = 0
  Calls = {"fork", "wait", "kill", "yield"}
  PidArgs = {2}
INVARIANTS
  TqBounded
PROPERTIES
  NoStarvation
  KilledExits
