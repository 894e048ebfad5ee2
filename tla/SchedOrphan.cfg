SPECIFICATION Spec
CONSTANTS
  NPROC = 5
  CPUS = {c0}
  BootCpu = c0
  NoCpu = none
  MaxPid = 4
  BoostPeriod = 2
  TqBase = 1
  TqStep = 0
  Calls = {"monopolize", "unmonopolize", "fork", "exit", "wait", "kill"}
  PidArgs = {2}
INVARIANTS
  NoMissedExit
  ParentAlive
  KillReachesWait
