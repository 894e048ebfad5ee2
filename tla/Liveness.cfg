SPECIFICATION SideSpec
CONSTANTS
  Proc = {p, q, r}
  None = none
  x = x
  y = y
INVARIANTS
  NoLostWakeup
  ShellCorrect
PROPERTIES
  LockSpec
  WaitsEnd
  LinesEnd
