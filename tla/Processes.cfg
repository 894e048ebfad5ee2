SPECIFICATION SideSpec
CONSTANTS
  Cpu = {c, d}
  Proc = {init, t}
  First = c
  InitProc = init
  Pair = {p, q}
  Twin = {r, s}
  None = none
  PIPESIZE = 2
  PipeModulus = 4
  Byte = {0, 1}
  MaxCount = 2
  MaxWait = 3
  NPROC = 2
  Page = {1, 2, 3, 4, 5, 6, 7, 8, 9, 10, 11, 12, 13}
  PGSIZE = 2
  NPTENTRIES = 2
  MaxPages = 4
  Image = {1}
  Grow = {3}
  Shrink = {1}
  SharedProcs = 3
  SharedPage = {1, 2, 3, 4, 5, 6, 7, 8, 9, 10, 11, 12, 13, 14}
  SharedMaxPages = 3
  ClockModulus = 4
  Durations = {0, 2}
  MaxElapsed = 4
INVARIANTS
  SwitchCorrect
  MemoryCorrect
PROPERTIES
  PipesCorrect
  ClockCorrect
SYMMETRY Symmetry
