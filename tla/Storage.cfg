SPECIFICATION SideSpec
CONSTANTS
  Proc = {p, q, r}
  Block = {x, y, z}
  Buf = {u, v}
  None = none
  Value = {0, 1}
  LOGSIZE = 4
  MAXOPBLOCKS = 2
  LogBlocks = 4
  OpBlocks = 1
  MaxLinks = 2
INVARIANTS
  DiskCorrect
  InodesCorrect
PROPERTIES
  LogCorrect
  CacheCorrect
SYMMETRY Symmetry
