SPECIFICATION SideSpec
CONSTANTS
  Nil = nil
  Caller = {p, q}
  Inode = {i, j}
  Root = root
  FileName = {"a", "b"}
  DirName = {"a"}
  PathLen = 2
  User = {"p", "q"}
  FirstUser = "p"
  File = {f, g, h}
  NOFILE = 2
  PipePage = {k}
  Twin = {r, s}
  Typed = {"a", "newline", "eof"}
  Newline = "newline"
  Eof = "eof"
  INPUT_BUF = 3
  UINT = 6
  MaxRead = 2
  ROWS = 3
  COLS = 3
  Glyph = {"a", "b"}
  MaxText = 10
  NCPU = 3
  Early = {"p", "q", "r"}
  Late = {"s"}
  NUM_THREADS = 3
  NUM_ITERS = 2
INVARIANTS
  DirectoriesCorrect
  NamesCorrect
  OpenFilesCorrect
  StartCorrect
PROPERTIES
  ContentsCorrect
  ConsoleCorrect
  ExerciseCorrect
SYMMETRY Symmetry
