SPECIFICATION SideSpec
CONSTANTS
  NPROC = 4
  Item = {a, b, c}
  NoItem = null
  Zero = zero
  Old = old
INVARIANTS
  AllocatorCorrect
  ParserCorrect
  GrepCorrect
  ArgumentsCorrect
  ImagesCorrect
PROPERTIES
  FifoSpec
  HeapCorrect
SYMMETRY Symmetry
