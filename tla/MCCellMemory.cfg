SPECIFICATION Spec
CONSTANTS
  Cell = {"plain", "colored"}
  Pages = 19
  Word = 18
  PoolBase = 1
  Fanout = 2
  Levels = 3
  HasBlock = {2, 3}
  RootSize = 2
  RootMem <- MCRootMem
  Mem <- MCMem
  ColMem <- MCColMem
  Unit = 1
  Stride = 2
  CommPhys <- MCCommPhys
  MaxOther = 2
CONSTRAINT Returned
INVARIANTS
  CellHasItsMemory
  RootKeepsTheRest
  NoPageLost
  UnmapCannotFail
