CONSTANTS
  ObjSize <- MCObjSize
  PageBytes = 4
  NObjs = 3
  ChunkSize = 12
  SmallObjSize = 4
  Header = 1
  HeapLimit = 27
  Handles = {1, 2}
  AllocSizes <- MCAllocSizes
  ReallocSizes <- MCReallocSizes
SPECIFICATION Spec
INVARIANT TypeOK
INVARIANT BlocksDisjoint
INVARIANT NoLeak
INVARIANT CapacityOK
