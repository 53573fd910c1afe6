CONSTANTS
  ObjSize <- MCObjSize
  PageBytes = 4
  NObjs = 3
  ChunkSize = 12
  SmallObjSize = 4
  Header = 1
  HeapLimit = 27
  Handles = {1, 2}
  AllocSizes <- MCGrowAllocSizes
  ReallocSizes <- MCGrowReallocSizes
SPECIFICATION Spec
INVARIANT CapacityOK
