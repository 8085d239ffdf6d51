SPECIFICATION Spec
CONSTANTS
  HeapStart = 1
  HeapSize = 19
  MIN_MEMBLOCK_SIZE = 2
  HDR = 1
  IOB_SIZE = 2
  IOB_ALIGN = 2
  IOB_ZLEN = 2
  Sizes = {1, 4}
  IobLens = {1, 3, 5}
  MaxHandles = 4
  Requests <- MCRequests
INVARIANT Coalesced
PROPERTIES HeapPromise BlockDiscipline
