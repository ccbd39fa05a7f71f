SPECIFICATION Spec
CONSTANTS
  NALLOC = 2
  procmemlen <- MClen
  MemLen = 9
  Word = 2
  Requests = {1, 2, 3, 5}
  Null = Null
  Junk = Junk
  MaxDepth = 2
INVARIANTS
  NoOverlap
  FreeListsExact
  NoLeak
PROPERTIES
  ImplementsAllocator
CHECK_DEADLOCK FALSE
