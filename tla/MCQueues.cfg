SPECIFICATION Spec
CONSTANTS
  BlockSize = 2
  IndexSize = 2
  Span = 8
  Pool = 1
  MaxBlocks = 2
  MaxIndex = 4
  MaxElements = 9
  MaxClaims = 7
  Consumers = {c1, c2}
  MaxBulk = 3
  ImplicitBulk = 2
  ExplicitSpan = 16
  ExplicitElements = 6
  ExplicitClaims = 3
  MAX_BLOCK_SIZE = 4
  MaxSizes = {1, 8}
  Memory = 1
  RWElements = 14
  Second = 2
  Deadlines = {1, 3}
SYMMETRY Same
INVARIANTS
  CountsAgree
  ReadsOwn
  FreeUnused
  DestructorExact
  HoldsMaxSize
PROPERTIES
  ImplementsFifo
CHECK_DEADLOCK FALSE
