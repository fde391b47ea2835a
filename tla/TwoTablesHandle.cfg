CONSTANTS
  t1 = t1
  t2 = t2
  e1 = e1
  e2 = e2
  f = f
  x = x
  y = y
  g = g
  h = h
  moved_from = moved_from
  Name <- MCNames
  NoTable = NoTable
  Element <- MCElements
  NoElement = NoElement
  MovedFrom = MovedFrom
  KeyOf <- MCKeyOf
  Allocator <- MCAllocators
  Hasher <- MCHashers
  AfterMove <- MCAfterMove
  kNullIndex = kNullIndex
  kChunkSize = 1
  kInitialBucketCount = 4
  BucketCounts = {4, 8, 16, 32}
  MaxCapacity = 2
  Programs <- MCHandlePrograms
  Throws <- MCThrows
SPECIFICATION Spec
CHECK_DEADLOCK TRUE
INVARIANTS
  EveryBlockOwned
