CONSTANTS
  k1 = k1
  k2 = k2
  k3 = k3
  k4 = k4
  Key <- MCKeys
  NoKey = NoKey
  kNullIndex = kNullIndex
  kChunkSize = 4
  MaxCapacity = 4
  Buckets = {0, 1}
  Home <- MCHome
  EraseElsewhere = FALSE
SYMMETRY MCSymmetry
SPECIFICATION Spec
CHECK_DEADLOCK TRUE
INVARIANTS
  TypeOK
  LoopPassesEachOnce
  EraseIfRemovesExactly
  HeldIteratorDenotes
  ScanVisitsBucket
  RangeErasedExactly
