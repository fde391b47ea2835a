CONSTANTS
  k1 = k1
  k2 = k2
  k3 = k3
  Key <- MCKeys
  NoKey = NoKey
  kNullIndex = kNullIndex
  kChunkSize = 2
  MaxCapacity = 4
  Throws = {"chunk", "construct", "link"}
  HandleThrows = {}
  HintInserts = FALSE
SPECIFICATION Spec
CHECK_DEADLOCK TRUE
INVARIANTS
  TypeOK
  NothingLeaks
  IndexMatchesIteration
  IInv
PROPERTIES
  ImplementsElementStore
