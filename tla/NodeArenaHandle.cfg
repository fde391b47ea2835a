CONSTANTS
  k1 = k1
  k2 = k2
  k3 = k3
  Key <- MCKeys
  NoKey = NoKey
  kNullIndex = kNullIndex
  kChunkSize = 2
  MaxCapacity = 4
  Throws = {}
  HandleThrows = {"link"}
  HintInserts = FALSE
SPECIFICATION Spec
CHECK_DEADLOCK TRUE
PROPERTIES
  ImplementsElementStore
