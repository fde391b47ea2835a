CONSTANTS
  k1 = k1
  k2 = k2
  k3 = k3
  Key <- MCTwoKeys
  NoKey = NoKey
  kNullIndex = kNullIndex
  kChunkSize = 1
  MaxCapacity = 3
  Throws = {"chunk", "chunk_push", "construct", "hash", "rehash", "rehash_hash", "link", "index_hash"}
  HandleThrows = {"chunk", "chunk_push", "construct", "hash", "rehash", "rehash_hash", "link", "index_hash"}
  HintInserts = TRUE
SPECIFICATION Spec
CHECK_DEADLOCK TRUE
SYMMETRY MCSymmetry2
INVARIANTS
  SlotsNeverShared
  AuxWordsAgree
