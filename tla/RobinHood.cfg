CONSTANTS
  k1 = k1
  k2 = k2
  k3 = k3
  k4 = k4
  NoKey = NoKey
  Key <- MCKeys4
  HashSpace = 2048
  Hashes <- MCHashes
  kInitialBucketCount = 2
  BucketCounts <- MCBucketCounts
  MaxLoadFactors = {0, 50, 100}
  Requests = {0, 8}
SPECIFICATION FairSpec
INVARIANTS
  TypeOK
  EveryLiveKeyFindable
  ProbeDistanceBounded
  EmptyBucketRemains
  IInv
PROPERTIES
  CallsReturn
  ImplementsKeySet
