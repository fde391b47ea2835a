CONSTANTS
  k1 = k1
  k2 = k2
  k3 = k3
  k4 = k4
  NoKey = NoKey
  Key <- MCKeys4
  HashSpace = 2048
  Hashes <- MCHashes
  kInitialBucketCount = 2
  BucketCounts <- MCBucketCounts
  MaxLoadFactors = {80, 200}
  Requests = {0, 8}
SYMMETRY Symmetry4
SPECIFICATION Spec
INVARIANTS
  EmptyBucketRemains
