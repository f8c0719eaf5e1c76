CONSTANTS
  k1 = k1
  k2 = k2
  k3 = k3
  k4 = k4
  Keys = {k1, k2, k3, k4}
  Buckets <- MCBuckets
  Hashes <- MCHashes
  NVAL = 2
  CounterRange = 256
  MaxAge = 2
  MaxTime = 6

SPECIFICATION BothSpec

INVARIANT
  NHitAdmits
