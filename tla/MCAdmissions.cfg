CONSTANTS
  k1 = k1
  k2 = k2
  k3 = k3
  k4 = k4
  Keys = {k1, k2, k3, k4}
  Buckets <- MCBuckets
  Hashes <- MCHashes
  NVAL = 1
  CounterRange = 2
  MaxAge = 2
  MaxTime = 7

SPECIFICATION BothSpec

INVARIANTS
  WellFormed
  NHitAdmits
  NotBeforeNHits
  RotationOnlyForgets

