CONSTANTS
  Keys <- MCKeys
  Lines <- MCLines
  Sizes <- MCSizes
  hd_max_size_bytes <- MCCapacity
  Buckets <- MCBuckets
  Hashes <- MCHashes
  NVAL = 1
  bf_reset_int = 1
  BlockSize = 2
  ReportInterval = 1
  PurgeInterval = 2
  FirstTime = 2
  MaxTime = 6
  MaxUrls = 2

SPECIFICATION Spec

INVARIANTS
  NoOneHitWonders
  DiskIsLRU

PROPERTIES
  NHitIsCached
  NHitIsKept
  ImplementsEmulator

CHECK_DEADLOCK FALSE
