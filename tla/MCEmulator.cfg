CONSTANTS
  Keys <- MCKeys
  Lines <- MCLines
  Depth = 2
  BlockSize = 2
  Configurations <- MCConfigurations
  DoHourlyPurging = {1, 2}
  SizeThreshold = 2
  Prob = 1
  RandMax = 2
  FrontEndMode = FALSE
  PartialObjectCaching = TRUE
  ReportInterval = 1
  PurgeInterval = 2
  FirstTime = 2
  MaxTime = 4
  MaxUrls = 2
  MaxLines = 4

SPECIFICATION ReplaySpec

INVARIANTS
  WellCounted
  LayersAddUp
  NoBetterThanInfinite
  ReportsAreWindows
  RefusalsTravelUp

CHECK_DEADLOCK FALSE
