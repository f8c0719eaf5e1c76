CONSTANTS
  Keys = {k1, k2, k3, k4}
  Sizes <- MCSizes
  Capacity <- MCCapacity
  LRU_list_size = 2
  MaxTime = 2

SPECIFICATION SizeSpec

INVARIANTS
  SizeWellFormed
  StopsAtTheHead

PROPERTIES
  EvictsLargestOfOldest
  PutsReturn
  SizeImplementsStore
