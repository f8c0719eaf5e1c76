CONSTANTS
  Keys = {k1, k2, k3, k4}
  Sizes <- MCSizes
  Capacity <- MCCapacity
  MaxTime <- MCMaxTime
  TTLs <- MCTTLs

SPECIFICATION AgeSpec

INVARIANTS
  FIFOWellFormed

PROPERTIES
  EvictsFirstIn
