CONSTANTS
  Keys = {k1, k2, k3, k4}
  Sizes <- MCSizes
  Capacity <- MCCapacity
  MaxTime = 2

SPECIFICATION Spec

INVARIANTS
  WellFormed
  OldestAtTail

PROPERTIES
  EvictsLeastRecent
  LostOnArrivalOnlyIfTooLarge
  ImplementsStore
