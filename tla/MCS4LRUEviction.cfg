CONSTANTS
  Keys = {k1, k2, k3, k4}
  Sizes <- MCSizes
  Capacity <- MCCapacity
  queue_count <- MCQueueCount

SPECIFICATION Spec

INVARIANTS
  WellFormed
  NodeOutlivesGet

PROPERTIES
  PutsStayBelow
  LostOnArrivalOnlyIfTooLarge
  OperationsReturn
