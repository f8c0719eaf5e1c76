CONSTANTS
  Keys = {k1, k2, k3}
  NoBFCust = {k3}
  Sizes <- MCSizes
  Capacity <- MCCapacity
  MaxTime <- MCMaxTime
  Formulas <- MCFormulas
  w_age = 2
  w_size = 3
  grades = 2
  age_power <- MCAgePower
  ef4_e = 1
  lru_interval = 2

SPECIFICATION CostSpec

INVARIANTS
  CostWellFormed

PROPERTIES
  EvictsNoneDominated
