CONSTANTS
  k1 = k1
  k2 = k2
  Procs = {p1, p2}
  Keys = {k1, k2}
  bfsize <- MCbfsize
  Hashes <- MCHashes
  ByteBits = 1
  WordBytes = 2
  Builds = {FALSE, TRUE}
  MaxSaves = 3

SPECIFICATION Spec

INVARIANTS
  TypeOK
  SavesAccumulate
  RestartKnows

PROPERTIES
  SavesReturn
