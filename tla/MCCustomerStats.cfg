CONSTANTS
  Numbers <- MCNumbers
  FileNumbers <- MCFileNumbers
  Switches <- MCSwitches
  Lists = {"disable_bf_per_customer"}
  Letters <- MCLetters
  Defaults <- MCDefaults
  Values = {0, 1, 2}
  MaxLines = 3
  Customers = {c1}
  Windows <- MCWindows

SPECIFICATION StatsSpec

INVARIANTS
  WellConfigured
  ProtectedHaveNotRecovered

CHECK_DEADLOCK FALSE
