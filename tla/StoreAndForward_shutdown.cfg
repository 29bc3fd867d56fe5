CONSTANTS
  t1 = t1  g1 = g1  c1 = c1
  Records = {t1, g1}
  Kind <- MCKind
  Cycles = {c1}
  MaxLocalStorage = 2
  BatchSize = 1
  MaxFaults = 1
  MaxCrashes = 0
  MaxShutdowns = 1
  ShutdownWhileStoring = TRUE
SPECIFICATION Spec
INVARIANTS NoLoss
CHECK_DEADLOCK FALSE
