CONSTANTS
  t1 = t1  g1 = g1  c1 = c1
  Records = {t1, g1}
  Kind <- MCKind
  Cycles = {c1}
  MaxLocalStorage = 2
  BatchSize = 2
  MaxFaults = 2
  MaxCrashes = 1
  MaxShutdowns = 1
  ShutdownWhileStoring = FALSE
SPECIFICATION FairSpec
INVARIANTS TypeOK NoLoss NoForgottenRecord DurableBeforeUse RestartAcceptsQueue RetryArmed
PROPERTIES ImplementsDurableQueue Delivered StoreAnswered
CHECK_DEADLOCK FALSE
