SPECIFICATION FairSpec
CONSTANTS
  c1 = c1
  f1 = f1
  f2 = f2
  f3 = f3
  Clients <- MCClients
  Funcs <- MCFuncs
  Looper = Looper
  Owner = Owner
  None = None
  MaxShutdowns = 2
INVARIANTS
  TypeOK
  Safety
PROPERTIES
  NothingStartsAfterSweep
  ImplementsSerialExecutor
  Progress
CHECK_DEADLOCK FALSE
