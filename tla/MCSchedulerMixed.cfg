SPECIFICATION FairSpec
CONSTANTS
  c1 = c1
  f1 = f1
  f2 = f2
  f3 = f3
  Clients = {c1}
  Worker = Worker
  Owner = Owner
  Funcs <- TwoFuncs
  Delays <- MixedDelays
  None = None
  MaxTime = 3
  MaxShutdowns = 1
INVARIANTS
  Safety
PROPERTIES
  Progress
CHECK_DEADLOCK FALSE
