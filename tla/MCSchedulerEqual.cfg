SPECIFICATION Spec
CONSTANTS
  c1 = c1
  f1 = f1
  f2 = f2
  f3 = f3
  Clients = {c1}
  Worker = Worker
  Owner = Owner
  Funcs <- MCFuncs
  Delays <- EqualDelays
  None = None
  MaxTime = 3
  MaxShutdowns = 2
SYMMETRY MCSymmetry
INVARIANTS
  TypeOK
PROPERTIES
  ImplementsDelayedExecutor
CHECK_DEADLOCK FALSE
