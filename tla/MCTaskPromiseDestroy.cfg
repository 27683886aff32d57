SPECIFICATION Spec
CONSTANTS
  c1 = c1
  c2 = c2
  f1 = f1
  f2 = f2
  f3 = f3
  Resume = Resume
  Clients <- MCClients
  Owner = Owner
  Callbacks = {f1, f2, f3, Resume}
  Kind <- MCKind
  Modes = {"dispatch"}
  None = None
INVARIANTS
  DestroyedFinished
CHECK_DEADLOCK FALSE
