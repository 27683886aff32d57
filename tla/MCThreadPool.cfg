SPECIFICATION Spec
CONSTANTS
  A = A
  B = B
  c1 = c1
  t1 = t1
  t2 = t2
  t3 = t3
  Pools <- TwoPools
  Size <- TwoSizes
  Steal <- MixedSteal
  Clients = {c1}
  Tasks <- MCTasks
  None = None
SYMMETRY MCSymmetry
INVARIANTS
  TypeOK
  ExactlyOnce
  FifoUnlessStolen
  Safety
PROPERTIES
  LeftoversNeverRun
CHECK_DEADLOCK FALSE
