SPECIFICATION FairSpec
CONSTANTS
  A = A
  B = B
  c1 = c1
  t1 = t1
  t2 = t2
  t3 = t3
  Pools <- TwoPools
  Size <- SingleSizes
  Steal <- MixedSteal
  Clients = {c1}
  Tasks <- TwoTasks
  None = None
PROPERTIES
  Progress
CHECK_DEADLOCK FALSE
