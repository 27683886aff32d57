SPECIFICATION ConcurrentSpec
CONSTANTS
  Targets = {1, 2, 3, 4, 6}
  Fractions = {0, 1, 2, 3, 4}
  Misses = {1, 2, 4}
  SizeValues = 64
  IntValues = 32
  Workers = {1, 2}
  Lists <- MCLists
  Items = {"a", "b"}
  Pushers = {"p1", "p2"}
  Takers = {"w1", "w2"}
  Triers = {"t"}
  Stopper = "s"
  Programs <- MCPrograms
  Runs = 3
  None = None
  Sleep = Sleep
  Main = Main
  Sched = Sched
  Setter = setter
  Continuer = continuer
  Waiters = {w}
  Builds = {"debug", "release"}
INVARIANTS
  TypesOK
  Safety
  LookUpSafety
  SortSafety
  QueueSafety
  ChainSafety
  ThreadSafety
PROPERTIES
  ResumedOncePerAwait
  Progress
CHECK_DEADLOCK FALSE
