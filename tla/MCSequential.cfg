SPECIFICATION MCSpec
CONSTANTS
  Classes = {"any_vf", "any_base", "any"}
  i1 = i1  p1 = p1  p2 = p2  b1 = b1
  Vars = {v1, v2}
  Objs = {o1, o2, o3}
  Values = {i1, p1, p2, b1}
  TypeOf <- MCTypeOf
  Traits <- MCTraits
  None = None
  Kinds = {"next", "call", "iter", "chat"}
  Objects = {"g", "h"}
  First = "g"
  Length = 2
  MaxReads = 4
  Replies = 2
  Awaits = 2
  Syncs = {"a", "b"}
  NoObject = NoObject
  Lists <- MCLists
  Keys = {0, 1, 2, 3, 4}
  Programs <- MCTasks
  Lengths = {0, 1, 2, 3, 10, 94, 95}
  Resumptions = 10
  Others = {"json", "combinator"}
  Throw = Throw
INVARIANTS
  TypesOK
  Ownership
  JsonSafety
  CombinatorSafety
  GeneratorSafety
  FibonacciSafety
  LazySafety
  SearchSafety
  TaskSafety
PROPERTIES
  NothingElseLost
  ImplementsValueHolder
CHECK_DEADLOCK FALSE
