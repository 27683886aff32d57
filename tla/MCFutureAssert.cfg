SPECIFICATION Spec
CONSTANTS
  Setter = setter
  Continuer = continuer
  Waiters = {w}
  Builds = {"debug"}
INVARIANTS
  AssertHolds
CHECK_DEADLOCK FALSE
