CONSTANTS
  p1 = p1
  p2 = p2
  s1 = s1
  s2 = s2
  Procs = {p1, p2}
  Shutters = {s1}
  Inherits = {p1, p2}
  Forking = {}
  Forwarded = {}
SYMMETRY Symmetry
SPECIFICATION Spec
INVARIANTS
  IInv
  NoLostWakeup
  DropRequestsCleanup
  ShutdownStopsItsTargets
PROPERTIES
  KillOnlyAfterSignal
  ImplementsLifecycle
CHECK_DEADLOCK FALSE
