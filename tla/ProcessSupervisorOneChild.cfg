CONSTANTS
  p1 = p1
  p2 = p2
  s1 = s1
  s2 = s2
  Procs = {p1}
  Shutters = {s1, s2}
  Inherits = {}
  Forking = {p1}
  Forwarded = {p1}
SPECIFICATION FairSpec
INVARIANTS
  ResultMeansTreeGone
PROPERTIES
  StopCompletes
CHECK_DEADLOCK FALSE
