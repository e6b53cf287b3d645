CONSTANTS
  f1 = f1
  f2 = f2
  f3 = f3
  Files = {f1, f2, f3}
SPECIFICATION CommitSpec
INVARIANTS
  AllOrNothing
  OriginalsSurvive
  CInv
CHECK_DEADLOCK FALSE
