CONSTANTS
  a = a
  b = b
  Paths = {a, b}
  MaxEdits = 3
SPECIFICATION FairSpec
INVARIANTS
  NoChangeLost
  ThemeIsDeleted
PROPERTIES
  Converges
CHECK_DEADLOCK FALSE
