CONSTANTS
  u1 = u1
  u2 = u2
  t1 = t1
  t2 = t2
  t3 = t3
  a = a
  b = b
  Users = {u1, u2}
  Themes = {t1, t2, t3}
  Paths = {a, b}
  NoTheme = NoTheme
  MaxRetries = 1
  MaxEnvironments = 2
SYMMETRY Symmetry
SPECIFICATION Spec
INVARIANTS
  ThemesAccountedFor
PROPERTIES
  SuccessIsTrue
CHECK_DEADLOCK FALSE
