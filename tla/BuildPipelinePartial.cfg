CONSTANTS
  p1 = p1
  e1 = e1
  Builders = {p1}
  Extensions = {e1}
  MaxVersion = 1
  MaxBuilds = 3
  Worlds = {{"failure", "removal"}}
SPECIFICATION Spec
PROPERTIES
  ReportIsTrue
CHECK_DEADLOCK FALSE
