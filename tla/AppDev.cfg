CONSTANTS
  Processes = {"web", "theme", "tunnel", "mkcert"}
  MaxReconnects = 1
  Clients = {"browser"}
  Configurations <- Options
  MaxEdits = 2
SPECIFICATION FairSpec
INVARIANTS
  AppDevInv
  CleanEnd
PROPERTIES
  EditsArrive
  CancelEndsAppDev
CHECK_DEADLOCK FALSE
