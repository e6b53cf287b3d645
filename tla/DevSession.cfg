CONSTANTS
  web = web
  worker = worker
  extension = extension
  Components = {web, worker, extension}
  MaxRestarts <- Budget
  RestartFailed = TRUE
SPECIFICATION FairSpec
INVARIANTS
  NothingLeftBehind
  DInv
PROPERTIES
  CancelEndsSession
  NoVerdictOnCancelled
CHECK_DEADLOCK FALSE
