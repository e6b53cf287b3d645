CONSTANTS
  DeployOptions <- Options
  LocalModules <- Described
  RemoteModules <- Active
  Damaged <- Half
  Foreign <- Other
  Rebuilt <- Beside
  MaxPuts = 1
  MaxPolls = 2
  MaxOthers = 1
  MaxLogs = 3
  Configs = {"default", "a", "b"}
  Flagged = "a"
  FromEnvironment = "b"
  NamedDefault = "b"
  Connections = {"c1", "c2"}
  MaxTokens = 3
  MaxAttempts = 3
  p1 = p1
  e1 = e1
  e2 = e2
  Builders = {p1}
  Extensions = {e1, e2}
  MaxVersion = 2
  MaxBuilds = 3
  Worlds = {{}, {"failure"}, {"removal"}}
SPECIFICATION Spec
INVARIANTS
  DeployIsTrue
  MutationAllowed
  NoLogLost
  SameChoice
  UserFilesKept
  MutatesOnce
  EndIsTrue
  CacheIsReadable
PROPERTIES
  ReportIsTrue
CHECK_DEADLOCK FALSE
