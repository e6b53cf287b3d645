CONSTANTS
  JobCount = 3
  MaxJobs = 2
  MaxMemory = 3
  Estimates = {0, 1, 2, 3, 4}
  NoJob = NoJob
SPECIFICATION FairSpec
INVARIANTS
  AInv
PROPERTY
  ImplementsAdmission
  EveryBatchReturns
CHECK_DEADLOCK FALSE
