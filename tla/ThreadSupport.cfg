SPECIFICATION FairSpec
CONSTANTS
  Kinds = {"CompatWorker", "BaseWorker", "CompatThread"}
  NJobs = 3
  Limits = {0, 1, 2}
  MaxCalls = 3
INVARIANTS TaskOnce NoUseAfterFree StopOK
PROPERTY NobodyWaitsForever
CHECK_DEADLOCK FALSE
