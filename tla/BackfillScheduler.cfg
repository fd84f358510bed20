SPECIFICATION FairSpec
CONSTANTS
  Jobs <- TwoJobs
  Batches <- TwoJobBatches
  Schedulers = {s1}
  TaskThreads = {t1}
  Operators = {}
  Calls <- NoCalls
  RowLocks = TRUE
  MaxAttempts = 2
  MaxFaults = 0
  s1 = s1
  t1 = t1
PROPERTIES
  ImplementsLifecycle
CHECK_DEADLOCK FALSE
