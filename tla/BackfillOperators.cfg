SPECIFICATION Spec
CONSTANTS
  Jobs <- OneJob
  Batches <- OneJobBatches
  Schedulers = {s1}
  TaskThreads = {t1, t2}
  Operators = {o1, o2, o3}
  Calls <- SourceCalls
  RowLocks = TRUE
  MaxAttempts = 2
  MaxFaults = 1
  s1 = s1
  t1 = t1
  t2 = t2
  o1 = o1
  o2 = o2
  o3 = o3
INVARIANTS
  TypeOK
  RunnerPermits
  NoOrphanedRunning
CHECK_DEADLOCK FALSE
