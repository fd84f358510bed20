SPECIFICATION FairSpec
CONSTANTS
  Jobs <- OneJob
  Batches <- OneJobBatches
  Schedulers = {s1}
  TaskThreads = {t1}
  Operators = {o1, o2}
  Calls <- JobCalls
  RowLocks = FALSE
  MaxAttempts = 2
  MaxFaults = 0
  s1 = s1
  t1 = t1
  o1 = o1
  o2 = o2
INVARIANTS
  CompletedCoversWindow
PROPERTIES
  EventuallySettles
CHECK_DEADLOCK FALSE
