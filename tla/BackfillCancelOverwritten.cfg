SPECIFICATION Spec
CONSTANTS
  Jobs <- OneJob
  Batches <- OneJobBatches
  Schedulers = {s1}
  TaskThreads = {}
  Operators = {o1}
  Calls <- JobCalls
  RowLocks = TRUE
  MaxAttempts = 3
  MaxFaults = 0
  s1 = s1
  o1 = o1
PROPERTIES
  CancelSticks
CHECK_DEADLOCK FALSE
