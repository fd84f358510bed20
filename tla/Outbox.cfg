SPECIFICATION FairSpec
CONSTANTS
  Endpoints = {e1}
  Events = {a}
  Tests = {t}
  Producers = {p}
  CycleLimit = 1
  CallLimit = 2
  MaxAttempts = 3
  MaxCalls = 1
  MaxToggles = 2
  MaxCrashes = 1
  e1 = e1
  a = a
  t = t
  p = p
INVARIANTS
  TypeOK
  DeliveredWasAccepted
  GivenUpAfterAllAttempts
PROPERTIES
  AcceptedOnce
  EventuallyFinal
CHECK_DEADLOCK FALSE
