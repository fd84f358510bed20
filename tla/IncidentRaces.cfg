SPECIFICATION FairSpec
CONSTANTS
  Domains = {d1}
  Outcomes <- OneOutcome
  Actionable <- OneOutcome
  States = {x, y}
  Evaluators <- SchedulerAndHandler
  Postures <- Default
  MaxEvidence = 2
  MaxActions = 0
  MaxCrashes = 0
  d1 = d1
  x = x
  y = y
INVARIANTS
  TypeOK
  TellsOnce
  AnnouncedOnce
  NothingForgotten
PROPERTIES
  NewIncidentIsTold
CHECK_DEADLOCK FALSE
