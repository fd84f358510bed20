SPECIFICATION Spec
CONSTANTS
  Domains = {d1}
  Outcomes <- TwoOutcomes
  Actionable <- OneOutcome
  States = {x}
  Evaluators <- SchedulerOnly
  Postures <- ThreePostures
  MaxEvidence = 3
  MaxActions = 1
  MaxCrashes = 1
  d1 = d1
  x = x
INVARIANTS
  NothingForgotten
CHECK_DEADLOCK FALSE
