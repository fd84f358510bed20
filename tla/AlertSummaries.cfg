SPECIFICATION Spec
CONSTANTS
  Alerts = {s1, s2}
  Enabled = {"daily", "weekly"}
  Interval = 2
  TicksPerDay = 4
  SendTick = 1
  DaysPerWeek = 2
  WeeklyDay = 0
  MaxClock = 5
  MaxCalls = 2
  MaxFaults = 1
  s1 = s1
  s2 = s2
SYMMETRY Symmetry
INVARIANTS
  TypeOK
  SummaryOnce
  SummariesKeepUp
  HistoryFollows
CHECK_DEADLOCK FALSE
