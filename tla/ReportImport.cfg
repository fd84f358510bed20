SPECIFICATION FairSpec
CONSTANTS
  m1 = m1
  m2 = m2
  r1 = r1
  r2 = r2
  old = old
  a = a
  b = b
  Messages = {m1, m2}
  Reports = {r1, r2, old}
  Carries <- OneEach
  Cells = {a, b}
  CellsOf <- SenderOf
  NewPolicy = {r2}
  RowIds = {w1, w2, w3, w4, w5, w6}
  w1 = w1
  Legacy = {w1}
  LegacyReport <- HoldsOld
  Scheduler = "poll"
  Manual = {"backfill"}
  Threads = {"poll", "backfill"}
  Retrying = {"backfill"}
  Keeping = {"backfill"}
  Uploaders = {"client"}
  Uploads = {r1}
  BatchLimit = 2
  MaxManual = 1
  MaxUploads = 1
  MaxDeletes = 1
  MaxHydrates = 1
  MaxFaults = 1
  MaxTotal = 2
INVARIANTS
  TypeOK
  CountersAreRight
  IngestedIsAccountedFor
  SomebodyGoesOn
PROPERTIES
  EveryMessageIsHandled
  EveryRowIsProjected
