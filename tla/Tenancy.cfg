SPECIFICATION Spec
CONSTANTS
  Orgs = {"a", "b"}
  Users = {u, v}
  StripeSubs = {"stripe1", "stripe2"}
  ProviderSubs = {"provider"}
  OrgOf <- MCOrgOf
  Limits = {1, 2}
  MaxOperations = 3
SYMMETRY Symmetry
INVARIANTS TypeOK RepeatsAreHarmless EndedGrantsNothing
PROPERTIES SeatsGrowWithinLimit
CHECK_DEADLOCK FALSE
