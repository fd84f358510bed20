SPECIFICATION FairSpec
CONSTANTS
  Domains <- MCDomains
  Importers = {i, j}
  Limits = {1, 2}
  Confirmations = 2
  MaxImports = 2
  MaxCrashes = 1
INVARIANT TypeOK
PROPERTIES AbsenceIsConfirmed RequestIsServed KeepsTrying
