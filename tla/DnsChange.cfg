SPECIFICATION Spec
CONSTANTS
  Connectors = {"cloudflare", "route53", "hetzner", "lexicon"}
  TxtValues <- MCTxtValues
  Enrol <- MCEnrol
  Starter = "plain+"
  Inherited = "plain"
  Target = "shared"
  Requests = {r1, r2, r3}
  Resolvers = {x, y}
  MaxIds = 2
  MaxEdits = 1
  MaxFaults = 1
SYMMETRY MCSymmetry
INVARIANTS TypeOK RollbackRestores MigrationIsPublic ConflictIsDisorder
PROPERTIES OnlyReviewedIsLost
CHECK_DEADLOCK FALSE
