SPECIFICATION Spec
CONSTANTS
  Order <- MCOrder
  MaxRuns = 2
  Router = {r1, r2}
INVARIANTS
  TypeOK
  QuotasPutBack
  PurgeLeavesJoinedRouters
  ExitStatusIsTheOutcome
  DetailsExplainTheExitStatus
