SPECIFICATION Spec
CONSTANTS
  Target <- MCTarget
  Window = 3
  Plan <- MCPlan
  Networks <- MCNetworks
INVARIANTS
  TypeOK
  FreshVerdictsAreTrue
  StaleOnlyWithinWindow
  EverySubtestReported
PROPERTIES
  ReportSpec
  Ends
