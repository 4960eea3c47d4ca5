SPECIFICATION Spec
CONSTANTS
  Target <- MCTarget
  Window = 3
  Plan <- MCPlan
  Networks <- MCNetworks
INVARIANT
  AllSubtestsPassed
