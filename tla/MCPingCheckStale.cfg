SPECIFICATION Spec
CONSTANTS
  Target <- Tc1Target
  Window = 4
  Plan <- Tc1Plan
  Networks <- Tc1Networks
INVARIANT
  UsesUpdatedConfiguration
