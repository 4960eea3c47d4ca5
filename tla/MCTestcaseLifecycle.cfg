SPECIFICATION Spec
CONSTANTS
  Res <- MCRes
  Kind <- MCKind
  Testcase <- MCTestcase
  Script <- MCScript
  TryAt <- MCTryAt
  Breaks <- MCBreaks
  Needs <- MCNeeds
  Leftovers <- MCLeftovers
  MaxFaults = 1
INVARIANTS
  TypeOK
  QuietCleanupLeavesNothing
  QuietCleanupDeletesNoted
  NormalBodyNotesAll
PROPERTIES
  RefusedOnlyUnjoined
  Ends
