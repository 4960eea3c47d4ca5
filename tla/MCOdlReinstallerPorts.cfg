CONSTANTS
  c0 = c0
  c1 = c1
  compute = compute
  Nobody = Nobody
  Node <- MCNode
  DictOrder <- MCDictOrder
  Controller <- MCController
  Quagga <- MCController
  AnyController <- MCController
  Attempts = 2
  MaxRuns = 1
SPECIFICATION Spec
INVARIANT NoPortsLeftForOdl
