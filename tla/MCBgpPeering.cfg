SPECIFICATION Spec
CONSTANTS
  OdlNode = {o1, o2}
  Nobody = Nobody
  BootTries = 1
  PeerTries = 2
  MaxMoves = 1
  MaxRuns = 2
INVARIANTS
  TypeOK
  BgpPutBack
  PassesAreOurs
  WaitsReportWhatTheySaw
PROPERTY
  Ends
