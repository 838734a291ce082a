SPECIFICATION FairSpec
CONSTANTS
  None = None
  Captures = {c1, c2}
  MaxFrames = 2
  Workloads <- MCWorkloads
INVARIANTS
  TypeOK
  NewestShows
  Accounted
  PinsSettle
  FencedByStop
PROPERTIES
  TurnsKeepOrder
  TurnsResolve
  StopReturns
