SPECIFICATION FairSpec
CONSTANTS
  None = None
  MaxStops = 2
  MaxPending = 1
  MaxRuns = 2
INVARIANTS
  TypeOK
  Coupled
  CardsPair
PROPERTIES
  KeepsContract
  StopsAnswered
  EndedSessionSettles
