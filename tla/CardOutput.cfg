SPECIFICATION FairSpec
CONSTANTS
  None = None
  MaxGen = 2
  MaxRev = 2
  Workloads <- Loads
INVARIANTS
  TypeOK
PROPERTIES
  VaultFollowsOwners
  StaleProvesNothing
  OutputsSettle
CHECK_DEADLOCK FALSE
