SPECIFICATION FairSpec
CONSTANTS
  None = None
  Formats = {f1, f2}
  MaxPages = 1
  Workloads <- MCWorkloads
  MaxFrames = 3
  StallLimit = 1
  ManualStallLimit = 2
CHECK_DEADLOCK FALSE
INVARIANTS
  TypeOK
  EndsAsAsked
  PrefixKept
  OwnRequest
PROPERTIES
  FreshFrames
  DeadStaysDead
  CaptureEnds
