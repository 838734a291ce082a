SPECIFICATION Spec
CONSTANTS
  None = None
  Formats = {f1}
  MaxPages = 0
  Workloads <- MCWorkloads
  MaxFrames = 2
  StallLimit = 1
  ManualStallLimit = 1
CHECK_DEADLOCK FALSE
INVARIANTS
  FailuresReported
