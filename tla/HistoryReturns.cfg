SPECIFICATION FairSpec
CONSTANTS
  p1 = p1 p2 = p2 h1 = h1 h2 = h2 d1 = d1 d2 = d2 s1 = s1 s2 = s2 s3 = s3
  None = None Torn = Torn NoImage = NoImage
  Procs = {p1, p2}
  Ids = {1}
  Hashes = {h1}
  Docs = {d1}
  Slots = {s1, s2, s3}
  InitialRecords <- Empty
  Unreadable = {1}
  Calls = {"insert", "read", "gc"}
  Cap = 0
  Cutoffs = {0}
  MaxCrashes = 0
  MaxFaults = 1
  MaxBlobLosses = 1
  MaxRecordLosses = 1
PROPERTIES
  EveryCallReturns
