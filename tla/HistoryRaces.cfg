SPECIFICATION Spec
CONSTANTS
  p1 = p1 p2 = p2 h1 = h1 h2 = h2 d1 = d1 d2 = d2 s1 = s1 s2 = s2 s3 = s3
  None = None Torn = Torn NoImage = NoImage
  Procs = {p1, p2}
  Ids = {1, 2}
  Hashes = {h1}
  Docs = {d1, d2}
  Slots = {s1, s2, s3}
  InitialRecords <- Single
  Unreadable = {}
  Calls = {"insert", "delete", "evict", "update"}
  Cap = 0
  Cutoffs = {0, 2}
  MaxCrashes = 1
  MaxFaults = 2
  MaxBlobLosses = 0
  MaxRecordLosses = 0
ACTION_CONSTRAINT Told
SYMMETRY Symmetry
INVARIANTS
  TypeOK
  PixelsKept
  IndexKnowsPixels
  SidecarsReachIndex
  BytesOnDisk
PROPERTIES
  EditsMerge
  PinnedKept
