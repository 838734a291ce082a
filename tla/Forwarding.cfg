SPECIFICATION FairSpec
CONSTANTS
  None = None
  Clients = {c1, c2}
  Kinds = {"capture", "query", "stop", "show"}
  Frames = 1
  MaxTimeouts = 2
  MaxRecordings = 1
INVARIANTS
  TypeOK
  OkMeansDone
  NeverTwice
PROPERTIES
  QuietAfterDown
  QuitCompletes
