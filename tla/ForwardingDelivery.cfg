SPECIFICATION Spec
CONSTANTS
  None = None
  Clients = {c1, c2}
  Kinds = {"stop"}
  Frames = 1
  MaxTimeouts = 0
  MaxRecordings = 1
PROPERTIES
  ReplyReachesClient
