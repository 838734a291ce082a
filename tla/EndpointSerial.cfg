SPECIFICATION Spec
CONSTANTS
  Apps = {a1, a2, a3}
  None = None
  Overlapping = FALSE
  MaxCrashes = 3
INVARIANTS
  Reachable
PROPERTIES
  RefusedOnlyByLive
