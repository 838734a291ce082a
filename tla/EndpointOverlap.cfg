SPECIFICATION Spec
CONSTANTS
  Apps = {a1, a2, a3}
  None = None
  Overlapping = TRUE
  MaxCrashes = 1
INVARIANTS
  OneInstance
