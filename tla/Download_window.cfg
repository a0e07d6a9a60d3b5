SPECIFICATION Spec
CONSTANTS
  Roots = {r1, r2}
  N = 2
  MaxAttempts = 1
  SaveEvery = 1
  Budget = 1
  Policies = {"replace"}
  Lossy = TRUE
  Faults = {"crash", "window"}
  Junk = Junk
  Gone = Gone
  None = None
  Foreign = Foreign
INVARIANT DestVerified
SYMMETRY RootSymmetry
