SPECIFICATION Spec
CONSTANTS
  Roots = {r1, r2}
  N = 2
  MaxAttempts = 1
  SaveEvery = 2
  Budget = 1
  Policies = {"refuse", "replace"}
  Lossy = TRUE
  Faults = {"crash", "abandon", "delete", "cancel", "appear"}
  Junk = Junk
  Gone = Gone
  None = None
  Foreign = Foreign
INVARIANTS TypeOK DestVerified BitsBacked BoundedLoss
PROPERTY RefuseKeepsDest
SYMMETRY RootSymmetry
