SPECIFICATION FairSpec
CONSTANTS
  Roots = {r1}
  N = 2
  MaxAttempts = 2
  SaveEvery = 2
  Budget = 0
  Policies = {"refuse", "replace"}
  Lossy = TRUE
  Faults = {"cancel", "delete"}
  Junk = Junk
  Gone = Gone
  None = None
  Foreign = Foreign
PROPERTIES CallEnds HonestCompletes
