SPECIFICATION Spec
CONSTANTS
  MaxSpans = 4
  H = 2
  Servers = {1, 2}
  Cap1 = 2
  Cap2 = 1
  Cap3 = 1
  Cap <- MCCap
  Claims <- MCClaims
  Spill = {2}
  Versions = {v0, v1}
  Torn = Torn
  Target = v0
  None = None
  Count = 5
  Own = 3
  Attempts = 2
  RejectLimit = 1
  Refuse = TRUE
  FaultSets = {{2}, {1, 2}}
  Restless = {2}
  MaxFaults = 3
INVARIANTS TypeOK StripedExact HonestSuffices
PROPERTIES CallEnds ImplementsTransfer
CHECK_DEADLOCK FALSE
