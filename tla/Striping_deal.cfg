SPECIFICATION Spec
CONSTANTS
  MaxSpans = 4
  H = 3
  Servers = {1, 2, 3}
  Cap1 = 1
  Cap2 = 1
  Cap3 = 1
  Cap <- MCCap
  Claims <- MCClaims
  Spill = {}
  Versions = {v0, v1}
  Torn = Torn
  Target = v0
  None = None
  Count = 3
  Own = 3
  Attempts = 2
  RejectLimit = 1
  Refuse = TRUE
  FaultSets = {{}}
  Restless = {2}
  MaxFaults = 0
PROPERTY CallEnds
CHECK_DEADLOCK FALSE
