SPECIFICATION Spec
CONSTANTS
  c1 = c1
  c2 = c2
  i1 = i1
  s1 = s1
  s2 = s2
  Chunks = {c1, c2}
  Snapshots = {s1, s2}
  Needs <- SharedNeeds
  Shards <- NoShards
  TagNames = {t1}
  Downloads = {d1}
  Kinds = {"tree"}
  BatchSize = 2
  Flush = 2
  FetchConcurrency = 2
  VerifyOnRead = {}
  MaxRot = 0
  Faults = {"abandon", "cancel", "silent"}
  None = None
INVARIANTS TypeOK ResolvedKept ServedWhole
PROPERTIES SweepSpares CancelKeeps
CHECK_DEADLOCK FALSE
