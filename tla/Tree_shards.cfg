SPECIFICATION Spec
CONSTANTS
  c1 = c1
  c2 = c2
  i1 = i1
  s1 = s1
  s2 = s2
  Chunks = {c1, i1}
  Snapshots = {s1}
  Needs <- OneNeeds
  Shards <- OneShard
  TagNames = {t1}
  Downloads = {d1}
  Kinds = {"tree"}
  BatchSize = 2
  Flush = 2
  FetchConcurrency = 2
  VerifyOnRead = {}
  MaxRot = 0
  Faults = {}
  None = None
INVARIANT ServedIndexWhole
CHECK_DEADLOCK FALSE
