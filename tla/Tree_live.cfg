SPECIFICATION FairSpec
CONSTANTS
  c1 = c1
  c2 = c2
  i1 = i1
  s1 = s1
  s2 = s2
  Chunks = {c1}
  Snapshots = {s1}
  Needs <- OneNeeds
  Shards <- NoShards
  TagNames = {}
  Downloads = {d1, d2}
  Kinds = {"tree", "file"}
  BatchSize = 1
  Flush = 1
  FetchConcurrency = 2
  VerifyOnRead = {d1}
  MaxRot = 1
  Faults = {"late", "scrub"}
  None = None
PROPERTY Converges
CHECK_DEADLOCK FALSE
