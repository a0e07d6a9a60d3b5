SPECIFICATION Spec
CONSTANTS
  MaxSpans = 2
  Group = 2
  MinChunk = 2
  MaxChunk = 4
  MaxIndex = 6
  ByteBits = 3
  MaxFields = 2
  MaxNeeded = 4
  ReadBatch = 2
  Coverages = {None, 0, 1, 2, 3}
  MaxValueLen = 8
  Starred = {"*", "**", "a$*"}
  MaxWant = 2
  BatchSize = 1
  Shard = 2
  MaxIndexBytes = 5
  None = None
  Totals = {0, 1, 2, 5, 7, 8, 11, 13, 15}
  Caps = {1, 2, 4}
  Hashes = {h1, h2, h3}
  Ids = {"x", "y"}
  MaxBytes = 2
  MaxKey = 4
  MaxList = 3
INVARIANTS
  RequestExact
  ClaimsBounded
  IdUnambiguous
  ProbeAttributed
  IndexFetched
  PublishSettles
CHECK_DEADLOCK FALSE
