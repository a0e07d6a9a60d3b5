SPECIFICATION Spec
CONSTANTS
  Ids = {a, b}
  Roots = {r1, r2}
  N = 2
  Cap = 1
  SaveEvery = 1
  Handlers = {h1, h2, h3}
  Worlds <- MCWorlds
  Junk = Junk
  None = None
INVARIANTS TypeOK CapHeld BackingIntact SpoolBacked
PROPERTIES NeverDisplaced UploadServed
SYMMETRY PushSymmetry
