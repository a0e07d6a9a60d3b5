SPECIFICATION Spec
CONSTANTS
  Names <- MCNames
  Chunks = {"u", "x", "y", "z"}
  Paths <- MCPaths
  Starts <- MCStarts
  Plans <- MCPlans
  MaxHops = 4
  KernelHops = 5
  MaxLen = 4
INVARIANTS TypeOK Materialized OthersKept RerunConverges LinksConfined
