SPECIFICATION ProgramSpec
CONSTANTS
  CommandLines <- MCCommandLines
  MaxSize = 20
  MaxLines = 3
  Protocol = "MSI"
  N = 2
  NumSets = 1
  TagMask = 0
  Assoc = 3
  Blocks = {0, 1, 2, 3, 4}
  TraceLength = 26
  TraceOps = {"R", "W", "other"}
  HitCost = 1
  CacheCost = 2
  MemCost = 3
  UninitCosts = {1}
  IntModulus = 16
  WordModulus = 1000
INVARIANTS
  GeometrySound
  JobsAreTheAccesses
  EveryAccessServed
  CommentsHold
PROPERTIES
  ImplementsLru
