SPECIFICATION Spec
CONSTANTS
  Protocol = "DRAGON"
  N = 3
  NumSets = 1
  TagMask = 0
  Assoc = 1
  Blocks = {1, 2}
  TraceLength = 3
  TraceOps = {"R", "W", "other"}
  HitCost = 1
  CacheCost = 2
  MemCost = 3
  UninitCosts = {1, 4}
  IntModulus = 8
  WordModulus = 1000
INVARIANTS
  Handshake
  DragonRequestsCounted
PROPERTIES
  Termination
  ImplementsCoherence
