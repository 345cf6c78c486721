SPECIFICATION Spec
CONSTANTS
  Protocol = "MOESI"
  N = 3
  NumSets = 1
  TagMask = 0
  Assoc = 1
  Blocks = {1, 2}
  TraceLength = 3
  TraceOps = {"R", "W"}
  HitCost = 1
  CacheCost = 2
  MemCost = 3
  UninitCosts = {0, 1, 4, 13}
  IntModulus = 8
  WordModulus = 40
INVARIANTS
  Handshake
  AccessesCounted
PROPERTIES
  Termination
  ImplementsCoherence
