SPECIFICATION Spec
CONSTANTS
  Protocol = "MESI"
  N = 2
  NumSets = 3
  TagMask = 1
  Assoc = 1
  Blocks = {0, 1, 2}
  TraceLength = 4
  TraceOps = {"R", "W"}
  HitCost = 1
  CacheCost = 2
  MemCost = 3
  UninitCosts = {1, 4}
  IntModulus = 8
  WordModulus = 1000
INVARIANTS
  Handshake
  BusHoldBounded
  AccessesCounted
PROPERTIES
  Termination
  ImplementsCoherence
