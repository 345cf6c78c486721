SPECIFICATION Spec
CONSTANTS
  Protocol = "MSI"
  N = 2
  NumSets = 1
  TagMask = 0
  Assoc = 2
  Blocks = {0, 1, 2}
  TraceLength = 4
  TraceOps = {"R", "W"}
  HitCost = 1
  CacheCost = 2
  MemCost = 3
  UninitCosts = {1, 4}
  IntModulus = 8
  WordModulus = 1000
INVARIANTS
  TypeOK
  Handshake
  SetsSound
  BusHoldBounded
  AccessesCounted
  BusRdXCounted
  MemoryUsesCounted
PROPERTIES
  Termination
  ImplementsCoherence
  ImplementsLru
