SPECIFICATION Spec
CONSTANTS
  Protocol = "MSI"
  N = 2
  NumSets = 1
  TagMask = 0
  Assoc = 1
  Blocks = {1, 2}
  TraceLength = 3
  TraceOps = {"R", "W"}
  HitCost = 1
  CacheCost = 2
  MemCost = 3
  UninitCosts = {4}
  IntModulus = 8
  WordModulus = 1000
PROPERTIES
  DirtyLinesWrittenBack
