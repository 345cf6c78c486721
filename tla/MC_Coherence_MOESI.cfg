SPECIFICATION Spec
CONSTANTS
  Protocol = "MOESI"
  p1 = p1
  p2 = p2
  p3 = p3
  b1 = b1
  b2 = b2
  Procs <- MC_Procs
  Blocks <- MC_Blocks
INVARIANTS
  SingleOwner
PROPERTIES
  CompletedJobHolds
  DirtyDataHandedOn
