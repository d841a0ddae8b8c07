CONSTANTS
  VMs = {v1, v2}
  Requests = {r1, r2, r3, r4, r5, r6}
  CommitCount = 2
  MaxGen = 2
SPECIFICATION Spec
SYMMETRY Symmetry
INVARIANTS
  ExactCount
  NeverOverReports
  BoundedBacklog

  
CHECK_DEADLOCK FALSE
