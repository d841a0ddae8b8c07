SPECIFICATION Spec
CONSTANTS
  MaxNeed = 4
  Initial = 2
  MaxServed = 4
INVARIANTS
  TypeOK
  RecordedIsAllocated
  FaultsHaveCause
  PayloadAsAsked
\* The model stops when a VM has served as many requests as the bound allows.
CHECK_DEADLOCK FALSE
