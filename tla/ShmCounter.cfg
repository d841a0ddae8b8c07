CONSTANTS
  VMs = {v1, v2}
  CounterRequests = {r1, r2, r3, r4}
  Areas <- MCAreas
  Shapes <- MCShapes
  MaxBlocks = 3
  Word = 4
  Shown = 3
SPECIFICATION ShmSpec
SYMMETRY Symmetry
INVARIANTS
  ShmTypeOK
  BlocksApart
  CountsItself
  NumbersApart
CHECK_DEADLOCK FALSE
