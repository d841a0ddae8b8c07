CONSTANTS
  VMs = {v1, v2}
  Urls = {u1, u2}
  MaxLocalUrls = 2
  MaxVisits = 5
  Nobody = nobody
SPECIFICATION CollectSpec
SYMMETRY Symmetry
INVARIANTS
  CollectTypeOK
  EveryVisitOnce
  ReportsWholeBatches
CHECK_DEADLOCK FALSE
