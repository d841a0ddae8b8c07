CONSTANTS
  Inputs <- MCInputs
  TickRate = 33
  SkipRate = 100
  SaveEvery = 3
  Delays <- MCDelays
  MaxTime = 101
  MaxFrames = 3
SPECIFICATION Spec
INVARIANTS
  TypeOK
  KeysHeldFourCalls
  BoundedCatchUp
  AheadOnlyAfterRestore
CHECK_DEADLOCK FALSE
