SPECIFICATION Spec
CONSTANTS
  Far = Far
  Bad = Bad
  Packs <- Four
  Size = 4
  Outside <- Elsewhere
  Garbage = Bad
  MaxWorkers = 2
  MaxChain = 3
INVARIANTS
  Complete
CHECK_DEADLOCK FALSE
