SPECIFICATION FairSpec
CONSTANTS
  Far = Far
  Bad = Bad
  Packs <- Four
  Size = 4
  Outside <- Elsewhere
  Garbage = Bad
  MaxWorkers = 2
  MaxChain = 3
INVARIANTS
  TypeOK
  Honest
  InPackComplete
PROPERTIES
  Finishes
CHECK_DEADLOCK FALSE
