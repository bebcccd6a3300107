CONSTANTS
  Path <- TwoPaths
  Line <- TwoLines
  Mine <- Edits
  Theirs <- Posts
  None = None
  MaxRows = 3
  MaxCommits = 4
  MaxEdits = 2
  MaxCrashes = 2
  EditDuring = FALSE
  Rewind = FALSE
SPECIFICATION Spec
INVARIANTS TypeOK CleanMeansClean Closed
PROPERTIES EditsKept TipForward StagedLands
CHECK_DEADLOCK FALSE
