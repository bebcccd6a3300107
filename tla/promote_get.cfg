CONSTANTS
  Wt = {w1, w2}
  Up <- Tree
  None = "-"
  Line = {k, l}
  Store <- First
  Heads <- Tips
  Goto <- Lower
  Siblings = FALSE
  MaxCommits = 5
  MaxCommands = 3
SPECIFICATION Spec
PROPERTIES GetKeeps
CHECK_DEADLOCK FALSE
