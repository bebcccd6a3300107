CONSTANTS
  Wt = {w1, w2, w3}
  Up <- Tree
  None = "-"
  Line = {k, l}
  Store <- First
  Heads <- Tips
  Goto <- Named
  Siblings = FALSE
  MaxCommits = 5
  MaxCommands = 3
SYMMETRY Alike
SPECIFICATION Spec
INVARIANTS TypeOK Readable Stacked
 
CHECK_DEADLOCK FALSE
