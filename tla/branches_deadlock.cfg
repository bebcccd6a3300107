SPECIFICATION Spec
CONSTANTS
  p1 = p1
  p2 = p2
  x = x
  y = y
  trunk = trunk
  feat = feat
  fix = fix
  Proc <- TwoProcs
  Obj <- OneObj
  Line <- Siblings
  DirOrder <- SiblingsOrder
  None = None
  MaxSeq = 5
  MaxLen = 2
  Strangers = FALSE
INVARIANT NoLockCycle
