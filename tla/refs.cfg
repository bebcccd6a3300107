SPECIFICATION Spec
CONSTANTS
  w1 = w1
  w2 = w2
  r1 = r1
  x = x
  y = y
  host = host
  p1 = p1
  main = main
  feat = feat
  trunk = trunk
  LeafOf <- SameLeaf
  Writer <- TwoWriters
  Reader <- OneReader
  Key <- OnePath
  Verb <- GetFail
  Sha <- TwoShas
  Local = Local
  Dot = Dot
  Wild = Wild
  None = None
  Hole = Hole
  MaxRows = 3
  Posts <- SamePosts
  Stale = FALSE
SYMMETRY Symmetry
INVARIANTS
  TypeOK
  
PROPERTIES
  CASHonest
  CompactionInvisible
