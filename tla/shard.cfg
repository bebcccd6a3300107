SPECIFICATION Spec
CONSTANTS
  w1 = w1
  w2 = w2
  r1 = r1
  a = a
  b = b
  Writer <- OneWriter
  Reader <- OneReader
  Obj <- TwoObjs
  NoFile = NoFile
  Nobody = Nobody
  MaxSeq = 6
  MaxLen = 2
  StaleNumber = FALSE
  CrashInGap = FALSE
SYMMETRY Symmetry
INVARIANTS
  TypeOK
  Durable
  IndexSound
  OpenSeesCommitted
PROPERTIES
  NoClobber
  PacksAppendOnly
