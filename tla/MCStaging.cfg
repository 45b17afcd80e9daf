SPECIFICATION Spec
CONSTANTS
  Threads = {t1, t2}
  Clients = {t1, t2}
  Base = 64
  Cap = 3
  Sizes = {0, 1, 2}
  Aligns = {1}
  Keys <- MCKeys
  OwnVals <- MCOwnVals
  File <- MCFile
  MaxEntries = 2
  Count = 1
  BufLen = 2
  None = None
  NoBuf = NoBuf
INVARIANTS TypeOK RegionsDisjoint BuffersStable
PROPERTY ImplementsWriteOnce
CHECK_DEADLOCK FALSE
SYMMETRY Symmetry
