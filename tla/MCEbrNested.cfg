CONSTANTS
  Threads = {t1, t2}
  Objs = {o1, o2}
  NSlots = 2
  CollectInterval = 1
  MaxGuards = 2
  MaxEpoch = 2
  FREE = FREE
  UNPINNED = UNPINNED
  NoSlot = NoSlot
  NoObj = NoObj
SPECIFICATION Spec
SYMMETRY Symmetry
INVARIANTS
  NoUseAfterFree
CHECK_DEADLOCK FALSE
