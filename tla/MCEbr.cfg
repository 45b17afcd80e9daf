SPECIFICATION FairSpec
CONSTANTS
  Threads = {t1, t2}
  Objs = {o1}
  NSlots = 2
  CollectInterval = 1
  MaxGuards = 1
  MaxEpoch = 2
  FREE = FREE
  UNPINNED = UNPINNED
  NoSlot = NoSlot
  NoObj = NoObj
INVARIANTS TypeOK NoUseAfterFree OneRecord
PROPERTIES ImplementsGracePeriod EpochAdvances
CHECK_DEADLOCK FALSE
