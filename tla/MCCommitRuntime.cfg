SPECIFICATION FairSpec
CONSTANTS
  Tasks = {t1, t2}
  Callers = {c1}
  Reads = {t2}
  Records = {t1, c1}
  WordBits = 2
  None = None
INVARIANTS TypeOK RecordHeldOnce RealTimeOrder SignalCounted
PROPERTIES RunCompletesAll EveryCallReturns RunReturns
CHECK_DEADLOCK FALSE
