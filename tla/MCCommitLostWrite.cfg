SPECIFICATION Spec
CONSTANTS
  Tasks = {t1}
  Callers = {c1}
  Reads = {}
  Records = {t1, c1}
  WordBits = 2
  None = None
INVARIANT ResolvedIsWritten
CHECK_DEADLOCK FALSE
