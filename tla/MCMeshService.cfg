SPECIFICATION FairSpec
CONSTANTS
  c1 = c1
  c2 = c2
  Clients = {c1, c2}
  Direct = {c2}
  Keys = {"a"}
  Vals = {v1}
  N = 2
  Route <- OneKey
  Cap = 1
  MaxCalls <- CallsOf
  MayStop = TRUE
  None = None
INVARIANTS TypeOK HeldOnce
PROPERTIES ImplementsAtomicKV CallsReturn
CHECK_DEADLOCK FALSE
