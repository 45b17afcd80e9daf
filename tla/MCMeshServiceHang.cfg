SPECIFICATION FairSpec
CONSTANTS
  c1 = c1
  c2 = c2
  Clients = {c1}
  Direct = {c1}
  Keys = {"a"}
  Vals = {v1}
  N = 2
  Route <- OneKey
  Cap = 1
  MaxCalls <- OneCall
  MayStop = TRUE
  None = None
PROPERTY EveryRequestAnswered
CHECK_DEADLOCK FALSE
