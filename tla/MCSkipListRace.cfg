SPECIFICATION Spec
CONSTANTS
  Threads = {t1, t2}
  Nodes = {n1, n2}
  Keys = {1}
  Lowest = 0
  Highest = 2
  MaxLevel = 1
  Ops <- AllCalls
  Heights <- AllHeights
  W1 = t1
  W3 = t2
  WordBits = 2
  Head = head
  Tail = tail
  None = None
INVARIANT RetiredUnreachable
CHECK_DEADLOCK FALSE
SYMMETRY Symmetry
