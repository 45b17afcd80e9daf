SPECIFICATION Spec
CONSTANTS
  Threads = {t1, t2}
  Nodes = {n1, n2}
  Keys = {1, 2, 3}
  Lowest = 0
  Highest = 4
  MaxLevel = 1
  Ops <- OneTallWriter
  Heights <- FlatMiddle
  W1 = t1
  W3 = t2
  WordBits = 2
  Head = head
  Tail = tail
  None = None
INVARIANTS TypeOK Sorted Linearizable RetiredUnreachable NoUseAfterFree LenExact
PROPERTIES PresenceChanges RetryMeansProgress
CHECK_DEADLOCK FALSE
SYMMETRY Symmetry
