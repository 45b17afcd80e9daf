SPECIFICATION Spec
CONSTANTS
  Vals = {a, b}
  Pushers = {p1}
  Capacity = 3
  WordBits = 3
  MaxDrain = 2
  Uninit = Uninit
INVARIANTS TypeOK SlotsExclusive DropIsExact
PROPERTY ImplementsFifo
CHECK_DEADLOCK FALSE
SYMMETRY Symmetry
