SPECIFICATION Spec
CONSTANTS
  Puts = {"p1", "p2", "p3"}
  KeyOf <- ThreeKeyOf
  FrameLen <- ThreeFrameLen
  Caps = {2, 4, 8}
  MaxOpens = 3
  None = None
INVARIANTS TypeOK FlushedStays FramesWhole LogOrder
PROPERTY FileOnlyGrows
CHECK_DEADLOCK FALSE
