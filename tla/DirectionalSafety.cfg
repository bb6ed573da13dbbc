CONSTANTS
  Qty = 2
  Tries = 2
  Slot = {g1, g2}
  NoSlot = NoSlot
  MaxQty = 2
  MinPrice = 1
  MaxPrice = 2
SPECIFICATION Spec
INVARIANTS OneOrderAtATime NeverReversed EndsHedged
PROPERTIES StopKept
SYMMETRY SlotSymmetry
CHECK_DEADLOCK FALSE
