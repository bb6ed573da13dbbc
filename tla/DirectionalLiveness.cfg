CONSTANTS
  Qty = 2
  Tries = 1
  Slot = {g1, g2}
  NoSlot = NoSlot
  MaxQty = 1
  MinPrice = 2
  MaxPrice = 3
SPECIFICATION FairSpec
PROPERTIES PairEnds Guarded CrossedIsExited
CHECK_DEADLOCK FALSE
