CONSTANTS
  Call = {a, b}
  NoCall = NoCall
  LeaseTTL = 1
  Window = 1
  MaxTime = 5
  MaxNonce = 2
  MaxVersion = 2
SPECIFICATION SpecScene
INVARIANT SentNonces
PROPERTIES TakeoverStopsWrites ImplementsTenure KillStopsOrders MandateStopsWrites
SYMMETRY CallSymmetry
CHECK_DEADLOCK FALSE
