CONSTANTS
  Slot = {q1, q2}
  NoSlot = NoSlot
  Horizon = 2
  Renew = 2
  Margin = 1
  Window = 1
  Lag = 1
SPECIFICATION FairSpec
INVARIANTS OneQuotePerSide
PROPERTIES QuotesUnderTimer StoppedBookDrains
CHECK_DEADLOCK FALSE
