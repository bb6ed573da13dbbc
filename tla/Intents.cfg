CONSTANTS
  Key = {a, b}
  Operator = Operator
  Quoting = TRUE
  Size = 2
  Cap = 2
  Window = 0
  AbandonAge = 1
  Patience = 0
  MaxTime = 1
  MaxManual = 1
SPECIFICATION FairSpec
INVARIANTS CapHolds
PROPERTIES SettleAfterCrashes FindAfterCrashes
CHECK_DEADLOCK FALSE
