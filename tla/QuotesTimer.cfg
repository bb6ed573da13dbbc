CONSTANTS
  Slot = {q1}
  NoSlot = NoSlot
  Horizon = 3
  Renew = 2
  Margin = 1
  Window = 1
  Lag = 1
SPECIFICATION Spec
INVARIANT ProtectedOnDisconnect
CHECK_DEADLOCK FALSE
