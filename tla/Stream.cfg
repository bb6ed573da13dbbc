CONSTANTS
  Manager = {m1}
  Coin = {c1, c2}
  BatchSize = 2
  MaxAttempts = 2
  MaxPending = 2
SPECIFICATION Spec
INVARIANT NotResubscribed
CHECK_DEADLOCK FALSE
