CONSTANTS
  Worker = {p}
  NoWorker = NoWorker
  Urgent = {u}
  Chat = {}
  Review = {r}
  MaxAttempts = 3
  MaxVersion = 1
SPECIFICATION FairSpec
PROPERTIES UrgentTaken ShiftsEnd
CHECK_DEADLOCK FALSE
