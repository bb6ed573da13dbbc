CONSTANTS
  Worker = {p}
  NoWorker = NoWorker
  Urgent = {u}
  Chat = {c}
  Review = {}
  MaxAttempts = 3
  MaxVersion = 1
SPECIFICATION Spec
PROPERTIES ResumesAfterUrgent
CHECK_DEADLOCK FALSE
