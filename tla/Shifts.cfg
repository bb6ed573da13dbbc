CONSTANTS
  Worker = {p, q}
  NoWorker = NoWorker
  Urgent = {u}
  Chat = {}
  Review = {r}
  MaxAttempts = 2
  MaxVersion = 2
SPECIFICATION Spec
VIEW View
INVARIANTS OneRunTrades OneRunning AgendaOfOneMode
PROPERTY RecoversFirst
SYMMETRY WorkerSymmetry
CHECK_DEADLOCK FALSE
