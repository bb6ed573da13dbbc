CONSTANTS
  Doc = {1, 2}
  News = {n1}
  Trade = {t1}
  NoJob = NoJob
  Batch = 2
  MaxLoad = 2
  Task = {t, u}
  Handler = {h, i}
  NoTask = NoTask
  MaxEdits = 1
  Analysis = {a, b, c}
  NoAnalysis = NoAnalysis
  Process = {p, q}
  Caller = {x, y}
  Key = {k, l}
  Slot = {s}
  NoRequest = NoRequest
  MinDelay = 2
  MaxRetries = 1
  Ttl = 1
  Stale = 1
  Manager = {m1, m2}
  Coin = {c1, c2}
  BatchSize = 2
  MaxAttempts = 2
  MaxPending = 2
SPECIFICATION SpecServices
INVARIANTS CancelTakes RunsClaimed CapturedAsConfigured ClaimedAlone
PROPERTIES DocumentsMove QueuedStarts TakesTurns StreamFollows
CHECK_DEADLOCK FALSE
