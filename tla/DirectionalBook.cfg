CONSTANTS
  Key = {a, b}
  Operator = Operator
  Quoting = FALSE
  Size = 2
  Cap = 4
  Window = 1
  AbandonAge = 3
  Patience = 1
  MaxTime = 4
  MaxManual = 1
  Event = {e}
  MaxRev = 2
  Page = 1
  MaxPass = 2
  MaxVersion = 2
  MaxRun = 2
  Asker = {l, x}
  MaxTotal = 3
  MaxPipe = 3
SPECIFICATION SpecBook
INVARIANTS ReservationCoversVenue SentOnce FillsBookedOnce ReviewsCurrent NotesAgree ToldCurrent Counted
PROPERTIES PassesGiveWay
SYMMETRY KeySymmetry
CHECK_DEADLOCK FALSE
