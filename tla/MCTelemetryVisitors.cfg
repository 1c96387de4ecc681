\* The clock can be set before the accept and still expire the timeout.
SPECIFICATION BothSpec
CONSTANTS
  f1 = f1  f2 = f2  v1 = v1  v2 = v2
  Fields <- TwoFields
  Visitors <- TwoVisitors
  MaxPublish = 3
  SeqModulus = 16
  Ordered = TRUE
  RequestSize = 4
  Markers <- ShortAndLong
  ResponseLength = 2
  Timeout = 2
  MaxBytes = 4
  \* At the epoch, which the code takes for no time, and later.
  Starts = {0, 2}
  MaxClock = 4
  MaxSets = 1
  MaxSnapshots = 1
INVARIANTS
  VisitTypeOK AnswersWhole CopyCurrent WorkerOwnsSockets
  OneAnswer NotCutShort
PROPERTIES
  CloseCompletes EveryVisitorLeaves
