SPECIFICATION FairSpec
CONSTANTS
  Clients = {c1, c2}
  Sequences = {s1, s2}
  Functions = {f1, f2}
  Workers = {w1, w2}
  MaxWorkers = 2
  LoadSheddingThreshold <- kNoLoadShedding
  QueueBounds = {}
  ClientsCancelPending = FALSE
  None = None
INVARIANTS SequentialExecution BusyIsVisible QuietWhenDown
PROPERTIES RefinesContract FreedIsRecycled ShutDownFinishes
CHECK_DEADLOCK FALSE
