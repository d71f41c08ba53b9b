SPECIFICATION FairSpec
CONSTANTS
  Clients = {c1, c2}
  Sequences = {s1}
  Functions = {f1, f2, f3}
  Workers = {w1}
  MaxWorkers = 1
  LoadSheddingThreshold = 1
  QueueBounds = {1}
  ClientsCancelPending = TRUE
  None = None
INVARIANTS Ownership
PROPERTIES AddedIsRetired
CHECK_DEADLOCK FALSE
