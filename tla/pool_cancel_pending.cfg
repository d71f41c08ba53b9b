SPECIFICATION Spec
CONSTANTS
  Clients = {c1}
  Sequences = {s1}
  Functions = {f1, f2, f3}
  Workers = {w1, w2}
  MaxWorkers = 2
  LoadSheddingThreshold <- kNoLoadShedding
  QueueBounds = {}
  ClientsCancelPending = TRUE
  None = None
SYMMETRY Symmetry
INVARIANTS SequentialExecution
CHECK_DEADLOCK FALSE
