SPECIFICATION Spec
CONSTANTS
  Threads = {t1, t2}
  Requests = {r1, r2}
  FailureThreshold = 1
  SuccessThreshold = 1
  Timeout = 1
  MaxTime = 2
  None = None
SYMMETRY Symmetry
PROPERTIES DocumentedTransitions
