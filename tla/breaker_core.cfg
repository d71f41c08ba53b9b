SPECIFICATION FairSpec
CONSTANTS
  Threads = {t1, t2}
  Requests = {r1, r2}
  FailureThreshold = 2
  SuccessThreshold = 2
  Timeout = 1
  MaxTime = 2
  None = None
INVARIANTS FailureCountBounded
PROPERTIES TripsWhenDown RecoversWhenUp SerialContract
