SPECIFICATION FairSpec
CONSTANTS
  Threads = {t1, t2}
  Fetches = {f1, f2, f3, f4, f5}
  Hosts = {h1}
  Controllers = {k1}
  host <- OneInvalid
  controller <- OneController
  Background = {f1, f2, f3, f5}
  MaxGlobalQueueSize = 1
  OutgoingThreshold = 1
  QueuedThreshold = 1
  h1 = h1
  k1 = k1
  f1 = f1
  f2 = f2
  f3 = f3
  f4 = f4
  f5 = f5
  InvalidUrl = InvalidUrl
  None = None
INVARIANTS NobodyStranded RateInv
PROPERTY EveryFetchAnswered
CHECK_DEADLOCK FALSE
