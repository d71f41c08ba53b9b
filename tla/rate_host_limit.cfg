SPECIFICATION Spec
CONSTANTS
  Threads = {t1, t2, t3}
  Fetches = {f1, f2, f3, f4, f5}
  Hosts = {h1}
  Controllers = {k1}
  host <- OneHost
  controller <- OneController
  Background = {f1, f2, f3, f4}
  MaxGlobalQueueSize = 2
  OutgoingThreshold = 1
  QueuedThreshold = 2
  h1 = h1
  k1 = k1
  f1 = f1
  f2 = f2
  f3 = f3
  f4 = f4
  f5 = f5
  InvalidUrl = InvalidUrl
  None = None
SYMMETRY Symmetry
INVARIANTS HostLimit
CHECK_DEADLOCK FALSE
